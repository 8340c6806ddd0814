------------------------- MODULE WorkerSession_proofs -------------------------
(***************************************************************************)
(* Theorems about WorkerSession, for any tasks, any messages of the worker *)
(* and any failures of the transport, after lemmas about Conversation, the *)
(* pure state machine of a session: every operator keeps the shape of its  *)
(* values, and a step that finishes a session has nothing pending.         *)
(*                                                                         *)
(* What was written and accepted, the history, is tied to the state by the *)
(* agreement of a conversation with the wire: lemmas named ...Agrees say   *)
(* that each operator of Conversation keeps it, lemmas named               *)
(* ...KeepsHistory that each action does.  The requests on the wire are    *)
(* counted by a recursive function, so the lemmas about it are proved by   *)
(* induction, over a set of numbers (Induction).                           *)
(***************************************************************************)
EXTENDS WorkerSession, TLAPS, FiniteSetTheorems, WellFoundedInduction

-----------------------------------------------------------------------------
(* Messages a worker may write: all that `received` looks at. *)
Readable(message) ==
  /\ message.kind \in {"result", "error", "notification", "request", "oversized"}
  /\ message.body \in {"accept", "reject", "malformed"}

(* The constructors of endings, conclusions and steps have their type.     *)
LEMMA ConstructorTypes ==
  /\ NoEnding \in Endings /\ Cancelled \in Endings /\ DeadlinePassed \in Endings
  /\ Completed \in Endings /\ Unsuccessful \in Endings
  /\ \A code \in Codes : Refused(code) \in Endings /\ Failed(code) \in Endings
  /\ Described \in Conclusions /\ Closed \in Conclusions
  /\ NoConclusion \in Conclusions
  /\ \A ending \in Endings : EndedEarly(ending) \in Conclusions
BY DEF NoEnding, Cancelled, DeadlinePassed, Completed, Unsuccessful, Refused,
       Failed, Described, Closed, NoConclusion, EndedEarly, Conclusions, Endings,
       Codes

LEMMA StepTypes ==
  /\ \A message \in Sent : Exchange(message) \in Steps
  /\ Activated \in Steps
  /\ \A class \in Endings : Answered(class) \in Steps
  /\ \A message \in Sent, plan \in StopReasons \cup {"CloseAfterExit"},
        conclusion \in Conclusions : Finished(message, plan, conclusion) \in Steps
  /\ NoMessage \in Sent
  /\ \A method \in Methods, id \in Nat : Message(method, id) \in Sent
<1>1. NoMessage \in Sent /\ \A method \in Methods, id \in Nat : Message(method, id) \in Sent
  BY DEF NoMessage, Message, Sent, Methods
<1>2. ASSUME NEW message \in Sent PROVE Exchange(message) \in Steps
  BY ConstructorTypes DEF Exchange, Steps
<1>3. Activated \in Steps
  <2>1. Exchange(Message("initialized", 0)) \in Steps
    BY <1>1, <1>2 DEF Methods
  <2> QED BY <2>1 DEF Activated, Steps
<1>4. ASSUME NEW class \in Endings PROVE Answered(class) \in Steps
  BY <1>1, ConstructorTypes DEF Answered, Exchange, Steps
<1>5. ASSUME NEW message \in Sent, NEW plan \in StopReasons \cup {"CloseAfterExit"},
             NEW conclusion \in Conclusions
      PROVE  Finished(message, plan, conclusion) \in Steps
  BY ConstructorTypes DEF Finished, Exchange, Steps
<1> QED BY <1>1, <1>2, <1>3, <1>4, <1>5

(* The moves that end a conversation leave no request pending.             *)
LEMMA OverType ==
  ASSUME NEW conv \in Conversations, NEW message \in Sent,
         NEW plan \in StopReasons \cup {"CloseAfterExit"},
         NEW conclusion \in Conclusions
  PROVE  over(conv, message, plan, conclusion) \in Moves
<1>1. [conv EXCEPT !.phase = "Over", !.pending = 0] \in Conversations
  BY DEF Conversations, Phases
<1> QED BY <1>1, StepTypes DEF over, Moves

LEMMA ExitType ==
  ASSUME NEW conv \in Conversations, NEW conclusion \in Conclusions
  PROVE  exit(conv, conclusion) \in Moves
BY OverType, StepTypes DEF exit, Methods

LEMMA ShutdownType ==
  ASSUME NEW conv \in Conversations, NEW phase \in Phases, NEW refusal \in Endings
  PROVE  shutdown(conv, phase, refusal) \in Moves
<1>1. conv.next_id \in Nat
  BY DEF Conversations
<1>2. Exchange(Message("shutdown", conv.next_id)) \in Steps
  BY <1>1, StepTypes DEF Methods
<1> QED BY <1>1, <1>2 DEF shutdown, Conversations, Moves

(* A conversation starts with request 1. *)
LEMMA StartTypes == probe \in Moves /\ activate \in Moves /\ NoConversation \in Conversations
<1>1. /\ Exchange(Message("describe", 1)) \in Steps
      /\ Exchange(Message("initialize", 1)) \in Steps
  BY StepTypes DEF Methods
<1>2. [phase |-> "Describing", pending |-> 1, next_id |-> 2, refusal |-> NoEnding]
         \in Conversations
  BY ConstructorTypes DEF Conversations, Phases
<1>3. [phase |-> "Initializing", pending |-> 1, next_id |-> 2, refusal |-> NoEnding]
         \in Conversations
  BY ConstructorTypes DEF Conversations, Phases
<1> QED BY <1>1, <1>2, <1>3 DEF probe, activate, NoConversation, Moves, Conversations, Phases

(* Every event ends a conversation. *)
LEMMA OnType ==
  ASSUME NEW conv \in Conversations, NEW event
  PROVE  on(conv, event) \in Moves
<1>1. \A ending \in Endings : Ending(conv, ending) \in Endings
  BY DEF Ending, Conversations
<1>2. \A error : FaultOf(conv, error) \in Codes
  BY DEF FaultOf, Codes
<1>3. transport_fault(conv, event) \in Endings
  <2>1. {"request_limit", "worker_runtime_mismatch"} \subseteq Codes
    BY DEF Codes
  <2> QED BY <1>1, <1>2, <2>1, ConstructorTypes DEF transport_fault
<1>4. /\ EndedEarly(Ending(conv, Cancelled)) \in Conclusions
      /\ EndedEarly(Ending(conv, DeadlinePassed)) \in Conclusions
      /\ EndedEarly(transport_fault(conv, event)) \in Conclusions
  BY <1>1, <1>3, ConstructorTypes
<1> QED BY <1>4, OverType, StepTypes DEF on, StopReasons

(* A reply keeps the shape of the conversation, whatever it says.          *)
LEMMA RepliedType ==
  ASSUME NEW conv \in Conversations, NEW reply, Readable(reply)
  PROVE  replied(conv, reply) \in Moves
<1>1. {"describe_failed", "guest", "unexpected_response", "protocol_unavailable",
       "claims_mismatch"} \subseteq Codes
  BY DEF Codes
<1>2. initialized(conv, reply.body) \in Moves
  <2>1. shutdown(conv, "Refusing", Refused("claims_mismatch")) \in Moves
    BY <1>1, ShutdownType, ConstructorTypes DEF Phases
  <2>2. exit(conv, EndedEarly(Refused("protocol_unavailable"))) \in Moves
    BY <1>1, ExitType, ConstructorTypes
  <2>3. [conv EXCEPT !.phase = "Ready", !.pending = 0] \in Conversations
    BY DEF Conversations, Phases
  <2> QED BY <2>1, <2>2, <2>3, StepTypes DEF initialized, Moves
<1>3. answer(reply) \in Endings
  BY <1>1, ConstructorTypes DEF answer
<1>4. [conv EXCEPT !.phase = "Called", !.pending = 0] \in Conversations
  BY DEF Conversations, Phases
<1>5. [conv |-> [conv EXCEPT !.phase = "Called", !.pending = 0],
       step |-> Answered(answer(reply))] \in Moves
  BY <1>3, <1>4, StepTypes DEF Moves
<1>6. /\ exit(conv, Described) \in Moves /\ exit(conv, Closed) \in Moves
      /\ exit(conv, EndedEarly(Failed("guest"))) \in Moves
      /\ exit(conv, EndedEarly(Failed("describe_failed"))) \in Moves
      /\ exit(conv, EndedEarly(conv.refusal)) \in Moves
  <2>1. conv.refusal \in Endings
    BY DEF Conversations
  <2> QED BY <2>1, <1>1, ExitType, ConstructorTypes
<1>7. over(conv, NoMessage, "Fault", EndedEarly(Failed("unexpected_response"))) \in Moves
  BY <1>1, OverType, StepTypes, ConstructorTypes DEF StopReasons
<1> QED BY <1>2, <1>5, <1>6, <1>7 DEF replied

LEMMA ReceivedType ==
  ASSUME NEW conv \in Conversations, NEW message, Readable(message)
  PROVE  received(conv, message) \in Moves
<1>1. \A ending \in Endings : Ending(conv, ending) \in Endings
  BY DEF Ending, Conversations
<1>2. \A code \in {"unexpected_response", "response_limit"} :
        over(conv, NoMessage, "Fault", EndedEarly(Ending(conv, Failed(code)))) \in Moves
  <2>1. {"unexpected_response", "response_limit"} \subseteq Codes
    BY DEF Codes
  <2> QED BY <1>1, <2>1, OverType, StepTypes, ConstructorTypes DEF StopReasons
<1>3. [conv |-> conv, step |-> Exchange(NoMessage)] \in Moves
  BY StepTypes DEF Moves
<1> QED BY <1>2, <1>3, RepliedType DEF received

(* What a caller asks for. *)
LEMMA CallTypes ==
  ASSUME NEW conv \in Conversations
  PROVE  /\ call(conv) \in Moves
         /\ close(conv) \in Moves
         /\ refuse(conv).step.answer \in Endings
<1>1. conv.next_id \in Nat
  BY DEF Conversations
<1>2. Exchange(Message("operation", conv.next_id)) \in Steps
  BY <1>1, StepTypes DEF Methods
<1>3. [conv EXCEPT !.phase = "Calling", !.pending = conv.next_id, !.next_id = @ + 1]
         \in Conversations
  <2>1. conv.next_id + 1 \in Nat
    BY <1>1
  <2>2. [conv EXCEPT !.phase = "Calling"] \in Conversations
    BY DEF Conversations, Phases
  <2>3. [[conv EXCEPT !.phase = "Calling"] EXCEPT !.pending = conv.next_id]
           \in Conversations
    BY <2>2, <1>1 DEF Conversations
  <2> QED BY <2>1, <2>3 DEF Conversations
<1>4. close(conv) \in Moves
  BY ShutdownType, ConstructorTypes DEF close, Phases
<1>5. refuse(conv).step.answer \in Endings
  BY ConstructorTypes DEF refuse, Answered, Exchange, Codes
<1> QED BY <1>2, <1>3, <1>4, <1>5 DEF call, Moves

-----------------------------------------------------------------------------
(* What one step of the driver does to the task that takes it.             *)

LEMMA MessagesReadable == \A m \in Messages : Readable(m) /\ m.id \in Nat
BY MessagesAssumption DEF Readable

LEMMA FailType ==
  ASSUME NEW next \in Moves, NEW event,
         after(event) \in StopReasons
  PROVE  Fail(next, event) \in Moves
<1>1. on(next.conv, event) \in Moves
  BY OnType DEF Moves
<1>2. [next.step EXCEPT !.send = NoMessage, !.plan = after(event)] \in Steps
  BY StepTypes DEF Moves, Steps
<1>3. [next EXCEPT !.step.send = NoMessage, !.step.plan = after(event)] \in Moves
  BY <1>2 DEF Moves
<1> QED BY <1>1, <1>3 DEF Fail

LEMMA SentType ==
  ASSUME NEW next \in Moves
  PROVE  [next EXCEPT !.step.send = NoMessage] \in Moves
<1>1. [next.step EXCEPT !.send = NoMessage] \in Steps
  BY StepTypes DEF Moves, Steps
<1> QED BY <1>1 DEF Moves

LEMMA EnteredType ==
  ASSUME NEW next \in Moves
  PROVE  Entered(next) \in Moves
BY FailType DEF Entered, after, StopReasons

LEMMA PointOfPlace ==
  ASSUME NEW step
  PROVE  PointOf(step) \in {"writing", "reading", "ending", "paused"}
BY DEF PointOf

(* Drive keeps the shape of the driver's locals. *)
LEMMA DriveType ==
  ASSUME TypeOK, NEW t \in Tasks, NEW next \in Moves, Drive(t, next)
  PROVE  /\ local' \in [Tasks -> Moves]
         /\ pc' \in [Tasks -> Points]
         /\ pc'[t] \in {"writing", "reading", "ending", "paused"}
         /\ \A u \in Tasks \ {t} : pc'[u] = pc[u] /\ local'[u] = local[u]
         /\ local'[t] = Entered(next)
BY EnteredType, PointOfPlace DEF Drive, TypeOK, Points

LEMMA AfterType == \A event : after(event) \in StopReasons
BY DEF after, StopReasons

LEMMA StatusType ==
  ASSUME NEW reason \in StopReasons \cup {"LeaderExited"}, NEW confirmed \in BOOLEAN
  PROVE  Status(reason, confirmed) \in Stops /\ Status(reason, confirmed) # NoStop
BY DEF Status, Stops, StopReasons, NoStop

LEMMA ReportTypes ==
  /\ NoStop \in Stops
  /\ NoReport \in Reports
  /\ \A s \in Stops, ending \in Endings : SessionReport(s, ending) \in Reports
  /\ \A kind \in OutcomeKinds, ending \in Endings, rep \in Reports :
        Outcome(kind, ending, rep) \in Outcomes
BY ConstructorTypes DEF Stops, NoReport, SessionReport, Reports, Outcome, Outcomes

LEMMA LeaveType ==
  ASSUME TypeOK, NEW t \in Tasks, NEW result \in Outcomes, Leave(t, result)
  PROVE  /\ pc' \in [Tasks -> Points]
         /\ pc'[t] = "done"
         /\ outcome' \in [Tasks -> Outcomes]
         /\ outcome'[t] = result
         /\ \A u \in Tasks \ {t} : pc'[u] = pc[u] /\ outcome'[u] = outcome[u]
         /\ doomed' \subseteq Tasks
BY DEF Leave, TypeOK, Points

(* The type invariant. *)
THEOREM TypeCorrect == Spec => []TypeOK
<1>1. Init => TypeOK
  <2> SUFFICES ASSUME Init PROVE TypeOK
    OBVIOUS
  <2>1. [conv |-> NoConversation, step |-> Exchange(NoMessage)] \in Moves
    BY StartTypes, StepTypes DEF Moves
  <2>2. NoOutcome \in Outcomes
    BY ReportTypes, ConstructorTypes DEF NoOutcome, OutcomeKinds
  <2>3. /\ pc \in [Tasks -> Points] /\ local \in [Tasks -> Moves]
        /\ outcome \in [Tasks -> Outcomes]
    BY <2>1, <2>2 DEF Init, Points
  <2>4. /\ want \in [Tasks -> StopReasons \cup {"LeaderExited"}]
        /\ then \in [Tasks -> {"settle", "abandon", "raise", "cancel"} \cup ChannelErrors]
    BY DEF Init, StopReasons
  <2>5. conversation \in Conversations /\ report \in Reports /\ stop \in Stops
    BY StartTypes, ReportTypes DEF Init
  <2>6. output \in Seq(Messages) /\ wire \in Seq(Sent) /\ accepted \in Seq(Nat)
    BY DEF Init
  <2>7. written \in 0..MaxOutput /\ overrun \in Nat
    BY ConfigAssumption DEF Init
  <2>8. doomed \subseteq Tasks
    BY DEF Init
  <2> QED BY <2>3, <2>4, <2>5, <2>6, <2>7, <2>8 DEF Init, TypeOK
<1>2. TypeOK /\ [Next]_vars => TypeOK'
  <2> SUFFICES ASSUME TypeOK, [Next]_vars PROVE TypeOK'
    OBVIOUS
  <2> USE DEF session, channel, clock, history, driver
  <2>1. ASSUME NEW t \in Tasks, Send(t) PROVE TypeOK'
    <3>1. [local[t] EXCEPT !.step.send = NoMessage] \in Moves
      BY SentType DEF TypeOK
    <3>2. local[t].step.send \in Sent
      BY DEF TypeOK, Moves, Steps
    <3>3. wire' \in Seq(Sent) /\ overrun' \in Nat
      BY <2>1, <3>2 DEF Send, TypeOK
    <3>4. local' \in [Tasks -> Moves] /\ pc' \in [Tasks -> Points]
      BY <2>1, <3>1, DriveType DEF Send
    <3> QED BY <2>1, <3>3, <3>4 DEF Send, TypeOK
  <2>2. ASSUME NEW t \in Tasks, SendFails(t) PROVE TypeOK'
    <3>1. \A error : Fail(local[t], error) \in Moves
      BY FailType, AfterType DEF TypeOK
    <3> QED BY <2>2, <3>1, DriveType DEF SendFails, TypeOK
  <2>3. ASSUME NEW t \in Tasks, ReceiveFails(t) PROVE TypeOK'
    <3>1. \A error : Fail(local[t], error) \in Moves
      BY FailType, AfterType DEF TypeOK
    <3> QED BY <2>3, <3>1, DriveType DEF ReceiveFails, TypeOK
  <2>4. ASSUME NEW t \in Tasks, Interrupt(t) PROVE TypeOK'
    <3>1. \A error : Fail(local[t], error) \in Moves
      BY FailType, AfterType DEF TypeOK
    <3> QED BY <2>4, <3>1, DriveType DEF Interrupt, TypeOK
  <2>5. ASSUME NEW t \in Tasks, Receive(t) PROVE TypeOK'
    <3>1. Head(output) \in Messages /\ Tail(output) \in Seq(Messages)
      BY <2>5 DEF Receive, TypeOK
    <3>2. received(local[t].conv, Head(output)) \in Moves
      BY <3>1, MessagesReadable, ReceivedType DEF TypeOK, Moves
    <3>3. accepted' \in Seq(Nat)
      BY <2>5, <3>1, MessagesReadable DEF Receive, TypeOK
    <3> QED BY <2>5, <3>1, <3>2, <3>3, DriveType DEF Receive, TypeOK
  <2>6. ASSUME NEW t \in Tasks, FrameFault(t) PROVE TypeOK'
    BY <2>6, ConfigAssumption DEF FrameFault, TypeOK, Points, StopReasons, ChannelErrors
  <2>7. ASSUME NEW t \in Tasks, FrameFaulted(t) PROVE TypeOK'
    <3>1. Fail(local[t], then[t]) \in Moves
      BY FailType, AfterType DEF TypeOK
    <3> QED BY <2>7, <3>1, DriveType DEF FrameFaulted, TypeOK
  <2>8. ASSUME NEW t \in Tasks, Pause(t) PROVE TypeOK'
    <3>1. local[t].conv \in Conversations /\ local[t].step.answer \in Endings
      BY DEF TypeOK, Moves, Steps
    <3>2. /\ Outcome("opened", NoEnding, NoReport) \in Outcomes
          /\ Outcome("answered", local[t].step.answer, NoReport) \in Outcomes
      BY <3>1, ReportTypes, ConstructorTypes DEF OutcomeKinds
    <3>3. pc' \in [Tasks -> Points] /\ outcome' \in [Tasks -> Outcomes] /\ doomed' \subseteq Tasks
      BY <2>8, <3>2, LeaveType DEF Pause, TypeOK, Points
    <3> QED BY <2>8, <3>1, <3>3 DEF Pause, Release, TypeOK
  <2>9. ASSUME NEW t \in Tasks, StopWorker(t) PROVE TypeOK'
    <3>1. local[t].step.plan \in StopReasons \cup {"CloseAfterExit"}
      BY DEF TypeOK, Moves, Steps
    <3> QED BY <2>9, <3>1 DEF StopWorker, Abort, TypeOK, Points
  <2>10. ASSUME NEW t \in Tasks, GraceEnds(t) PROVE TypeOK'
    BY <2>10 DEF GraceEnds, TypeOK, Points, StopReasons
  <2>11. ASSUME NEW t \in Tasks, TakeLock(t) PROVE TypeOK'
    BY <2>11 DEF TakeLock, TypeOK, Points
  <2>12. ASSUME NEW t \in Tasks, Kill(t) PROVE TypeOK'
    BY <2>12, StatusType DEF Kill, TypeOK, Points
  <2>13. ASSUME NEW t \in Tasks, Settle(t) PROVE TypeOK'
    <3> DEFINE conclusion == local[t].step.conclusion
               ending == IF then[t] = "abandon" THEN NoEnding ELSE conclusion.ending
    <3>1. local[t].conv \in Conversations /\ conclusion.ending \in Endings
      BY DEF TypeOK, Moves, Steps, Conclusions
    <3>2. ending \in Endings
      BY <3>1, ConstructorTypes
    <3>3. /\ SessionReport(stop, ending) \in Reports
          /\ SessionReport(stop, conclusion.ending) \in Reports
      BY <3>1, <3>2, ReportTypes DEF TypeOK
    <3>4. CASE t = Opener /\ ~opened
      <4>1. \A kind \in {"described", "ended"} :
              Outcome(kind, conclusion.ending, SessionReport(stop, conclusion.ending))
                \in Outcomes
        BY <3>1, <3>3, ReportTypes DEF OutcomeKinds
      <4> QED BY <2>13, <3>4, <4>1, LeaveType DEF Settle, OpenerSettles, TypeOK
    <3>5. CASE ~(t = Opener /\ ~opened)
      <4>1. \A kind \in {"answered", "reported"} :
              Outcome(kind, ending, SessionReport(stop, ending)) \in Outcomes
        BY <3>2, <3>3, ReportTypes DEF OutcomeKinds
      <4>2. pc' \in [Tasks -> Points] /\ outcome' \in [Tasks -> Outcomes] /\ doomed' \subseteq Tasks
        BY <2>13, <3>5, <4>1, LeaveType DEF Settle
      <4> QED BY <2>13, <3>1, <3>3, <3>5, <4>2 DEF Settle, Release, TypeOK
    <3> QED BY <3>4, <3>5
  <2>14. ASSUME NEW t \in Tasks, Raise(t) PROVE TypeOK'
    <3>1. Raised \in Outcomes
      BY ReportTypes, ConstructorTypes DEF Raised, OutcomeKinds
    <3> QED BY <2>14, <3>1, LeaveType DEF Raise, Release, TypeOK
  <2>15. ASSUME NEW t \in Tasks, Close(t) PROVE TypeOK'
    <3>1. Outcome("reported", report.ending, report) \in Outcomes
      BY ReportTypes DEF TypeOK, Reports, OutcomeKinds
    <3>2. CASE report # NoReport
      BY <2>15, <3>1, <3>2, LeaveType DEF Close, TypeOK
    <3>3. CASE report = NoReport /\ Closable(conversation)
      <4>1. close(conversation) \in Moves
        BY CallTypes DEF TypeOK
      <4> QED BY <2>15, <3>3, <4>1, DriveType DEF Close, TypeOK
    <3>4. CASE report = NoReport /\ ~Closable(conversation)
      BY <2>15, <3>4 DEF Close, Abort, TypeOK, Points, StopReasons
    <3> QED BY <3>2, <3>3, <3>4
  <2>16. ASSUME NEW t \in Tasks, CancelDrive(t) PROVE TypeOK'
    BY <2>16 DEF CancelDrive, Abort, TypeOK, Points, StopReasons
  <2>17. ASSUME NEW t \in Tasks, CancelWait(t) PROVE TypeOK'
    <3>1. Raised \in Outcomes
      BY ReportTypes, ConstructorTypes DEF Raised, OutcomeKinds
    <3> QED BY <2>17, <3>1, LeaveType DEF CancelWait, TypeOK
  <2>18. ASSUME NEW t \in Tasks, CancelGrace(t) PROVE TypeOK'
    BY <2>18 DEF CancelGrace, TypeOK, Points, StopReasons
  <2>19. ASSUME NEW t \in Tasks, CancelFinish(t) PROVE TypeOK'
    BY <2>19 DEF CancelFinish, TypeOK
  <2>20. ASSUME NEW t \in Callers, Call(t) PROVE TypeOK'
    <3>1. t \in Tasks
      BY DEF Tasks
    <3>2. Unavailable \in Outcomes
      BY ReportTypes, ConstructorTypes DEF Unavailable, OutcomeKinds
    <3>3. Outcome("answered", refuse(conversation).step.answer, NoReport) \in Outcomes
      BY ReportTypes, CallTypes DEF OutcomeKinds, TypeOK
    <3>4. call(conversation) \in Moves
      BY CallTypes DEF TypeOK
    <3>5. \/ Leave(t, Unavailable) /\ UNCHANGED <<local, busy>>
          \/ /\ Leave(t, Outcome("answered", refuse(conversation).step.answer, NoReport))
             /\ UNCHANGED <<local, busy>>
          \/ busy' = t /\ Drive(t, call(conversation)) /\ UNCHANGED <<outcome, doomed>>
      BY <2>20 DEF Call
    <3>6. /\ pc' \in [Tasks -> Points] /\ outcome' \in [Tasks -> Outcomes]
          /\ doomed' \subseteq Tasks /\ local' \in [Tasks -> Moves]
          /\ busy' \in Tasks \cup {NoTask}
      BY <3>1, <3>2, <3>3, <3>4, <3>5, LeaveType, DriveType DEF TypeOK
    <3> QED BY <2>20, <3>6 DEF Call, TypeOK
  <2>21. ASSUME NEW t \in Closers, StartClose(t) PROVE TypeOK'
    BY <2>21 DEF StartClose, TypeOK, Tasks, Points
  <2>22. ASSUME Start PROVE TypeOK'
    <3>1. PICK mode \in Modes : Drive(Opener, IF mode = "probe" THEN probe ELSE activate)
      BY <2>22 DEF Start
    <3>2. Opener \in Tasks
      BY DEF Tasks
    <3> QED BY <2>22, <3>1, <3>2, StartTypes, DriveType DEF Start, TypeOK
  <2>23. ASSUME StartFails PROVE TypeOK'
    <3>1. Opener \in Tasks
      BY DEF Tasks
    <3>2. \A ending \in {Refused("platform_mismatch"), Failed("incomplete_session"),
                        Cancelled, DeadlinePassed} :
            Outcome("unstarted", ending, NoReport) \in Outcomes
      BY ReportTypes, ConstructorTypes DEF OutcomeKinds, Codes
    <3>3. PICK ending \in {Refused("platform_mismatch"), Failed("incomplete_session"),
                         Cancelled, DeadlinePassed} :
            Leave(Opener, Outcome("unstarted", ending, NoReport))
      BY <2>23 DEF StartFails
    <3> QED BY <2>23, <3>1, <3>2, <3>3, LeaveType DEF StartFails, TypeOK
  <2>24. ASSUME BodyReturns PROVE TypeOK'
    BY <2>24 DEF BodyReturns, TypeOK, Tasks, Points
  <2>25. ASSUME CancelBody PROVE TypeOK'
    BY <2>25 DEF CancelBody, TypeOK, Tasks, Points
  <2>26. ASSUME SessionCancel PROVE TypeOK'
    <3>1. Opener \in Tasks
      BY DEF Tasks
    <3>2. Raised \in Outcomes
      BY ReportTypes, ConstructorTypes DEF Raised, OutcomeKinds
    <3>3. CASE report = NoReport
      BY <2>26, <3>1, <3>3 DEF SessionCancel, Abort, TypeOK, Points, StopReasons
    <3>4. CASE report # NoReport
      BY <2>26, <3>1, <3>2, <3>4, LeaveType DEF SessionCancel, TypeOK
    <3> QED BY <3>3, <3>4
  <2>27. ASSUME SessionCancelled PROVE TypeOK'
    <3>1. Opener \in Tasks
      BY DEF Tasks
    <3>2. Raised \in Outcomes
      BY ReportTypes, ConstructorTypes DEF Raised, OutcomeKinds
    <3>3. SessionReport(stop, Cancelled) \in Reports
      BY ReportTypes, ConstructorTypes DEF TypeOK
    <3> QED BY <2>27, <3>1, <3>2, <3>3, LeaveType DEF SessionCancelled, TypeOK
  <2>28. ASSUME Environment PROVE TypeOK'
    <3>1. ASSUME WorkerWrites PROVE TypeOK'
      BY <3>1, ConfigAssumption DEF WorkerWrites, TypeOK
    <3>2. ASSUME WorkerExits PROVE TypeOK'
      BY <3>2 DEF WorkerExits, TypeOK
    <3>3. ASSUME RequestStop PROVE TypeOK'
      BY <3>3 DEF RequestStop, TypeOK
    <3>4. ASSUME Expire PROVE TypeOK'
      BY <3>4 DEF Expire, TypeOK
    <3> QED BY <2>28, <3>1, <3>2, <3>3, <3>4 DEF Environment
  <2>29. ASSUME UNCHANGED vars PROVE TypeOK'
    BY <2>29 DEF vars, TypeOK
  <2> QED
    BY <2>1, <2>2, <2>3, <2>4, <2>5, <2>6, <2>7, <2>8, <2>9, <2>10, <2>11,
       <2>12, <2>13, <2>14, <2>15, <2>16, <2>17, <2>18, <2>19, <2>20, <2>21,
       <2>22, <2>23, <2>24, <2>25, <2>26, <2>27, <2>28, <2>29
    DEF Next, Drives, Stops_, Finishes, Cancels, Opens, Scope, Quiet
<1> QED BY <1>1, <1>2, PTL DEF Spec

-----------------------------------------------------------------------------
(* Steps that return to the caller leave a session that can be shut down.  *)

LEMMA OnFinishes == \A conv, event : on(conv, event).step.then = "finished"
BY DEF on, over, Finished, Exchange

LEMMA EnteredResumable ==
  ASSUME NEW next \in Moves, Resumable(next)
  PROVE  Resumable(Entered(next))
<1>1. \A event : Resumable(Fail(next, event))
  <2> SUFFICES ASSUME NEW event PROVE Resumable(Fail(next, event))
    OBVIOUS
  <2>1. CASE next.step.then = "finished"
    BY <2>1 DEF Fail, Resumable, Moves, Steps
  <2>2. CASE next.step.then # "finished"
    BY <2>2, OnFinishes DEF Fail, Resumable
  <2> QED BY <2>1, <2>2
<1> QED BY <1>1 DEF Entered

LEMMA FailResumable ==
  ASSUME NEW next \in Moves, NEW event
  PROVE  Resumable(Fail(next, event))
<1>1. CASE next.step.then = "finished"
  BY <1>1 DEF Fail, Resumable, Moves, Steps
<1>2. CASE next.step.then # "finished"
  BY <1>2, OnFinishes DEF Fail, Resumable
<1> QED BY <1>1, <1>2

LEMMA ExitResumable ==
  \A conv, message, plan, conclusion :
    /\ Resumable(over(conv, message, plan, conclusion))
    /\ Resumable(exit(conv, conclusion))
BY DEF exit, over, Finished, Exchange, Resumable

LEMMA RequestResumable ==
  /\ Resumable(probe) /\ Resumable(activate)
  /\ \A conv : Resumable(call(conv)) /\ Resumable(close(conv))
  /\ \A conv, phase, refusal : Resumable(shutdown(conv, phase, refusal))
BY DEF Resumable, probe, activate, call, close, shutdown, Exchange

LEMMA ReceivedResumable ==
  ASSUME NEW conv \in Conversations, NEW message
  PROVE  Resumable(received(conv, message))
<1>1. Resumable([conv |-> conv, step |-> Exchange(NoMessage)])
  BY DEF Resumable, Exchange
<1>2. \A body : Resumable(initialized(conv, body))
  <2>1. Resumable([conv |-> [conv EXCEPT !.phase = "Ready", !.pending = 0],
                   step |-> Activated])
    BY DEF Resumable, Closable, Conversations
  <2> QED BY <2>1, ExitResumable, RequestResumable DEF initialized
<1>3. Resumable([conv |-> [conv EXCEPT !.phase = "Called", !.pending = 0],
                 step |-> Answered(answer(message))])
  BY DEF Resumable, Closable, Conversations
<1>4. Resumable(replied(conv, message))
  BY <1>2, <1>3, ExitResumable DEF replied
<1> QED BY <1>1, <1>4, ExitResumable DEF received

LEMMA PausedStep ==
  ASSUME NEW step \in Steps, PointOf(step) = "paused"
  PROVE  step.then \in {"activated", "answered"}
BY DEF PointOf, Steps

(* What Drive does to the invariant: the task stays in its exchange.       *)
LEMMA DriveResumable ==
  ASSUME TypeOK, NEW t \in Tasks, NEW next \in Moves, Resumable(next), Drive(t, next)
  PROVE  /\ Resumable(local'[t])
         /\ pc'[t] = "paused" => local'[t].step.then \in {"activated", "answered"}
<1>1. local'[t] = Entered(next) /\ Entered(next) \in Moves
  BY DriveType, EnteredType
<1>2. pc'[t] = PointOf(Entered(next).step)
  BY DEF Drive, TypeOK
<1> QED BY <1>1, <1>2, EnteredResumable, PausedStep DEF Moves

(* A task in an exchange goes on with it, and nothing else changes.        *)
LEMMA ExchangeGoesOn ==
  ASSUME TypeOK, TypeOK', SessionInv, NEW t \in Tasks,
         Exchanging(t), pc[t] # "killing", then[t] # "cancel",
         \/ pc'[t] \in {"writing", "reading", "paused", "ending", "grace", "lock"}
         \/ pc'[t] = "stopped" /\ stop # NoStop,
         \A u \in Tasks \ {t} :
           pc'[u] = pc[u] /\ local'[u] = local[u] /\ then'[u] = then[u],
         Resumable(local'[t]),
         pc'[t] = "paused" => local'[t].step.then \in {"activated", "answered"},
         then'[t] # "cancel",
         UNCHANGED <<opened, conversation, busy, report, stop, finisher, outcome, worker>>
  PROVE  SessionInv'
<1>1. Exchanging(t)' /\ pc'[t] # "killing"
  BY DEF Exchanging
<1>2. \A u \in Tasks : Exchanging(u)' <=> Exchanging(u)
  BY <1>1 DEF Exchanging
<1>3. StopIsOwned'
  BY <1>1 DEF SessionInv, StopIsOwned
<1>4. OpenerFirst'
  BY <1>1 DEF SessionInv, OpenerFirst, Exchanging, Others, Idle, Tasks
<1>5. BusyIsHeld'
  BY <1>1, <1>2 DEF SessionInv, BusyIsHeld, Exchanging, Others, Idle, Tasks
<1>6. ReportIsLast'
  BY <1>2 DEF SessionInv, ReportIsLast
<1>7. PausesClosable'
  BY DEF SessionInv, PausesClosable
<1>8. ReportGivesTheStop' /\ SameReport' /\ NoOrphan'
  BY DEF SessionInv, ReportGivesTheStop, SameReport, NoOrphan
<1> QED BY <1>3, <1>4, <1>5, <1>6, <1>7, <1>8 DEF SessionInv

-----------------------------------------------------------------------------
(* The actions that only drive an exchange. *)

LEMMA DriveKeepsInv ==
  ASSUME TypeOK, TypeOK', SessionInv, NEW t \in Tasks,
         Drives(t) \/ StopWorker(t) \/ GraceEnds(t) \/ CancelDrive(t) \/ CancelGrace(t),
         pc[t] # "paused"
  PROVE  SessionInv'
<1> USE DEF session, channel, clock, history, driver
<1>0. pc[t] \in {"writing", "reading", "ending", "grace"} => then[t] # "cancel"
  BY DEF SessionInv, BusyIsHeld, Tasks, Others
<1>1. CASE Send(t)
  <2>1. /\ [local[t] EXCEPT !.step.send = NoMessage] \in Moves
        /\ Resumable([local[t] EXCEPT !.step.send = NoMessage])
    <3> DEFINE next == [local[t] EXCEPT !.step.send = NoMessage]
    <3>1. local[t] \in Moves /\ Resumable(local[t])
      BY DEF TypeOK, SessionInv, PausesClosable
    <3>2. next.conv = local[t].conv /\ next.step = [local[t].step EXCEPT !.send = NoMessage]
      BY <3>1 DEF Moves
    <3>3. next.step.then = local[t].step.then
      BY <3>1, <3>2 DEF Moves, Steps
    <3> QED BY <3>1, <3>2, <3>3, SentType DEF Resumable
  <2>2. PICK next \in Moves : Resumable(next) /\ Drive(t, next)
    BY <1>1, <2>1 DEF Send
  <2> QED BY <1>0, <1>1, <2>2, DriveType, DriveResumable, ExchangeGoesOn DEF Send, Exchanging
<1>2. CASE SendFails(t) \/ ReceiveFails(t) \/ Interrupt(t) \/ FrameFaulted(t)
  <2>1. \A event : Fail(local[t], event) \in Moves /\ Resumable(Fail(local[t], event))
    BY FailType, AfterType, FailResumable DEF TypeOK
  <2>2. PICK next \in Moves : Resumable(next) /\ Drive(t, next)
    BY <1>2, <2>1 DEF SendFails, ReceiveFails, Interrupt, FrameFaulted
  <2>3. then[t] # "cancel"
    BY <1>0, <1>2 DEF SendFails, ReceiveFails, Interrupt, FrameFaulted, ChannelErrors
  <2> QED BY <1>2, <2>2, <2>3, DriveType, DriveResumable, ExchangeGoesOn
          DEF SendFails, ReceiveFails, Interrupt, FrameFaulted, Exchanging
<1>3. CASE Receive(t)
  <2>1. Head(output) \in Messages
    BY <1>3 DEF Receive, TypeOK
  <2>2. /\ received(local[t].conv, Head(output)) \in Moves
        /\ Resumable(received(local[t].conv, Head(output)))
    BY <2>1, MessagesReadable, ReceivedType, ReceivedResumable DEF TypeOK, Moves
  <2>3. PICK next \in Moves : Resumable(next) /\ Drive(t, next)
    BY <1>3, <2>2 DEF Receive
  <2> QED BY <1>0, <1>3, <2>3, DriveType, DriveResumable, ExchangeGoesOn DEF Receive, Exchanging
<1>4. CASE FrameFault(t)
  <2>1. then'[t] # "cancel" /\ \A u \in Tasks \ {t} : then'[u] = then[u]
    BY <1>4 DEF FrameFault, TypeOK
  <2> QED BY <1>0, <1>4, <2>1, ExchangeGoesOn DEF FrameFault, Exchanging, TypeOK, SessionInv,
             PausesClosable
<1>5. CASE StopWorker(t) \/ CancelDrive(t)
  <2>1. /\ then'[t] # "cancel"
        /\ \A u \in Tasks \ {t} : then'[u] = then[u] /\ pc'[u] = pc[u]
        /\ pc'[t] \in {"grace", "lock"} \/ (pc'[t] = "stopped" /\ stop # NoStop)
    BY <1>5 DEF StopWorker, CancelDrive, Abort, TypeOK
  <2> QED BY <1>0, <1>5, <2>1, ExchangeGoesOn
          DEF StopWorker, CancelDrive, Abort, Exchanging, TypeOK, SessionInv, PausesClosable
<1>6. CASE GraceEnds(t) \/ CancelGrace(t)
  BY <1>0, <1>6, ExchangeGoesOn
  DEF GraceEnds, CancelGrace, Exchanging, TypeOK, SessionInv, PausesClosable
<1> QED BY <1>1, <1>2, <1>3, <1>4, <1>5, <1>6 DEF Drives, Pause

(* The lock of the channel. *)
LEMMA LockKeepsInv ==
  ASSUME TypeOK, TypeOK', SessionInv, NEW t \in Tasks, TakeLock(t) \/ Kill(t)
  PROVE  SessionInv'
<1> USE DEF session, channel, clock, history, driver
<1>1. /\ Exchanging(t) /\ pc'[t] \in {"killing", "stopped"}
      /\ \A u \in Tasks \ {t} : pc'[u] = pc[u]
  BY DEF TakeLock, Kill, TypeOK, Exchanging
<1>2. \A u \in Tasks : Exchanging(u)' <=> Exchanging(u)
  BY <1>1 DEF Exchanging
<1>3. UNCHANGED <<local, then, opened, conversation, busy, report, outcome>>
  BY DEF TakeLock, Kill
<1>4. StopIsOwned'
  <2>1. CASE TakeLock(t)
    BY <2>1, TasksAssumption DEF TakeLock, SessionInv, StopIsOwned, TypeOK
  <2>2. CASE Kill(t)
    <3>1. finisher = t /\ stop = NoStop
      BY <2>2, TasksAssumption DEF Kill, SessionInv, StopIsOwned
    <3>2. stop' # NoStop
      BY <2>2, StatusType DEF Kill, TypeOK
    <3> QED BY <2>2, <3>1, <3>2, TasksAssumption DEF Kill, SessionInv, StopIsOwned, TypeOK
  <2> QED BY <2>1, <2>2
<1>5. stop # NoStop => stop' = stop
  BY TasksAssumption DEF TakeLock, Kill, SessionInv, StopIsOwned
<1>6. OpenerFirst'
  <2>1. t \in Others => opened
    BY <1>1 DEF SessionInv, OpenerFirst, Exchanging
  <2>2. t = Opener => pc[Opener] # "idle" /\ outcome[Opener].kind # "unstarted"
    BY <1>1 DEF SessionInv, OpenerFirst, Exchanging, Idle
  <2> QED BY <1>1, <1>3, <2>1, <2>2
          DEF SessionInv, OpenerFirst, Exchanging, Others, Idle, Tasks
<1>7. BusyIsHeld'
  <2>1. then[Opener] = "cancel" =>
          pc'[Opener] \in {"lock", "killing", "stopped", "done"}
    BY <1>1 DEF SessionInv, BusyIsHeld, Tasks
  <2> QED BY <1>1, <1>2, <1>3, <2>1
          DEF SessionInv, BusyIsHeld, Exchanging, Others, Idle, Tasks
<1>8. ReportIsLast'
  BY <1>2, <1>3 DEF SessionInv, ReportIsLast
<1>9. PausesClosable'
  BY <1>1, <1>3 DEF SessionInv, PausesClosable
<1>10. ReportGivesTheStop' /\ SameReport' /\ NoOrphan'
  <2>1. outcome[Opener].kind = "unstarted" => worker' = worker
    BY <1>1, <1>6 DEF SessionInv, OpenerFirst, Exchanging, Idle, Others, Tasks
  <2>2. Opener \in Tasks /\ Callers \subseteq Tasks
    BY DEF Tasks
  <2> QED BY <1>3, <1>5, <2>1, <2>2 DEF SessionInv, ReportGivesTheStop, SameReport, NoOrphan
<1> QED BY <1>4, <1>6, <1>7, <1>8, <1>9, <1>10 DEF SessionInv

-----------------------------------------------------------------------------
(* A task leaves the session, or enters it. *)

(* The task ends with the report that the session then has. *)
LEMMA SettleKeepsInv ==
  ASSUME TypeOK, TypeOK', SessionInv, NEW t \in Tasks, Settle(t)
  PROVE  SessionInv'
<1> USE DEF session, channel, clock, history, driver
<1>0. /\ Exchanging(t) /\ stop # NoStop /\ then[t] # "cancel" /\ finisher = NoTask
      /\ UNCHANGED <<local, then, opened, stop, finisher, worker>>
  BY DEF Settle, Exchanging, SessionInv, StopIsOwned
<1>1. /\ pc'[t] = "done"
      /\ \A u \in Tasks \ {t} : pc'[u] = pc[u] /\ outcome'[u] = outcome[u]
  BY DEF Settle, OpenerSettles, Leave, TypeOK
<1>2. \A u \in Tasks \ {t} : Exchanging(u)' <=> Exchanging(u)
  BY <1>1 DEF Exchanging
<1>3. ~Exchanging(t)'
  BY <1>1 DEF Exchanging
<1>4. StopIsOwned'
  BY <1>0, <1>1 DEF SessionInv, StopIsOwned, Settle
<1>5. CASE t = Opener /\ ~opened
  <2>1. UNCHANGED <<conversation, report, busy>>
    BY <1>5 DEF Settle
  <2>2. outcome'[t].kind \in {"described", "ended"}
    BY <1>5 DEF Settle, OpenerSettles, Leave, TypeOK, Outcome
  <2>3. OpenerFirst'
    BY <1>0, <1>1, <1>5, <2>1, <2>2 DEF SessionInv, OpenerFirst, Others, Idle, Tasks
  <2>4. BusyIsHeld'
    BY <1>0, <1>1, <1>2, <1>5, <2>1, TasksAssumption
    DEF SessionInv, BusyIsHeld, OpenerFirst, Others, Idle, Tasks
  <2>5. ReportIsLast' /\ SameReport'
    BY <1>0, <1>1, <1>2, <1>3, <2>1, <2>2 DEF SessionInv, ReportIsLast, SameReport
  <2>6. PausesClosable'
    BY <1>0, <1>1, <2>1 DEF SessionInv, PausesClosable
  <2>7. ReportGivesTheStop' /\ NoOrphan'
    BY <1>0, <1>1, <1>5, <2>1, <2>2
    DEF SessionInv, ReportGivesTheStop, NoOrphan, Tasks
  <2> QED BY <1>4, <2>3, <2>4, <2>5, <2>6, <2>7 DEF SessionInv
<1>6. CASE ~(t = Opener /\ ~opened)
  <2>1. opened
    BY <1>0, <1>6 DEF SessionInv, OpenerFirst, Others, Exchanging
  <2>2. busy = t /\ busy' = NoTask /\ report = NoReport
    BY <1>0, <1>6, <2>1 DEF Settle, Release, SessionInv, BusyIsHeld, ReportIsLast
  <2>3. /\ outcome'[t].report = report'
        /\ outcome'[t].kind \in {"answered", "reported"}
    BY <1>6 DEF Settle, Leave, TypeOK, Outcome
  <2>4. report'.stop = stop /\ report' # NoReport
    BY <1>0, <1>6 DEF Settle, SessionReport, NoReport
  <2>5. \A u \in Tasks \ {t} : outcome[u].kind # "reported" /\ ~Exchanging(u)'
    <3> SUFFICES ASSUME NEW u \in Tasks \ {t}
                 PROVE  outcome[u].kind # "reported" /\ ~Exchanging(u)
      BY <1>2
    <3>1. outcome[u].kind # "reported"
      BY <2>2 DEF SessionInv, ReportIsLast
    <3>2. Exchanging(u) => then[u] = "cancel"
      BY <2>1, <2>2 DEF SessionInv, BusyIsHeld
    <3>3. then[u] = "cancel" => u = Opener
      BY DEF SessionInv, BusyIsHeld, Others
    <3>4. Exchanging(u) => pc[Opener] \notin {"body", "unwinding"} /\ Scoped /\ t \in Others
      BY <3>2, <3>3 DEF SessionInv, BusyIsHeld, Others
    <3>5. Exchanging(u) => Idle(t)
      BY <3>4, <2>1 DEF SessionInv, BusyIsHeld
    <3> QED BY <3>1, <3>5, <1>0 DEF Exchanging, Idle
  <2>6. OpenerFirst'
    BY <1>0, <1>1, <2>1, <2>3 DEF SessionInv, OpenerFirst, Others, Idle, Tasks, Outcome, Exchanging
  <2>7. BusyIsHeld'
    <3>1. \A u \in Tasks : ~Exchanging(u)'
      BY <1>3, <2>5
    <3>2. \A u \in Tasks : busy' # u
      BY <2>2, TasksAssumption
    <3>3. pc[t] \notin {"body", "unwinding"}
      BY <1>0 DEF Exchanging
    <3>4. then[Opener] # "cancel"
      BY <2>2, TasksAssumption DEF SessionInv, BusyIsHeld
    <3> QED BY <1>0, <1>1, <3>1, <3>2, <3>3, <3>4
            DEF SessionInv, BusyIsHeld, Others, Idle, Tasks
  <2>8. ReportIsLast'
    BY <1>1, <1>3, <2>4, <2>5 DEF SessionInv, ReportIsLast
  <2>9. SameReport'
    BY <1>1, <2>3, <2>5 DEF SessionInv, SameReport, Outcome
  <2>10. PausesClosable'
    BY <1>0, <1>1, <2>4 DEF SessionInv, PausesClosable
  <2>11. ReportGivesTheStop' /\ NoOrphan'
    <3>1. outcome'[Opener].kind = "unstarted" => worker = "none"
      BY <1>1, <2>3 DEF SessionInv, NoOrphan, Outcome, Tasks
    <3> QED BY <1>0, <2>4, <3>1 DEF SessionInv, ReportGivesTheStop, NoOrphan, Tasks
  <2> QED BY <1>4, <2>6, <2>7, <2>8, <2>9, <2>10, <2>11 DEF SessionInv
<1> QED BY <1>5, <1>6

(* A task leaves without a new report. *)
LEMMA LeaveKeepsInv ==
  ASSUME TypeOK, TypeOK', SessionInv, NEW t \in Tasks,
         opened, pc[t] # "killing", pc'[t] = "done",
         \A u \in Tasks \ {t} : pc'[u] = pc[u] /\ outcome'[u] = outcome[u],
         busy' = IF busy = t THEN NoTask ELSE busy,
         conversation' = conversation \/ Closable(conversation'),
         outcome'[t].kind \in {"answered", "unavailable", "reported", "raised"},
         outcome'[t].kind = "raised" => stop # NoStop \/ t \in Closers,
         outcome'[t].kind = "reported" => report # NoReport /\ outcome'[t].report = report,
         t = Opener => pc[t] \notin {"body", "idle"} /\ (Scoped => \A u \in Others : Idle(u)),
         UNCHANGED <<local, then, opened, report, stop, finisher, worker>>
  PROVE  SessionInv'
<1>1. ~Exchanging(t)' /\ \A u \in Tasks \ {t} : Exchanging(u)' <=> Exchanging(u)
  BY DEF Exchanging
<1>2. StopIsOwned'
  BY DEF SessionInv, StopIsOwned
<1>3. OpenerFirst'
  BY DEF SessionInv, OpenerFirst, Others, Idle, Tasks
<1>4. BusyIsHeld'
  <2>1. \A u \in Tasks : busy' = u => Exchanging(u)'
    BY <1>1, TasksAssumption DEF SessionInv, BusyIsHeld
  <2>2. \A u \in Tasks : opened' /\ Exchanging(u)' => busy' = u \/ then'[u] = "cancel"
    BY <1>1 DEF SessionInv, BusyIsHeld
  <2>3. /\ \A u \in Others : then'[u] # "cancel" /\ (u \in Callers => pc'[u] # "waiting")
        /\ then'[Opener] = "cancel" =>
             /\ opened' /\ Scoped /\ busy' = NoTask
             /\ pc'[Opener] \in {"lock", "killing", "stopped", "done"}
    BY DEF SessionInv, BusyIsHeld, Others, Tasks
  <2>4. opened' /\ Scoped /\ pc'[Opener] \notin {"body", "unwinding"} =>
          \A u \in Others : Idle(u)'
    BY DEF SessionInv, BusyIsHeld, Others, Idle, Tasks
  <2> QED BY <2>1, <2>2, <2>3, <2>4 DEF BusyIsHeld
<1>5. ReportIsLast'
  BY <1>1 DEF SessionInv, ReportIsLast
<1>6. PausesClosable'
  BY DEF SessionInv, PausesClosable
<1>7. ReportGivesTheStop' /\ SameReport' /\ NoOrphan'
  BY TasksAssumption DEF SessionInv, ReportGivesTheStop, SameReport, NoOrphan, Tasks
<1> QED BY <1>2, <1>3, <1>4, <1>5, <1>6, <1>7 DEF SessionInv

(* A task takes `busy` and starts an exchange. *)
LEMMA EnterKeepsInv ==
  ASSUME TypeOK, TypeOK', SessionInv, NEW t \in Tasks,
         opened, report = NoReport, busy = NoTask, busy' = t,
         pc[t] \in {"idle", "waiting"}, t = Opener => pc[t] = "waiting",
         pc[t] = "idle" /\ Scoped => pc[Opener] = "body",
         \/ pc'[t] \in {"writing", "reading", "paused", "ending", "lock"}
         \/ pc'[t] = "stopped" /\ stop # NoStop,
         then'[t] # "cancel",
         \A u \in Tasks \ {t} :
           pc'[u] = pc[u] /\ local'[u] = local[u] /\ then'[u] = then[u],
         Resumable(local'[t]),
         pc'[t] = "paused" => local'[t].step.then \in {"activated", "answered"},
         UNCHANGED <<opened, conversation, report, stop, finisher, outcome, worker>>
  PROVE  SessionInv'
<1>1. Exchanging(t)' /\ pc'[t] # "killing" /\ ~Exchanging(t)
  BY DEF Exchanging
<1>2. t # Opener /\ Scoped => pc[Opener] \in {"body", "unwinding"}
  BY DEF SessionInv, BusyIsHeld, Idle, Others
<1>3. \A u \in Tasks \ {t} : ~Exchanging(u) /\ ~Exchanging(u)'
  <2> SUFFICES ASSUME NEW u \in Tasks \ {t}, Exchanging(u) PROVE FALSE
    BY DEF Exchanging
  <2>1. then[u] = "cancel"
    BY TasksAssumption DEF SessionInv, BusyIsHeld
  <2>2. u = Opener /\ Scoped /\ pc[Opener] \notin {"body", "unwinding"}
    BY <2>1 DEF SessionInv, BusyIsHeld, Others
  <2> QED BY <1>2, <2>2
<1>4. StopIsOwned'
  BY <1>1 DEF SessionInv, StopIsOwned
<1>5. OpenerFirst'
  BY <1>1 DEF SessionInv, OpenerFirst, Others, Idle, Tasks, Exchanging
<1>6. BusyIsHeld'
  <2>1. \A u \in Tasks : opened' /\ Exchanging(u)' => busy' = u
    BY <1>1, <1>3
  <2>2. /\ \A u \in Others : then'[u] # "cancel" /\ (u \in Callers => pc'[u] # "waiting")
        /\ then'[Opener] = "cancel" =>
             /\ opened' /\ Scoped /\ busy' = NoTask
             /\ pc'[Opener] \in {"lock", "killing", "stopped", "done"}
    <3>1. then'[Opener] # "cancel"
      BY <1>2 DEF SessionInv, BusyIsHeld, Tasks
    <3> QED BY <3>1 DEF SessionInv, BusyIsHeld, Others, Tasks
  <2>3. opened' /\ Scoped /\ pc'[Opener] \notin {"body", "unwinding"} =>
          \A u \in Others : Idle(u)'
    BY <1>2 DEF SessionInv, BusyIsHeld, Others, Idle, Tasks
  <2>4. \A u \in Tasks : busy' = u => Exchanging(u)'
    BY <1>1
  <2> QED BY <2>1, <2>2, <2>3, <2>4 DEF BusyIsHeld
<1>7. ReportIsLast'
  BY DEF SessionInv, ReportIsLast
<1>8. PausesClosable'
  BY DEF SessionInv, PausesClosable
<1>9. ReportGivesTheStop' /\ SameReport' /\ NoOrphan'
  BY DEF SessionInv, ReportGivesTheStop, SameReport, NoOrphan
<1> QED BY <1>4, <1>5, <1>6, <1>7, <1>8, <1>9 DEF SessionInv

LEMMA RaiseKeepsInv ==
  ASSUME TypeOK, TypeOK', SessionInv, NEW t \in Tasks, Raise(t)
  PROVE  SessionInv'
<1> USE DEF session, channel, clock, history, driver
<1>1. /\ pc[t] = "stopped" /\ stop # NoStop /\ pc'[t] = "done"
      /\ \A u \in Tasks \ {t} : pc'[u] = pc[u] /\ outcome'[u] = outcome[u]
      /\ outcome'[t].kind = "raised" /\ Exchanging(t)
      /\ busy' = IF busy = t THEN NoTask ELSE busy
      /\ UNCHANGED <<local, then, opened, conversation, report, stop, finisher, worker>>
  BY DEF Raise, Leave, Release, Raised, Outcome, TypeOK, SessionInv, StopIsOwned, Exchanging
<1>2. CASE opened
  <2>1. t = Opener /\ Scoped => \A u \in Others : Idle(u)
    BY <1>1, <1>2 DEF SessionInv, BusyIsHeld
  <2> QED BY <1>1, <1>2, <2>1, LeaveKeepsInv
<1>3. CASE ~opened
  <2>1. t = Opener /\ busy = NoTask /\ busy' = NoTask
    BY <1>1, <1>3 DEF SessionInv, OpenerFirst, Others
  <2>2. OpenerFirst'
    BY <1>1, <1>3, <2>1 DEF SessionInv, OpenerFirst, Others, Idle, Tasks
  <2>3. BusyIsHeld'
    BY <1>1, <1>3, <2>1, TasksAssumption DEF SessionInv, BusyIsHeld, OpenerFirst, Others, Idle, Tasks
  <2>4. StopIsOwned' /\ ReportIsLast' /\ PausesClosable'
    BY <1>1, <1>3 DEF SessionInv, StopIsOwned, ReportIsLast, PausesClosable
  <2>5. ReportGivesTheStop' /\ SameReport' /\ NoOrphan'
    BY <1>1, <2>1, TasksAssumption
    DEF SessionInv, ReportGivesTheStop, SameReport, NoOrphan, Tasks
  <2> QED BY <2>2, <2>3, <2>4, <2>5 DEF SessionInv
<1> QED BY <1>2, <1>3

LEMMA PauseKeepsInv ==
  ASSUME TypeOK, TypeOK', SessionInv, NEW t \in Tasks, Pause(t)
  PROVE  SessionInv'
<1> USE DEF session, channel, clock, history, driver
<1>1. Closable(conversation') /\ Exchanging(t)
  BY DEF Pause, SessionInv, PausesClosable, Resumable, Exchanging
<1>2. CASE t # Opener
  <2>1. opened
    BY <1>1, <1>2 DEF SessionInv, OpenerFirst, Exchanging, Others
  <2>2. /\ pc[t] = "paused" /\ pc'[t] = "done" /\ outcome'[t].kind = "answered"
        /\ \A u \in Tasks \ {t} : pc'[u] = pc[u] /\ outcome'[u] = outcome[u]
    BY <1>2 DEF Pause, Leave, Outcome, TypeOK
  <2> QED BY <1>1, <1>2, <2>1, <2>2, LeaveKeepsInv DEF Pause, Release
<1>3. CASE t = Opener
  <2>1. /\ pc[t] = "paused" /\ opened'
        /\ pc'[t] = IF Scoped THEN "body" ELSE "done"
        /\ \A u \in Tasks \ {t} : pc'[u] = pc[u] /\ outcome'[u] = outcome[u]
        /\ outcome'[t] = outcome[t] \/ outcome'[t].kind = "opened"
        /\ busy' = IF busy = t THEN NoTask ELSE busy
        /\ UNCHANGED <<local, then, report, stop, finisher, worker>>
    BY <1>3 DEF Pause, Leave, Outcome, Release, TypeOK
  <2>2. then[Opener] # "cancel"
    BY <1>3, <2>1 DEF SessionInv, BusyIsHeld
  <2>3. \A u \in Tasks \ {t} : ~Exchanging(u) /\ ~Exchanging(u)' /\ Idle(u)
    <3> SUFFICES ASSUME NEW u \in Tasks \ {t} PROVE Idle(u)
      BY <2>1 DEF Exchanging, Idle
    <3>1. CASE ~opened
      BY <1>3, <3>1 DEF SessionInv, OpenerFirst, Others, Idle
    <3>2. CASE opened
      <4>1. report = NoReport /\ busy = Opener
        BY <1>1, <1>3, <2>2, <3>2 DEF SessionInv, ReportIsLast, BusyIsHeld
      <4>2. Scoped
        BY <2>1, <1>3, <3>2 DEF SessionInv, OpenerFirst
      <4> QED BY <1>3, <2>1, <3>2, <4>2 DEF SessionInv, BusyIsHeld, Others
    <3> QED BY <3>1, <3>2
  <2>4. busy' = NoTask /\ report = NoReport
    BY <1>1, <1>3, <2>2, <2>1 DEF SessionInv, ReportIsLast, BusyIsHeld, OpenerFirst
  <2>5. ~Exchanging(t)'
    BY <2>1 DEF Exchanging
  <2>6. StopIsOwned'
    BY <2>1 DEF SessionInv, StopIsOwned
  <2>7. OpenerFirst'
    BY <1>3, <2>1 DEF SessionInv, OpenerFirst, Idle
  <2>8. BusyIsHeld'
    BY <1>3, <2>1, <2>2, <2>3, <2>4, <2>5, TasksAssumption
    DEF SessionInv, BusyIsHeld, Others, Idle, Tasks
  <2>9. ReportIsLast' /\ SameReport'
    BY <2>1, <2>3, <2>5 DEF SessionInv, ReportIsLast, SameReport
  <2>10. PausesClosable'
    BY <1>1, <2>1 DEF SessionInv, PausesClosable
  <2>11. ReportGivesTheStop' /\ NoOrphan'
    BY <1>3, <2>1, TasksAssumption DEF SessionInv, ReportGivesTheStop, NoOrphan, Tasks
  <2> QED BY <2>6, <2>7, <2>8, <2>9, <2>10, <2>11 DEF SessionInv
<1> QED BY <1>2, <1>3

LEMMA CloseKeepsInv ==
  ASSUME TypeOK, TypeOK', SessionInv, NEW t \in Tasks, Close(t)
  PROVE  SessionInv'
<1> USE DEF session, channel, clock, history, driver
<1>1. opened
  BY DEF Close, SessionInv, OpenerFirst, Others, Tasks
<1>2. CASE report # NoReport
  <2>1. /\ pc'[t] = "done"
        /\ \A u \in Tasks \ {t} : pc'[u] = pc[u] /\ outcome'[u] = outcome[u]
        /\ outcome'[t].kind = "reported" /\ outcome'[t].report = report
    BY <1>2 DEF Close, Leave, Outcome, TypeOK
  <2>2. t = Opener /\ Scoped => \A u \in Others : Idle(u)
    BY <1>1 DEF Close, SessionInv, BusyIsHeld
  <2>3. pc[t] = "waiting" /\ busy = NoTask /\ UNCHANGED <<local, then, busy, conversation>>
    BY <1>2 DEF Close
  <2>4. UNCHANGED <<opened, report, stop, finisher, worker>>
    BY DEF Close
  <2> QED BY <1>1, <1>2, <2>1, <2>2, <2>3, <2>4, LeaveKeepsInv
<1>3. CASE report = NoReport /\ Closable(conversation)
  <2>1. close(conversation) \in Moves /\ Resumable(close(conversation))
    BY CallTypes, RequestResumable DEF TypeOK
  <2>2. Drive(t, close(conversation)) /\ UNCHANGED <<then, outcome>>
    BY <1>3 DEF Close
  <2>3. then[t] # "cancel"
    BY DEF Close, SessionInv, BusyIsHeld, Others
  <2> QED BY <1>1, <1>3, <2>1, <2>2, <2>3, DriveType, DriveResumable, EnterKeepsInv DEF Close
<1>4. CASE report = NoReport /\ ~Closable(conversation)
  BY <1>1, <1>4 DEF SessionInv, PausesClosable
<1> QED BY <1>2, <1>3, <1>4

LEMMA CallKeepsInv ==
  ASSUME TypeOK, TypeOK', SessionInv, NEW t \in Callers, Call(t)
  PROVE  SessionInv'
<1> USE DEF session, channel, clock, history, driver
<1>1. t \in Tasks /\ t # Opener /\ opened /\ pc[t] = "idle"
  BY TasksAssumption DEF Call, InBody, Tasks
<1>2. CASE /\ busy' = t /\ Drive(t, call(conversation)) /\ UNCHANGED <<outcome, doomed>>
           /\ report = NoReport /\ busy = NoTask
  <2>1. call(conversation) \in Moves /\ Resumable(call(conversation))
    BY CallTypes, RequestResumable DEF TypeOK
  <2>2. then[t] # "cancel" /\ (Scoped => pc[Opener] = "body")
    BY <1>1 DEF Call, InBody, SessionInv, BusyIsHeld, Others
  <2> QED BY <1>1, <1>2, <2>1, <2>2, DriveType, DriveResumable, EnterKeepsInv DEF Call
<1>3. CASE /\ UNCHANGED <<local, busy>>
           /\ \/ Leave(t, Unavailable)
              \/ Leave(t, Outcome("answered", refuse(conversation).step.answer, NoReport))
  <2>1. /\ pc'[t] = "done"
        /\ \A u \in Tasks \ {t} : pc'[u] = pc[u] /\ outcome'[u] = outcome[u]
        /\ outcome'[t].kind \in {"answered", "unavailable"}
    BY <1>1, <1>3 DEF Leave, Outcome, Unavailable, TypeOK
  <2>2. busy # t
    BY <1>1 DEF SessionInv, BusyIsHeld, Exchanging
  <2> QED BY <1>1, <1>3, <2>1, <2>2, LeaveKeepsInv DEF Call
<1> QED BY <1>2, <1>3 DEF Call

(* Actions that change no exchange. *)
LEMMA WaitKeepsInv ==
  ASSUME TypeOK, TypeOK', SessionInv,
         \/ \E t \in Closers : StartClose(t)
         \/ \E t \in Tasks : CancelWait(t) \/ CancelFinish(t)
         \/ BodyReturns \/ CancelBody \/ Environment \/ UNCHANGED vars
  PROVE  SessionInv'
<1> USE DEF session, channel, clock, history, driver
<1>1. ASSUME NEW t \in Closers, StartClose(t) PROVE SessionInv'
  <2>1. /\ t \in Others /\ t \notin Callers /\ opened /\ pc[t] = "idle"
        /\ pc' = [pc EXCEPT ![t] = "waiting"]
        /\ Scoped => pc[Opener] = "body"
        /\ UNCHANGED <<local, then, outcome, opened, conversation, busy, report, stop,
                       finisher, worker>>
    BY <1>1, TasksAssumption DEF StartClose, InBody, Tasks, Others
  <2>2. \A u \in Tasks : Exchanging(u)' <=> Exchanging(u)
    BY <2>1 DEF Exchanging, TypeOK
  <2>3. BusyIsHeld'
    BY <2>1, <2>2 DEF SessionInv, BusyIsHeld, Others, Idle, Tasks, TypeOK
  <2>4. OpenerFirst' /\ StopIsOwned'
    BY <2>1 DEF SessionInv, OpenerFirst, StopIsOwned, Others, Idle, Tasks, TypeOK
  <2>5. ReportIsLast' /\ PausesClosable'
    BY <2>1, <2>2 DEF SessionInv, ReportIsLast, PausesClosable, TypeOK
  <2>6. ReportGivesTheStop' /\ SameReport' /\ NoOrphan'
    BY <2>1 DEF SessionInv, ReportGivesTheStop, SameReport, NoOrphan
  <2> QED BY <2>3, <2>4, <2>5, <2>6 DEF SessionInv
<1>2. ASSUME NEW t \in Tasks, CancelWait(t) PROVE SessionInv'
  <2>1. /\ pc[t] = "waiting" /\ busy # NoTask /\ pc'[t] = "done"
        /\ \A u \in Tasks \ {t} : pc'[u] = pc[u] /\ outcome'[u] = outcome[u]
        /\ outcome'[t].kind = "raised"
        /\ UNCHANGED <<local, then, opened, conversation, busy, report, stop, finisher,
                       worker>>
    BY <1>2 DEF CancelWait, Leave, Raised, Outcome, TypeOK
  <2>2. busy # t
    BY <2>1 DEF SessionInv, BusyIsHeld, Exchanging
  <2>3. opened
    BY <2>1 DEF SessionInv, OpenerFirst, Others
  <2>4. t # Opener
    <3> SUFFICES ASSUME t = Opener PROVE FALSE
      OBVIOUS
    <3>1. \A u \in Others : Idle(u)
      BY <2>1, <2>3 DEF SessionInv, BusyIsHeld, OpenerFirst
    <3>2. busy \in Others /\ Exchanging(busy)
      BY <2>1, <2>2 DEF SessionInv, BusyIsHeld, TypeOK, Others
    <3> QED BY <3>1, <3>2 DEF Exchanging, Idle
  <2>5. t \in Closers
    BY <2>1, <2>4 DEF SessionInv, BusyIsHeld, Tasks, Others
  <2> QED BY <2>1, <2>2, <2>3, <2>4, <2>5, LeaveKeepsInv
<1>3. ASSUME BodyReturns \/ CancelBody PROVE SessionInv'
  <2>1. /\ pc[Opener] = "body" /\ Opener \in Tasks
        /\ pc'[Opener] \in {"waiting", "unwinding"}
        /\ pc'[Opener] = "waiting" => \A u \in Others : Idle(u)
        /\ \A u \in Tasks \ {Opener} : pc'[u] = pc[u]
        /\ UNCHANGED <<local, then, outcome, opened, conversation, busy, report, stop,
                       finisher, worker>>
    BY <1>3 DEF BodyReturns, CancelBody, TypeOK, Tasks
  <2>2. \A u \in Tasks : Exchanging(u)' <=> Exchanging(u)
    BY <2>1 DEF Exchanging
  <2>3. BusyIsHeld'
    <3>1. Opener \notin Callers /\ then[Opener] # "cancel"
      BY <2>1, TasksAssumption DEF SessionInv, BusyIsHeld
    <3> QED BY <2>1, <2>2, <3>1 DEF SessionInv, BusyIsHeld, Others, Idle, Tasks
  <2>4. OpenerFirst' /\ StopIsOwned'
    BY <2>1 DEF SessionInv, OpenerFirst, StopIsOwned, Others, Idle
  <2>5. ReportIsLast' /\ PausesClosable'
    BY <2>1, <2>2 DEF SessionInv, ReportIsLast, PausesClosable
  <2>6. ReportGivesTheStop' /\ SameReport' /\ NoOrphan'
    BY <2>1 DEF SessionInv, ReportGivesTheStop, SameReport, NoOrphan
  <2> QED BY <2>3, <2>4, <2>5, <2>6 DEF SessionInv
<1>4. ASSUME (\E t \in Tasks : CancelFinish(t)) \/ Environment \/ UNCHANGED vars
      PROVE  SessionInv'
  <2>1. UNCHANGED <<pc, local, then, outcome, opened, conversation, busy, report, stop,
                    finisher>>
    BY <1>4
    DEF CancelFinish, Environment, WorkerWrites, WorkerExits, RequestStop, Expire, vars
  <2>2. worker' = worker \/ (worker # "none" /\ worker' # "none")
    BY <1>4
    DEF CancelFinish, Environment, WorkerWrites, WorkerExits, RequestStop, Expire, vars
  <2>3. \A u \in Tasks : Exchanging(u)' <=> Exchanging(u)
    BY <2>1 DEF Exchanging
  <2>4. BusyIsHeld' /\ OpenerFirst' /\ StopIsOwned'
    BY <2>1, <2>2, <2>3
    DEF SessionInv, BusyIsHeld, OpenerFirst, StopIsOwned, Others, Idle, Tasks
  <2>5. ReportIsLast' /\ PausesClosable'
    BY <2>1, <2>3 DEF SessionInv, ReportIsLast, PausesClosable
  <2>6. ReportGivesTheStop' /\ SameReport' /\ NoOrphan'
    BY <2>1, <2>2 DEF SessionInv, ReportGivesTheStop, SameReport, NoOrphan
  <2> QED BY <2>4, <2>5, <2>6 DEF SessionInv
<1> QED BY <1>1, <1>2, <1>3, <1>4

(* The opener before the session exists. *)
LEMMA OpensKeepsInv ==
  ASSUME TypeOK, TypeOK', SessionInv, Opens
  PROVE  SessionInv'
<1> USE DEF session, channel, clock, history, driver
<1>1. /\ Opener \in Tasks /\ ~opened /\ busy = NoTask /\ report = NoReport
      /\ pc[Opener] = "idle" /\ worker = "none" /\ then[Opener] # "cancel"
      /\ \A u \in Others : pc[u] = "idle"
      /\ UNCHANGED <<then, opened, conversation, busy, report, stop, finisher>>
  BY DEF Opens, Start, StartFails, SessionInv, OpenerFirst, BusyIsHeld, Tasks
<1>2. CASE StartFails
  <2>1. /\ pc'[Opener] = "done" /\ outcome'[Opener].kind = "unstarted"
        /\ \A u \in Tasks \ {Opener} : pc'[u] = pc[u] /\ outcome'[u] = outcome[u]
        /\ UNCHANGED <<local, worker>>
    BY <1>1, <1>2 DEF StartFails, Leave, Outcome, TypeOK
  <2>2. \A u \in Tasks : ~Exchanging(u)'
    BY <1>1, <2>1 DEF Exchanging, Others
  <2>3. BusyIsHeld' /\ OpenerFirst' /\ StopIsOwned'
    BY <1>1, <2>1, <2>2, TasksAssumption
    DEF SessionInv, BusyIsHeld, OpenerFirst, StopIsOwned, Others, Idle
  <2>4. ReportIsLast' /\ PausesClosable'
    BY <1>1, <2>1, <2>2 DEF SessionInv, ReportIsLast, PausesClosable
  <2>5. ReportGivesTheStop' /\ SameReport' /\ NoOrphan'
    BY <1>1, <2>1, TasksAssumption
    DEF SessionInv, ReportGivesTheStop, SameReport, NoOrphan, Tasks
  <2> QED BY <2>3, <2>4, <2>5 DEF SessionInv
<1>3. CASE Start
  <2>1. PICK next \in Moves : Resumable(next) /\ Drive(Opener, next)
    BY <1>3, StartTypes, RequestResumable DEF Start
  <2>2. /\ pc'[Opener] \in {"writing", "reading", "ending", "paused"}
        /\ \A u \in Tasks \ {Opener} : pc'[u] = pc[u] /\ local'[u] = local[u]
        /\ Resumable(local'[Opener])
        /\ pc'[Opener] = "paused" => local'[Opener].step.then \in {"activated", "answered"}
        /\ UNCHANGED outcome
    BY <1>1, <1>3, <2>1, DriveType, DriveResumable DEF Start
  <2>3. \A u \in Tasks \ {Opener} : ~Exchanging(u)'
    BY <1>1, <2>2 DEF Exchanging, Others
  <2>4. outcome[Opener].kind # "unstarted"
    BY <1>1 DEF SessionInv, OpenerFirst
  <2>5. BusyIsHeld' /\ OpenerFirst' /\ StopIsOwned'
    BY <1>1, <2>2, <2>3, <2>4, TasksAssumption
    DEF SessionInv, BusyIsHeld, OpenerFirst, StopIsOwned, Others, Idle
  <2>6. ReportIsLast' /\ PausesClosable'
    BY <1>1, <2>2, <2>3 DEF SessionInv, ReportIsLast, PausesClosable
  <2>7. ReportGivesTheStop' /\ SameReport' /\ NoOrphan'
    BY <1>1, <2>2, <2>4 DEF SessionInv, ReportGivesTheStop, SameReport, NoOrphan
  <2> QED BY <2>5, <2>6, <2>7 DEF SessionInv
<1> QED BY <1>2, <1>3 DEF Opens

(* Session::cancel. *)
LEMMA CancelKeepsInv ==
  ASSUME TypeOK, TypeOK', SessionInv, SessionCancel \/ SessionCancelled
  PROVE  SessionInv'
<1> USE DEF session, channel, clock, history, driver
<1>0. Opener \in Tasks /\ Opener \notin Others /\ Opener \notin Closers
  BY TasksAssumption DEF Tasks, Others
<1>1. CASE SessionCancel /\ report # NoReport
  <2>1. /\ pc[Opener] = "unwinding" /\ pc'[Opener] = "done"
        /\ outcome'[Opener].kind = "raised"
        /\ \A u \in Tasks \ {Opener} : pc'[u] = pc[u] /\ outcome'[u] = outcome[u]
        /\ \A u \in Others : Idle(u)
        /\ UNCHANGED <<local, then, opened, conversation, busy, report, stop, finisher,
                       worker>>
    BY <1>0, <1>1 DEF SessionCancel, Leave, Raised, Outcome, TypeOK
  <2>2. opened /\ busy # Opener /\ stop # NoStop
    BY <1>0, <1>1, <2>1
    DEF SessionInv, OpenerFirst, BusyIsHeld, Exchanging, ReportGivesTheStop
  <2> QED BY <1>0, <2>1, <2>2, LeaveKeepsInv
<1>2. CASE SessionCancel /\ report = NoReport
  <2>1. /\ pc[Opener] = "unwinding" /\ then'[Opener] = "cancel"
        /\ pc'[Opener] = "lock" \/ (pc'[Opener] = "stopped" /\ stop # NoStop)
        /\ \A u \in Tasks \ {Opener} : pc'[u] = pc[u] /\ then'[u] = then[u]
        /\ \A u \in Others : Idle(u)
        /\ UNCHANGED <<local, outcome, opened, conversation, busy, report, stop, finisher,
                       worker>>
    BY <1>0, <1>2 DEF SessionCancel, Abort, TypeOK
  <2>2. opened /\ Scoped
    BY <2>1 DEF SessionInv, OpenerFirst
  <2>3. \A u \in Others : ~Exchanging(u) /\ ~Exchanging(u)'
    BY <2>1 DEF Exchanging, Idle, Others
  <2>4. busy = NoTask
    BY <2>1, <2>3 DEF SessionInv, BusyIsHeld, Exchanging, TypeOK, Others
  <2>5. BusyIsHeld'
    BY <1>0, <2>1, <2>2, <2>3, <2>4, TasksAssumption
    DEF SessionInv, BusyIsHeld, Others, Idle
  <2>6. OpenerFirst' /\ StopIsOwned'
    BY <1>0, <2>1, <2>2 DEF SessionInv, OpenerFirst, StopIsOwned, Others, Idle
  <2>7. ReportIsLast' /\ PausesClosable'
    BY <1>2, <2>1 DEF SessionInv, ReportIsLast, PausesClosable
  <2>8. ReportGivesTheStop' /\ SameReport' /\ NoOrphan'
    BY <2>1 DEF SessionInv, ReportGivesTheStop, SameReport, NoOrphan
  <2> QED BY <2>5, <2>6, <2>7, <2>8 DEF SessionInv
<1>3. CASE SessionCancelled
  <2>1. /\ pc[Opener] = "stopped" /\ then[Opener] = "cancel" /\ stop # NoStop
        /\ pc'[Opener] = "done" /\ outcome'[Opener].kind = "raised"
        /\ \A u \in Tasks \ {Opener} : pc'[u] = pc[u] /\ outcome'[u] = outcome[u]
        /\ report' # NoReport /\ report'.stop = stop
        /\ UNCHANGED <<local, then, opened, conversation, busy, stop, finisher, worker>>
    BY <1>0, <1>3
    DEF SessionCancelled, Leave, Raised, Outcome, SessionReport, NoReport, TypeOK,
        SessionInv, StopIsOwned
  <2>2. opened /\ Scoped /\ \A u \in Others : Idle(u)
    BY <2>1 DEF SessionInv, BusyIsHeld
  <2>3. report = NoReport
    BY <1>0, <2>1, <2>2 DEF SessionInv, ReportIsLast, Exchanging
  <2>4. \A u \in Tasks : ~Exchanging(u)' /\ (u # Opener => ~Exchanging(u))
    BY <2>1, <2>2 DEF Exchanging, Idle, Others
  <2>5. busy = NoTask
    BY <2>1 DEF SessionInv, BusyIsHeld
  <2>6. BusyIsHeld'
    BY <1>0, <2>1, <2>2, <2>4, <2>5, TasksAssumption
    DEF SessionInv, BusyIsHeld, Others, Idle
  <2>7. OpenerFirst' /\ StopIsOwned'
    BY <1>0, <2>1, <2>2 DEF SessionInv, OpenerFirst, StopIsOwned, Others, Idle
  <2>8. ReportIsLast' /\ PausesClosable'
    BY <2>1, <2>4 DEF SessionInv, ReportIsLast, PausesClosable
  <2>9. ReportGivesTheStop' /\ SameReport' /\ NoOrphan'
    BY <1>0, <2>1, <2>3, TasksAssumption
    DEF SessionInv, ReportIsLast, ReportGivesTheStop, SameReport, NoOrphan, Tasks
  <2> QED BY <2>6, <2>7, <2>8, <2>9 DEF SessionInv
<1> QED BY <1>1, <1>2, <1>3

-----------------------------------------------------------------------------
(* The requests among messages. *)

(* Induction over the natural numbers, for a set: a number outside it would *)
(* have a least one.                                                        *)
LEMMA Induction ==
  ASSUME NEW S, 0 \in S, \A n \in Nat : n \in S => n + 1 \in S
  PROVE  Nat \subseteq S
<1> DEFINE R == {p \in Nat \X Nat : p[1] < p[2]}
           Out == Nat \ S
<1>1. IsWellFoundedOn(R, Nat)
  BY NatLessThanWellFounded DEF OpToRel
<1>2. Out \subseteq Nat
  OBVIOUS
<1>3. ASSUME Out # {} PROVE FALSE
  <2>1. PICK n \in Out : \A m \in Out : <<m, n>> \notin R
    <3> HIDE DEF R, Out
    <3> QED BY <1>1, <1>2, <1>3, WFMin
  <2>2. n # 0 /\ n \in Nat /\ n \notin S
    BY <2>1
  <2>3. n - 1 \in Nat /\ n - 1 < n
    BY <2>2
  <2>4. n - 1 \in S
    BY <2>1, <2>2, <2>3
  <2>5. n - 1 + 1 = n
    BY <2>2
  <2> QED BY <2>2, <2>3, <2>4, <2>5
<1> QED BY <1>3

(* The function that RequestsOf is defined by, as an equation.             *)
Upto(messages, f) ==
  f = [n \in 0..Len(messages) |->
         IF n = 0 THEN <<>>
         ELSE IF IsRequest(messages[n]) THEN Append(f[n - 1], messages[n])
              ELSE f[n - 1]]

LEMMA UptoExists ==
  ASSUME NEW messages \in Seq(Sent)
  PROVE  \E f : Upto(messages, f)
<1> DEFINE step(f, n) ==
             IF n = 0 THEN <<>>
             ELSE IF IsRequest(messages[n]) THEN Append(f[n - 1], messages[n])
                  ELSE f[n - 1]
           Short(k) == \E f : f = [n \in 0..k |-> step(f, n)]
           Shorts == {k \in Nat : Short(k)}
<1>1. 0 \in Shorts
  <2>1. [n \in 0..0 |-> <<>>] = [n \in 0..0 |-> step([m \in 0..0 |-> <<>>], n)]
    OBVIOUS
  <2> QED BY <2>1
<1>2. ASSUME NEW k \in Nat, k \in Shorts PROVE k + 1 \in Shorts
  <2>1. PICK f : f = [n \in 0..k |-> step(f, n)]
    BY <1>2
  <2> DEFINE g == [n \in 0..(k + 1) |-> step(f, n)]
  <2>2. ASSUME NEW n \in 0..(k + 1) PROVE g[n] = step(g, n)
    <3>1. n # 0 => n - 1 \in 0..k /\ n - 1 \in 0..(k + 1)
      BY <1>2
    <3>2. n # 0 => g[n - 1] = f[n - 1]
      BY <3>1, <2>1
    <3> QED BY <3>2
  <2>3. g = [n \in 0..(k + 1) |-> step(g, n)]
    BY <2>2
  <2>4. Short(k + 1)
    <3> HIDE DEF g
    <3> QED BY <2>3
  <2> HIDE DEF Short
  <2> QED BY <2>4, <1>2
<1>3. Nat \subseteq Shorts
  <2> HIDE DEF Shorts
  <2> QED BY <1>1, <1>2, Induction
<1>4. Short(Len(messages))
  <2>1. Len(messages) \in Nat
    OBVIOUS
  <2> HIDE DEF Short
  <2> QED BY <1>3, <2>1
<1> QED BY <1>4 DEF Upto

LEMMA RequestsOfUpto ==
  ASSUME NEW messages \in Seq(Sent)
  PROVE  \E f : Upto(messages, f) /\ RequestsOf(messages) = f[Len(messages)]
<1> DEFINE f == CHOOSE f : Upto(messages, f)
<1>1. Upto(messages, f)
  BY UptoExists
<1>2. RequestsOf(messages) = f[Len(messages)]
  BY DEF RequestsOf, Upto
<1> QED BY <1>1, <1>2

LEMMA UptoNext ==
  ASSUME NEW messages, NEW f, Upto(messages, f), Len(messages) \in Nat,
         NEW n \in Nat, n + 1 <= Len(messages)
  PROVE  f[n + 1] = IF IsRequest(messages[n + 1]) THEN Append(f[n], messages[n + 1])
                    ELSE f[n]
<1>1. n + 1 \in 0..Len(messages) /\ n + 1 # 0 /\ n + 1 - 1 = n
  OBVIOUS
<1> DEFINE value(m) == IF m = 0 THEN <<>>
                       ELSE IF IsRequest(messages[m]) THEN Append(f[m - 1], messages[m])
                            ELSE f[m - 1]
<1>2. \A m \in 0..Len(messages) : f[m] = value(m)
  <2>1. f = [m \in 0..Len(messages) |-> value(m)]
    BY DEF Upto
  <2> HIDE DEF value
  <2> QED BY <2>1
<1>3. f[n + 1] = value(n + 1)
  <2> HIDE DEF value
  <2> QED BY <1>1, <1>2
<1> QED BY <1>1, <1>3

(* Two such functions agree as far as their messages do. *)
LEMMA UptoAgrees ==
  ASSUME NEW left \in Seq(Sent), NEW right \in Seq(Sent), NEW f, NEW g,
         Upto(left, f), Upto(right, g), Len(left) <= Len(right),
         \A n \in 1..Len(left) : left[n] = right[n]
  PROVE  \A n \in 0..Len(left) : f[n] = g[n] /\ f[n] \in Seq(Sent)
<1> DEFINE Same == {n \in Nat : n <= Len(left) => f[n] = g[n] /\ f[n] \in Seq(Sent)}
<1>1. 0 \in Same
  <2>1. f[0] = <<>> /\ g[0] = <<>>
    BY DEF Upto
  <2>2. f[0] = g[0] /\ f[0] \in Seq(Sent)
    BY <2>1
  <2> QED BY <2>2
<1>2. ASSUME NEW n \in Nat, n \in Same PROVE n + 1 \in Same
  <2> SUFFICES ASSUME n + 1 <= Len(left)
               PROVE  f[n + 1] = g[n + 1] /\ f[n + 1] \in Seq(Sent)
    OBVIOUS
  <2>1. f[n] = g[n] /\ f[n] \in Seq(Sent)
    BY <1>2
  <2>2. left[n + 1] = right[n + 1] /\ left[n + 1] \in Sent
    BY <1>2
  <2>3. n + 1 \in 0..Len(left) /\ n + 1 \in 0..Len(right) /\ n + 1 # 0 /\ n + 1 - 1 = n
    BY <1>2
  <2>4. f[n + 1] = IF IsRequest(left[n + 1]) THEN Append(f[n], left[n + 1]) ELSE f[n]
    BY <2>3, UptoNext
  <2>5. g[n + 1] = IF IsRequest(right[n + 1]) THEN Append(g[n], right[n + 1]) ELSE g[n]
    BY <2>3, UptoNext
  <2> QED BY <2>1, <2>2, <2>4, <2>5
<1>3. Nat \subseteq Same
  <2> HIDE DEF Same
  <2> QED BY <1>1, <1>2, Induction
<1> QED BY <1>3

LEMMA RequestsOfType ==
  ASSUME NEW messages \in Seq(Sent)
  PROVE  RequestsOf(messages) \in Seq(Sent)
BY RequestsOfUpto, UptoAgrees

LEMMA RequestsOfNothing == RequestsOf(<<>>) = <<>>
<1>1. PICK f : Upto(<<>>, f) /\ RequestsOf(<<>>) = f[Len(<<>>)]
  <2>1. <<>> \in Seq(Sent)
    OBVIOUS
  <2> QED BY <2>1, RequestsOfUpto
<1> QED BY <1>1 DEF Upto

(* One more message adds itself when it is a request. *)
LEMMA RequestsOfAppend ==
  ASSUME NEW messages \in Seq(Sent), NEW message \in Sent
  PROVE  RequestsOf(Append(messages, message)) =
           IF IsRequest(message) THEN Append(RequestsOf(messages), message)
           ELSE RequestsOf(messages)
<1> DEFINE longer == Append(messages, message)
<1>1. /\ longer \in Seq(Sent) /\ Len(longer) = Len(messages) + 1
      /\ longer[Len(longer)] = message
      /\ \A n \in 1..Len(messages) : messages[n] = longer[n]
  OBVIOUS
<1>2. PICK f : Upto(messages, f) /\ RequestsOf(messages) = f[Len(messages)]
  BY RequestsOfUpto
<1>3. PICK g : Upto(longer, g) /\ RequestsOf(longer) = g[Len(longer)]
  BY <1>1, RequestsOfUpto
<1> HIDE DEF longer
<1>4. f[Len(messages)] = g[Len(messages)]
  BY <1>1, <1>2, <1>3, UptoAgrees
<1>5. g[Len(longer)] = IF IsRequest(message) THEN Append(g[Len(messages)], message)
                       ELSE g[Len(messages)]
  <2>1. /\ Len(messages) \in Nat /\ Len(longer) \in Nat
        /\ Len(messages) + 1 <= Len(longer)
    BY <1>1
  <2> QED BY <1>1, <1>3, <2>1, UptoNext
<1> QED BY <1>2, <1>3, <1>4, <1>5 DEF longer

-----------------------------------------------------------------------------
(* The conversation and the wire. *)

(* A move that ends the conversation without a last message.               *)
Silent(next) ==
  /\ next.step.send = NoMessage
  /\ next.step.then = "finished"
  /\ next.conv.phase = "Over"
  /\ next.conv.pending = 0

(* What happens to the conclusion of a task that is interrupted or fails.  *)
Keeps(next, before) ==
  \/ next.step.conclusion = before.step.conclusion
  \/ next.step.conclusion.kind = "EndedEarly"

(* A session that refuses its worker goes on, or ends with the refusal.    *)
Stands(next, conv) ==
  conv.phase = "Refusing" =>
    next.conv = conv \/ next.step.conclusion = EndedEarly(conv.refusal)

LEMMA ConclusionsDiffer ==
  /\ \A ending \in Endings : EndedEarly(ending).kind = "EndedEarly"
  /\ \A ending \in Endings : EndedEarly(ending).ending = ending
  /\ Closed.kind = "Closed" /\ Described.kind = "Described" /\ NoConclusion.kind = "None"
  /\ Closed # NoConclusion /\ Described # NoConclusion /\ Closed # Described
  /\ \A code : Failed(code) # NoEnding /\ Refused(code) # NoEnding
  /\ Cancelled # NoEnding /\ DeadlinePassed # NoEnding
BY DEF EndedEarly, Closed, Described, NoConclusion, Failed, Refused, NoEnding, Cancelled,
       DeadlinePassed

(* A conclusion of a session. *)
Final(conclusion) ==
  /\ conclusion # NoConclusion
  /\ conclusion.ending = NoEnding => conclusion \in {Described, Closed}

LEMMA FinalConclusions ==
  /\ \A ending \in Endings : ending # NoEnding => Final(EndedEarly(ending))
  /\ Final(Described) /\ Final(Closed)
BY ConclusionsDiffer DEF Final

LEMMA OverEnds ==
  ASSUME NEW conv \in Conversations, NEW message, NEW plan, NEW conclusion,
         Final(conclusion)
  PROVE  LET next == over(conv, message, plan, conclusion) IN
         /\ Concludes(next) /\ next.step.send = message /\ next.step.then = "finished"
         /\ next.conv.phase = "Over" /\ next.conv.pending = 0
         /\ next.step.conclusion = conclusion
<1>1. [conv EXCEPT !.phase = "Over", !.pending = 0].phase = "Over"
  BY DEF Conversations
<1>2. [conv EXCEPT !.phase = "Over", !.pending = 0].pending = 0
  BY DEF Conversations
<1> DEFINE step == Finished(message, plan, conclusion)
<1>3. step.then = "finished" /\ step.send = message /\ step.conclusion = conclusion
  BY DEF Finished, Exchange
<1> DEFINE next == over(conv, message, plan, conclusion)
<1>4. /\ next.step = step
      /\ next.conv = [conv EXCEPT !.phase = "Over", !.pending = 0]
  BY DEF over
<1>5. next.conv.phase = "Over" /\ next.conv.pending = 0
  BY <1>1, <1>2, <1>4
<1> HIDE DEF next, step
<1>6. Concludes(next)
  BY <1>3, <1>4, <1>5 DEF Concludes, Final
<1> QED BY <1>3, <1>4, <1>5, <1>6 DEF next

(* An event ends the conversation. *)
LEMMA OnEnds ==
  ASSUME NEW conv \in Conversations, NEW event,
         conv.phase = "Refusing" => conv.refusal # NoEnding
  PROVE  /\ Silent(on(conv, event)) /\ Concludes(on(conv, event))
         /\ on(conv, event).step.conclusion.kind = "EndedEarly"
         /\ Stands(on(conv, event), conv)
<1>1. \A ending \in Endings :
        /\ Ending(conv, ending) \in Endings
        /\ ending # NoEnding => Ending(conv, ending) # NoEnding
        /\ conv.phase = "Refusing" => Ending(conv, ending) = conv.refusal
  BY DEF Ending, Conversations
<1>2. \A error : FaultOf(conv, error) \in Codes
  BY DEF FaultOf, Codes
<1>3. \E ending \in Endings :
        ending # NoEnding /\ transport_fault(conv, event) = Ending(conv, ending)
  <2>1. {"request_limit", "worker_runtime_mismatch"} \subseteq Codes
    BY DEF Codes
  <2> QED BY <1>2, <2>1, ConstructorTypes, ConclusionsDiffer DEF transport_fault
<1>4. ASSUME NEW plan, NEW found \in Endings, found # NoEnding,
             on(conv, event) = over(conv, NoMessage, plan, EndedEarly(Ending(conv, found)))
      PROVE  /\ Silent(on(conv, event)) /\ Concludes(on(conv, event))
             /\ on(conv, event).step.conclusion.kind = "EndedEarly"
             /\ Stands(on(conv, event), conv)
  <2>1. Ending(conv, found) \in Endings /\ Ending(conv, found) # NoEnding
    BY <1>1, <1>4
  <2>2. conv.phase = "Refusing" => Ending(conv, found) = conv.refusal
    BY <1>1
  <2> QED BY <1>4, <2>1, <2>2, OverEnds, FinalConclusions, ConclusionsDiffer DEF Silent, Stands
<1>5. CASE event = "StopRequested"
  <2>1. on(conv, event)
          = over(conv, NoMessage, "Cancelled", EndedEarly(Ending(conv, Cancelled)))
    BY <1>5 DEF on
  <2> QED BY <1>4, <2>1, ConstructorTypes, ConclusionsDiffer
<1>6. CASE event = "DeadlinePassed"
  <2>1. on(conv, event)
          = over(conv, NoMessage, "Deadline", EndedEarly(Ending(conv, DeadlinePassed)))
    BY <1>6 DEF on
  <2> QED BY <1>4, <2>1, ConstructorTypes, ConclusionsDiffer
<1>7. CASE event \notin {"StopRequested", "DeadlinePassed"}
  <2>1. on(conv, event)
          = over(conv, NoMessage, "Fault", EndedEarly(transport_fault(conv, event)))
    BY <1>7 DEF on
  <2>2. PICK ending \in Endings :
          ending # NoEnding /\ transport_fault(conv, event) = Ending(conv, ending)
    BY <1>3
  <2>3. on(conv, event) = over(conv, NoMessage, "Fault", EndedEarly(Ending(conv, ending)))
    BY <2>1, <2>2
  <2> QED BY <1>4, <2>2, <2>3
<1> QED BY <1>5, <1>6, <1>7

LEMMA FailEnds ==
  ASSUME NEW next \in Moves, NEW event, Concludes(next)
  PROVE  /\ Silent(Fail(next, event)) /\ Concludes(Fail(next, event))
         /\ Keeps(Fail(next, event), next)
         /\ Stands(Fail(next, event), next.conv)
<1>1. CASE next.step.then = "finished"
  <2> DEFINE quiet == [next EXCEPT !.step.send = NoMessage, !.step.plan = after(event)]
  <2>1. Fail(next, event) = quiet
    BY <1>1 DEF Fail
  <2>2. /\ quiet.conv = next.conv
        /\ quiet.step = [next.step EXCEPT !.send = NoMessage, !.plan = after(event)]
    BY DEF Moves
  <2>3. /\ quiet.step.send = NoMessage /\ quiet.step.then = next.step.then
        /\ quiet.step.conclusion = next.step.conclusion
    BY <2>2 DEF Moves, Steps
  <2> HIDE DEF quiet
  <2> QED BY <1>1, <2>1, <2>2, <2>3 DEF Silent, Concludes, Keeps, Stands
<1>2. CASE next.step.then # "finished"
  <2>1. next.conv \in Conversations
    BY DEF Moves
  <2>2. next.conv.phase = "Refusing" => next.conv.refusal # NoEnding
    BY DEF Concludes
  <2> QED BY <1>2, <2>1, <2>2, OnEnds DEF Fail, Keeps
<1> QED BY <1>1, <1>2

(* A stop or the deadline at the start of an operation.                    *)
LEMMA EnteredEnds ==
  ASSUME NEW next \in Moves, Concludes(next)
  PROVE  /\ Entered(next) = next \/ Silent(Entered(next))
         /\ Concludes(Entered(next)) /\ Keeps(Entered(next), next)
         /\ Interrupts # {} => Entered(next).step.send = NoMessage
<1>1. \A event : /\ Silent(Fail(next, event)) /\ Concludes(Fail(next, event))
                 /\ Keeps(Fail(next, event), next)
  BY FailEnds
<1>2. Keeps(next, next)
  BY DEF Keeps
<1> QED BY <1>1, <1>2 DEF Entered, Races, Silent, Interrupts

LEMMA SilentAgrees ==
  ASSUME NEW next, Silent(next), NEW last, NEW asked, NEW answered
  PROVE  Agrees(next.conv, next.step.send, last, asked, answered)
BY DEF Silent, Agrees, Asking

(* The last message of a session follows the reply to a request. *)
LEMMA ExitAgrees ==
  ASSUME NEW conv \in Conversations, NEW conclusion, Final(conclusion),
         NEW last \in {"describe", "initialize", "shutdown"}, NEW asked
  PROVE  LET next == exit(conv, conclusion) IN
         /\ Agrees(next.conv, next.step.send, last, asked, asked)
         /\ Concludes(next)
         /\ next.conv.phase = "Over"
         /\ next.step.conclusion = conclusion
<1> DEFINE next == exit(conv, conclusion)
<1>1. /\ Concludes(next) /\ next.step.send = Message("exit", 0)
      /\ next.conv.phase = "Over" /\ next.conv.pending = 0
      /\ next.step.conclusion = conclusion
  BY OverEnds DEF exit
<1>2. /\ Message("exit", 0).method = "exit" /\ Message("exit", 0) # NoMessage
      /\ Led["Over"] = "exit" /\ "exit" \in Order!Follow[last]
  BY DEF Message, NoMessage, Led, Order!Follow
<1> HIDE DEF next
<1>3. Agrees(next.conv, next.step.send, last, asked, asked)
  BY <1>1, <1>2 DEF Agrees, Asking
<1> QED BY <1>1, <1>3 DEF next

(* A request of the host. *)
LEMMA RequestAgrees ==
  ASSUME NEW conv \in Conversations, NEW phase \in Asking, NEW last \in DOMAIN Order!Follow,
         Led[phase] \in Order!Follow[last], NEW asked \in Nat,
         NEW next, next.conv.phase = phase,
         next.conv.pending = asked + 1, next.conv.next_id = asked + 2,
         next.step = Exchange(Message(Led[phase], asked + 1)),
         phase = "Refusing" => next.conv.refusal # NoEnding
  PROVE  /\ Agrees(next.conv, next.step.send, last, asked, asked)
         /\ Concludes(next) /\ next.step.conclusion = NoConclusion
         /\ next.step.send # NoMessage
<1>1. next.step.send = Message(Led[phase], asked + 1) /\ next.step.then = "exchange"
      /\ next.step.conclusion = NoConclusion
  BY DEF Exchange
<1>2. /\ Message(Led[phase], asked + 1) # NoMessage
      /\ Message(Led[phase], asked + 1).method = Led[phase]
  <2>1. asked + 1 # 0
    OBVIOUS
  <2> QED BY <2>1 DEF Message, NoMessage
<1>3. asked + 2 - 1 = asked + 1
  OBVIOUS
<1>4. Concludes(next)
  BY <1>1, ConclusionsDiffer DEF Concludes
<1>5. Agrees(next.conv, next.step.send, last, asked, asked)
  BY <1>1, <1>2, <1>3 DEF Agrees, Asking
<1> QED BY <1>1, <1>2, <1>4, <1>5

LEMMA StartAgrees ==
  \A next \in {probe, activate} :
    /\ Agrees(next.conv, next.step.send, "start", 0, 0)
    /\ Concludes(next) /\ next.step.conclusion = NoConclusion
<1>1. "start" \in DOMAIN Order!Follow /\ Order!Follow["start"] = {"describe", "initialize"}
  BY DEF Order!Follow
<1>2. Led["Describing"] = "describe" /\ Led["Initializing"] = "initialize"
  BY DEF Led
<1>3. /\ probe.conv.phase = "Describing" /\ probe.conv.pending = 1 /\ probe.conv.next_id = 2
      /\ probe.step = Exchange(Message("describe", 1)) /\ probe.conv \in Conversations
  BY StartTypes DEF probe, Moves
<1>4. /\ activate.conv.phase = "Initializing" /\ activate.conv.pending = 1
      /\ activate.conv.next_id = 2 /\ activate.conv \in Conversations
      /\ activate.step = Exchange(Message("initialize", 1))
  BY StartTypes DEF activate, Moves
<1>5. 0 + 1 = 1 /\ 0 + 2 = 2 /\ 0 \in Nat
  OBVIOUS
<1>6. "Describing" \in Asking /\ "Initializing" \in Asking
  BY DEF Asking
<1>7. /\ Agrees(probe.conv, probe.step.send, "start", 0, 0)
      /\ Concludes(probe) /\ probe.step.conclusion = NoConclusion
  <2>1. /\ probe.conv.pending = 0 + 1 /\ probe.conv.next_id = 0 + 2
        /\ probe.step = Exchange(Message(Led["Describing"], 0 + 1))
    BY <1>2, <1>3, <1>5
  <2>2. Led["Describing"] \in Order!Follow["start"] /\ "Describing" # "Refusing"
    BY <1>1, <1>2
  <2>3. probe.conv \in Conversations /\ probe.conv.phase = "Describing"
    BY <1>3
  <2>4. "start" \in DOMAIN Order!Follow /\ 0 \in Nat /\ "Describing" \in Asking
    BY <1>1, <1>5, <1>6
  <2> QED BY <2>1, <2>2, <2>3, <2>4, RequestAgrees
<1>8. /\ Agrees(activate.conv, activate.step.send, "start", 0, 0)
      /\ Concludes(activate) /\ activate.step.conclusion = NoConclusion
  <2>1. /\ activate.conv.pending = 0 + 1 /\ activate.conv.next_id = 0 + 2
        /\ activate.step = Exchange(Message(Led["Initializing"], 0 + 1))
    BY <1>2, <1>4, <1>5
  <2>2. Led["Initializing"] \in Order!Follow["start"] /\ "Initializing" # "Refusing"
    BY <1>1, <1>2
  <2>3. activate.conv \in Conversations /\ activate.conv.phase = "Initializing"
    BY <1>4
  <2>4. "start" \in DOMAIN Order!Follow /\ 0 \in Nat /\ "Initializing" \in Asking
    BY <1>1, <1>5, <1>6
  <2> QED BY <2>1, <2>2, <2>3, <2>4, RequestAgrees
<1> QED BY <1>7, <1>8

(* What a caller asks for, from a session at rest. *)
LEMMA CallAgrees ==
  ASSUME NEW conv \in Conversations, Callable(conv),
         NEW last, NEW asked \in Nat, NEW answered \in Nat,
         Agrees(conv, NoMessage, last, asked, answered)
  PROVE  LET next == call(conv) IN
         /\ Agrees(next.conv, next.step.send, last, asked, answered)
         /\ Concludes(next) /\ next.conv.phase = "Calling"
         /\ next.step.conclusion = NoConclusion
<1> DEFINE next == call(conv)
<1>1. last = "initialized" /\ asked = answered /\ conv.next_id = asked + 1
  BY DEF Agrees, Callable, Led, Asking
<1>2. /\ next.conv.phase = "Calling" /\ next.conv.pending = asked + 1
      /\ next.conv.next_id = asked + 2
      /\ next.step = Exchange(Message("operation", asked + 1))
  <2>1. next.conv = [conv EXCEPT !.phase = "Calling", !.pending = conv.next_id,
                                 !.next_id = conv.next_id + 1]
    BY DEF call
  <2>2. conv.next_id + 1 = asked + 2
    BY <1>1
  <2>3. next.step = Exchange(Message("operation", asked + 1))
    BY <1>1 DEF call
  <2> HIDE DEF next
  <2> QED BY <1>1, <2>1, <2>2, <2>3 DEF Conversations
<1>3. /\ Led["Calling"] = "operation" /\ "Calling" \in Asking
      /\ last \in DOMAIN Order!Follow /\ "operation" \in Order!Follow[last]
  BY <1>1 DEF Led, Asking, Order!Follow
<1> HIDE DEF next
<1>4. /\ Agrees(next.conv, next.step.send, last, asked, asked)
      /\ Concludes(next) /\ next.step.conclusion = NoConclusion
  BY <1>2, <1>3, RequestAgrees
<1> QED BY <1>1, <1>2, <1>4 DEF next

LEMMA ShutdownAgrees ==
  ASSUME NEW conv \in Conversations, NEW phase \in {"Refusing", "ShuttingDown"},
         NEW refusal, phase = "Refusing" => refusal # NoEnding,
         NEW last \in {"initialize", "initialized", "operation"}, NEW asked \in Nat,
         conv.next_id = asked + 1
  PROVE  LET next == shutdown(conv, phase, refusal) IN
         /\ Agrees(next.conv, next.step.send, last, asked, asked)
         /\ Concludes(next) /\ next.conv.phase = phase
         /\ next.step.conclusion = NoConclusion
<1> DEFINE next == shutdown(conv, phase, refusal)
<1>1. /\ next.conv.phase = phase /\ next.conv.pending = asked + 1
      /\ next.conv.next_id = asked + 2 /\ next.conv.refusal = refusal
      /\ next.step = Exchange(Message("shutdown", asked + 1))
  BY DEF shutdown
<1>2. /\ Led[phase] = "shutdown" /\ phase \in Asking
      /\ last \in DOMAIN Order!Follow /\ "shutdown" \in Order!Follow[last]
  BY DEF Led, Asking, Order!Follow
<1> HIDE DEF next
<1>3. /\ Agrees(next.conv, next.step.send, last, asked, asked)
      /\ Concludes(next) /\ next.step.conclusion = NoConclusion
  BY <1>1, <1>2, RequestAgrees
<1> QED BY <1>1, <1>3 DEF next

LEMMA CloseAgrees ==
  ASSUME NEW conv \in Conversations, Closable(conv),
         NEW last, NEW asked \in Nat, NEW answered \in Nat,
         Agrees(conv, NoMessage, last, asked, answered)
  PROVE  LET next == close(conv) IN
         /\ Agrees(next.conv, next.step.send, last, asked, answered)
         /\ Concludes(next) /\ next.conv.phase = "ShuttingDown"
         /\ next.step.conclusion = NoConclusion
<1>1. /\ last \in {"initialized", "operation"} /\ asked = answered
      /\ conv.next_id = asked + 1
  BY DEF Agrees, Closable, Led, Asking
<1> QED BY <1>1, ShutdownAgrees DEF close

(* A message that is written leaves the conversation in step with the wire. *)
LEMMA SendAgrees ==
  ASSUME NEW next \in Moves, next.step.send # NoMessage, NEW last, NEW asked \in Nat,
         NEW answered \in Nat, Agrees(next.conv, next.step.send, last, asked, answered)
  PROVE  LET rest == [next EXCEPT !.step.send = NoMessage]
             count == IF IsRequest(next.step.send) THEN asked + 1 ELSE asked IN
         /\ Agrees(rest.conv, rest.step.send, next.step.send.method, count, answered)
         /\ rest.conv = next.conv /\ rest.step.send = NoMessage
         /\ rest.step.then = next.step.then
         /\ rest.step.conclusion = next.step.conclusion
<1> DEFINE rest == [next EXCEPT !.step.send = NoMessage]
           message == next.step.send
           conv == next.conv
           count == IF IsRequest(message) THEN asked + 1 ELSE asked
<1>1. rest.conv = conv /\ rest.step = [next.step EXCEPT !.send = NoMessage]
  BY DEF Moves
<1>2. /\ rest.step.send = NoMessage /\ rest.step.then = next.step.then
      /\ rest.step.conclusion = next.step.conclusion
  BY <1>1 DEF Moves, Steps
<1>3. /\ conv.pending = IF conv.phase \in Asking THEN conv.next_id - 1 ELSE 0
      /\ message = Message(Led[conv.phase], IF conv.phase \in Asking THEN asked + 1 ELSE 0)
      /\ asked = answered
      /\ conv.phase # "Over" =>
           conv.next_id = IF conv.phase \in Asking THEN asked + 2 ELSE asked + 1
  BY DEF Agrees
<1>4. /\ message.method = Led[conv.phase]
      /\ IsRequest(message) <=> conv.phase \in Asking
  <2>1. asked + 1 # 0
    OBVIOUS
  <2> HIDE DEF message
  <2> QED BY <1>3, <2>1 DEF Message, IsRequest
<1>5. /\ conv.phase \in Asking => count = asked + 1 /\ asked + 2 = count + 1
      /\ conv.phase \notin Asking => count = asked
  BY <1>4
<1> HIDE DEF message, conv, count, rest
<1>6. Agrees(conv, NoMessage, message.method, count, answered)
  BY <1>3, <1>4, <1>5 DEF Agrees
<1> QED BY <1>1, <1>2, <1>6 DEF message, conv, count, rest

(* A reply to the pending request. *)
LEMMA RepliedAgrees ==
  ASSUME NEW conv \in Conversations, NEW reply, Readable(reply), conv.pending # 0,
         NEW last, NEW asked \in Nat, NEW answered \in Nat,
         Agrees(conv, NoMessage, last, asked, answered),
         conv.phase = "Refusing" => conv.refusal # NoEnding
  PROVE  LET next == replied(conv, reply) IN
         /\ Agrees(next.conv, next.step.send, last, asked, asked)
         /\ Concludes(next) /\ next.conv.phase # "Describing"
         /\ conv.phase = "Refusing" => next.step.conclusion = EndedEarly(conv.refusal)
         /\ next.step.conclusion = Closed => conv.phase = "ShuttingDown"
         /\ next.step.conclusion = Described => conv.phase = "Describing"
<1> DEFINE next == replied(conv, reply)
           failed == reply.kind = "error"
<1>1. /\ conv.phase \in Asking /\ last = Led[conv.phase]
      /\ conv.next_id = asked + 1
  BY DEF Agrees, Asking
<1>2. \A ending \in Endings : ending # NoEnding =>
        /\ Final(EndedEarly(ending))
        /\ EndedEarly(ending) # Closed /\ EndedEarly(ending) # Described
  BY FinalConclusions, ConclusionsDiffer
<1>3. \A code \in {"describe_failed", "guest", "unexpected_response", "protocol_unavailable",
                   "claims_mismatch"} :
        /\ Failed(code) \in Endings /\ Failed(code) # NoEnding
        /\ Refused(code) \in Endings /\ Refused(code) # NoEnding
  <2>1. {"describe_failed", "guest", "unexpected_response", "protocol_unavailable",
         "claims_mismatch"} \subseteq Codes
    BY DEF Codes
  <2> QED BY <2>1, ConstructorTypes, ConclusionsDiffer
<1>4. CASE conv.phase = "Describing"
  <2>1. last = "describe"
    BY <1>1, <1>4 DEF Led
  <2>2. PICK conclusion \in {Described, EndedEarly(Failed("describe_failed"))} :
          next = exit(conv, conclusion)
    BY <1>4 DEF replied
  <2>3. Final(conclusion) /\ conclusion # Closed
    BY <2>2, <1>2, <1>3, FinalConclusions, ConclusionsDiffer
  <2> HIDE DEF next
  <2> QED BY <1>4, <2>1, <2>2, <2>3, ExitAgrees DEF next
<1>5. CASE conv.phase = "Initializing"
  <2>1. last = "initialize"
    BY <1>1, <1>5 DEF Led
  <2>2. CASE failed \/ reply.body = "malformed"
    <3>1. PICK ending \in {Failed("guest"), Refused("protocol_unavailable")} :
            next = exit(conv, EndedEarly(ending))
      BY <1>5, <2>2 DEF replied, initialized
    <3>2. ending \in Endings /\ ending # NoEnding
      BY <3>1, <1>3
    <3> HIDE DEF next
    <3> QED BY <1>5, <2>1, <3>1, <3>2, <1>2, ExitAgrees DEF next
  <2>3. CASE ~failed /\ reply.body = "reject"
    <3>1. next = shutdown(conv, "Refusing", Refused("claims_mismatch"))
      BY <1>5, <2>3 DEF replied, initialized
    <3> HIDE DEF next
    <3> QED BY <1>1, <1>3, <1>5, <2>1, <3>1, ShutdownAgrees, ConclusionsDiffer DEF next
  <2>4. CASE ~failed /\ reply.body \notin {"malformed", "reject"}
    <3> DEFINE ready == [conv EXCEPT !.phase = "Ready", !.pending = 0]
    <3>1. next = [conv |-> ready, step |-> Activated]
      BY <1>5, <2>4 DEF replied, initialized
    <3>2. /\ next.conv.phase = "Ready" /\ next.conv.pending = 0
          /\ next.conv.next_id = asked + 1 /\ next.step = Activated
      <4>1. ready.phase = "Ready" /\ ready.pending = 0 /\ ready.next_id = conv.next_id
        BY DEF Conversations
      <4> HIDE DEF next, ready
      <4> QED BY <1>1, <3>1, <4>1
    <3>3. /\ Activated.send = Message("initialized", 0) /\ Activated.then = "activated"
          /\ Activated.conclusion = NoConclusion
      BY DEF Activated, Exchange
    <3>4. /\ Message("initialized", 0).method = "initialized"
          /\ Message("initialized", 0) # NoMessage
          /\ Led["Ready"] = "initialized" /\ "initialized" \in Order!Follow[last]
      BY <2>1 DEF Message, NoMessage, Led, Order!Follow
    <3> HIDE DEF next
    <3>5. Agrees(next.conv, next.step.send, last, asked, asked)
      BY <3>2, <3>3, <3>4 DEF Agrees, Asking
    <3>6. Concludes(next)
      BY <3>2, <3>3, ConclusionsDiffer DEF Concludes
    <3> QED BY <1>5, <3>2, <3>3, <3>5, <3>6, ConclusionsDiffer DEF next
  <2> QED BY <2>2, <2>3, <2>4
<1>6. CASE conv.phase \in {"Refusing", "ShuttingDown"}
  <2>1. last = "shutdown"
    BY <1>1, <1>6 DEF Led
  <2>2. PICK conclusion \in {EndedEarly(conv.refusal), EndedEarly(Failed("guest")), Closed} :
          /\ next = exit(conv, conclusion)
          /\ conv.phase = "Refusing" => conclusion = EndedEarly(conv.refusal)
          /\ conv.phase = "ShuttingDown" => conclusion # EndedEarly(conv.refusal)
                                          \/ conclusion = EndedEarly(Failed("guest"))
    <3>1. CASE conv.phase = "Refusing"
      BY <3>1 DEF replied
    <3>2. CASE conv.phase = "ShuttingDown"
      <4>1. next = exit(conv, IF failed THEN EndedEarly(Failed("guest")) ELSE Closed)
        BY <3>2 DEF replied
      <4>2. conv.refusal \in Endings
        BY DEF Conversations
      <4>3. Closed # EndedEarly(conv.refusal)
        BY <4>2, ConclusionsDiffer
      <4> HIDE DEF next
      <4> QED BY <3>2, <4>1, <4>3
    <3> QED BY <1>6, <3>1, <3>2
  <2>3. conv.refusal \in Endings
    BY DEF Conversations
  <2>4. Final(conclusion) /\ conclusion # Described
    BY <1>6, <2>2, <2>3, <1>2, <1>3, FinalConclusions, ConclusionsDiffer
  <2>5. conv.phase = "Refusing" => conclusion # Closed
    BY <2>2, <2>3, <1>2, ConclusionsDiffer
  <2> HIDE DEF next
  <2> QED BY <1>6, <2>1, <2>2, <2>4, <2>5, ExitAgrees DEF next
<1>7. CASE conv.phase = "Calling"
  <2>1. last = "operation"
    BY <1>1, <1>7 DEF Led
  <2> DEFINE called == [conv EXCEPT !.phase = "Called", !.pending = 0]
  <2>2. next = [conv |-> called, step |-> Answered(answer(reply))]
    BY <1>7 DEF replied
  <2>3. /\ next.conv.phase = "Called" /\ next.conv.pending = 0
        /\ next.conv.next_id = asked + 1 /\ next.step = Answered(answer(reply))
    <3>1. called.phase = "Called" /\ called.pending = 0 /\ called.next_id = conv.next_id
      BY DEF Conversations
    <3> HIDE DEF next, called
    <3> QED BY <1>1, <2>2, <3>1
  <2>4. /\ Answered(answer(reply)).send = NoMessage
        /\ Answered(answer(reply)).then = "answered"
        /\ Answered(answer(reply)).conclusion = NoConclusion
    BY DEF Answered, Exchange
  <2> HIDE DEF next
  <2>5. Agrees(next.conv, next.step.send, last, asked, asked)
    BY <2>1, <2>3, <2>4 DEF Agrees, Asking, Led
  <2>6. Concludes(next)
    BY <2>3, <2>4, ConclusionsDiffer DEF Concludes
  <2> QED BY <1>7, <2>3, <2>4, <2>5, <2>6, ConclusionsDiffer DEF next
<1> QED BY <1>1, <1>4, <1>5, <1>6, <1>7 DEF Asking

(* A message of the worker, whatever it is. *)
LEMMA ReceivedAgrees ==
  ASSUME NEW conv \in Conversations, NEW message, Readable(message),
         NEW last, NEW asked \in Nat, NEW answered \in Nat,
         Agrees(conv, NoMessage, last, asked, answered),
         conv.phase = "Refusing" => conv.refusal # NoEnding
  PROVE  LET next == received(conv, message)
             taken == IF conv.pending # 0 /\ IsReplyTo(conv.pending, message)
                      THEN answered + 1 ELSE answered IN
         /\ Agrees(next.conv, next.step.send, last, asked, taken)
         /\ taken # answered => asked = taken /\ conv.phase \in Asking
         /\ Concludes(next) /\ Stands(next, conv)
         /\ next.step.conclusion = Closed =>
              conv.phase = "ShuttingDown" /\ asked = taken /\ last = "shutdown"
         /\ next.step.conclusion = Described => conv.phase = "Describing"
         /\ next.conv.phase = "Describing" => conv.phase = "Describing"
<1> DEFINE next == received(conv, message)
           taken == IF conv.pending # 0 /\ IsReplyTo(conv.pending, message)
                    THEN answered + 1 ELSE answered
           fault(code) ==
             over(conv, NoMessage, "Fault", EndedEarly(Ending(conv, Failed(code))))
<1>1. conv.pending # 0 =>
        conv.phase \in Asking /\ asked = answered + 1 /\ last = Led[conv.phase]
  BY DEF Agrees, Asking
<1>2. ASSUME NEW code \in {"unexpected_response", "response_limit"}, next = fault(code)
      PROVE  /\ Silent(next) /\ Concludes(next) /\ Stands(next, conv)
             /\ next.step.conclusion \notin {Closed, Described}
  <2> DEFINE ending == Ending(conv, Failed(code))
  <2>1. Failed(code) \in Endings /\ Failed(code) # NoEnding
    <3>1. code \in Codes
      BY DEF Codes
    <3> QED BY <3>1, ConstructorTypes, ConclusionsDiffer
  <2>2. /\ ending \in Endings /\ ending # NoEnding
        /\ conv.phase = "Refusing" => ending = conv.refusal
    BY <2>1 DEF Ending, Conversations
  <2>3. Final(EndedEarly(ending)) /\ EndedEarly(ending) \notin {Closed, Described}
    BY <2>2, FinalConclusions, ConclusionsDiffer
  <2> HIDE DEF ending, next
  <2> QED BY <1>2, <2>2, <2>3, OverEnds DEF ending, Silent, Stands
<1>3. CASE conv.pending = 0
  <2>1. next = fault("unexpected_response") /\ taken = answered
    BY <1>3 DEF received
  <2> HIDE DEF next, taken, fault
  <2>2. /\ Silent(next) /\ Concludes(next) /\ Stands(next, conv)
        /\ next.step.conclusion \notin {Closed, Described}
    BY <1>2, <2>1
  <2> QED BY <2>1, <2>2, SilentAgrees DEF Silent, next, taken
<1>4. CASE conv.pending # 0 /\ message.kind = "oversized"
  <2>1. next = fault("response_limit") /\ taken = answered
    BY <1>4 DEF received, IsReplyTo
  <2> HIDE DEF next, taken, fault
  <2>2. /\ Silent(next) /\ Concludes(next) /\ Stands(next, conv)
        /\ next.step.conclusion \notin {Closed, Described}
    BY <1>2, <2>1
  <2> QED BY <2>1, <2>2, SilentAgrees DEF Silent, next, taken
<1>5. CASE conv.pending # 0 /\ message.kind = "notification"
  <2>1. next = [conv |-> conv, step |-> Exchange(NoMessage)] /\ taken = answered
    BY <1>5 DEF received, IsReplyTo
  <2>2. /\ next.conv = conv /\ next.step.send = NoMessage /\ next.step.then = "exchange"
        /\ next.step.conclusion = NoConclusion
    BY <2>1 DEF Exchange
  <2> HIDE DEF next, taken
  <2>3. Concludes(next) /\ Stands(next, conv)
    BY <2>2, ConclusionsDiffer DEF Concludes, Stands
  <2> QED BY <2>1, <2>2, <2>3, ConclusionsDiffer DEF next, taken
<1>6. CASE conv.pending # 0 /\ IsReplyTo(conv.pending, message)
  <2>1. next = replied(conv, message) /\ taken = answered + 1 /\ taken = asked
    BY <1>1, <1>6 DEF received, IsReplyTo
  <2>2. /\ Agrees(next.conv, next.step.send, last, asked, asked)
        /\ Concludes(next) /\ next.conv.phase # "Describing"
        /\ conv.phase = "Refusing" => next.step.conclusion = EndedEarly(conv.refusal)
        /\ next.step.conclusion = Closed => conv.phase = "ShuttingDown"
        /\ next.step.conclusion = Described => conv.phase = "Describing"
    <3> HIDE DEF next
    <3> QED BY <1>6, <2>1, RepliedAgrees
  <2>3. conv.phase = "ShuttingDown" => last = "shutdown"
    BY <1>1, <1>6 DEF Led
  <2> HIDE DEF next, taken
  <2> QED BY <1>1, <1>6, <2>1, <2>2, <2>3 DEF next, taken, Stands
<1>7. CASE /\ conv.pending # 0 /\ message.kind \notin {"oversized", "notification"}
           /\ ~IsReplyTo(conv.pending, message)
  <2>1. next = fault("unexpected_response") /\ taken = answered
    BY <1>7 DEF received
  <2> HIDE DEF next, taken, fault
  <2>2. /\ Silent(next) /\ Concludes(next) /\ Stands(next, conv)
        /\ next.step.conclusion \notin {Closed, Described}
    BY <1>2, <2>1
  <2> QED BY <2>1, <2>2, SilentAgrees DEF Silent, next, taken
<1> QED BY <1>3, <1>4, <1>5, <1>6, <1>7

-----------------------------------------------------------------------------
(* The history and the tasks. *)

LEMMA CountTypes ==
  ASSUME TypeOK
  PROVE  /\ Requests \in Seq(Sent) /\ Len(Requests) \in Nat /\ Len(accepted) \in Nat
         /\ Interrupts = {} <=> ~requested /\ ~expired
BY RequestsOfType DEF TypeOK, Requests, Interrupts

(* One task at a time is in an exchange that decides anything.             *)
LEMMA OneActive ==
  ASSUME TypeOK, SessionInv, NEW t \in Tasks, NEW u \in Tasks, Active(t), Active(u)
  PROVE  t = u
<1>1. CASE opened
  BY <1>1 DEF SessionInv, BusyIsHeld, Active
<1>2. CASE ~opened
  BY <1>2 DEF SessionInv, OpenerFirst, Active, Exchanging, Others
<1> QED BY <1>1, <1>2 DEF TypeOK

LEMMA DrivingIsActive ==
  ASSUME TypeOK, SessionInv, NEW t \in Tasks,
         pc[t] \in {"writing", "reading", "paused", "ending", "grace"}
  PROVE  Active(t)
BY DEF SessionInv, BusyIsHeld, Active, Exchanging, Others, Tasks

(* What the driver leaves a task with. *)
LEMMA DriveAgrees ==
  ASSUME TypeOK, NEW t \in Tasks, NEW next \in Moves, Concludes(next), Drive(t, next),
         then'[t] # "abandon",
         next.step.conclusion = Closed => ShutdownAnswered',
         opened' => next.conv.phase # "Describing" /\ next.step.conclusion # Described
  PROVE  /\ StepAgrees(t)'
         /\ pc'[t] = "writing" => Interrupts = {}
         /\ local'[t] = next \/ Silent(local'[t])
         /\ pc'[t] \in {"writing", "reading", "ending", "paused"}
         /\ \A u \in Tasks \ {t} : pc'[u] = pc[u] /\ local'[u] = local[u]
<1> DEFINE now == local'[t]
<1>1. /\ now = Entered(next) /\ pc'[t] = PointOf(now.step)
      /\ pc'[t] \in {"writing", "reading", "ending", "paused"}
      /\ \A u \in Tasks \ {t} : pc'[u] = pc[u] /\ local'[u] = local[u]
  BY DriveType DEF Drive, TypeOK
<1>2. /\ now = next \/ Silent(now)
      /\ Concludes(now) /\ Keeps(now, next)
      /\ Interrupts # {} => now.step.send = NoMessage
  BY <1>1, EnteredEnds
<1>3. /\ pc'[t] = "writing" => now.step.send # NoMessage
      /\ pc'[t] \in {"reading", "paused"} => now.step.send = NoMessage
      /\ pc'[t] = "ending" => now.step.then = "finished"
  BY <1>1 DEF PointOf
<1>4. now.step.conclusion = Closed => ShutdownAnswered'
  BY <1>2, ConclusionsDiffer DEF Keeps
<1>5. opened' => now.conv.phase # "Describing" /\ now.step.conclusion # Described
  BY <1>2, ConclusionsDiffer DEF Keeps, Silent
<1> HIDE DEF now
<1>6. StepAgrees(t)'
  BY <1>1, <1>2, <1>3, <1>4, <1>5 DEF StepAgrees, Concluding, now
<1> QED BY <1>1, <1>2, <1>3, <1>6 DEF now

(* A step of one task that writes nothing and accepts nothing.             *)
LEMMA TaskKeepsHistory ==
  ASSUME TypeOK, TypeOK', SessionInv, SessionInv', HistoryInv, NEW t \in Tasks,
         UNCHANGED <<wire, overrun, accepted, requested, expired>>,
         stop' = NoStop => stop = NoStop,
         \A u \in Tasks \ {t} :
           pc'[u] = pc[u] /\ local'[u] = local[u] /\ then'[u] = then[u],
         StepAgrees(t)',
         Active(t)' /\ stop' = NoStop => AgreesWithWire(local'[t].conv, local'[t].step.send),
         pc'[t] = "writing" => Interrupts = {},
         pc'[t] # "idle" \/ pc[t] = "idle",
         opened' # opened => t = Opener,
         opened' /\ busy' = NoTask /\ stop' = NoStop => AgreesWithWire(conversation', NoMessage),
         report' # NoReport /\ report'.ending = NoEnding => ShutdownAnswered
  PROVE  HistoryInv'
<1>1. /\ Requests' = Requests /\ Last' = Last /\ Operations' = Operations
      /\ ShutdownAnswered' <=> ShutdownAnswered
      /\ Interrupts' = Interrupts
  BY DEF Requests, Last, Operations, ShutdownAnswered, Interrupts
<1>2. LockStep' /\ LastTells' /\ QuietAfterInterrupt'
  BY <1>1 DEF HistoryInv, LockStep, LastTells, QuietAfterInterrupt
<1>3. CleanMeansAnswered'
  BY <1>1 DEF CleanMeansAnswered
<1>4. \A u \in Tasks \ {t} : (Active(u)' <=> Active(u)) /\ (Concluding(u)' <=> Concluding(u))
  BY DEF Active, Exchanging, Concluding
<1>5. ASSUME NEW u \in Tasks \ {t} PROVE StepAgrees(u)'
  <2>1. Active(u) => opened' = opened
    <3> SUFFICES ASSUME Active(u), opened' # opened PROVE FALSE
      OBVIOUS
    <3>1. u \in Others /\ pc[u] # "idle" /\ pc'[u] = pc[u]
      BY DEF Others, Active, Exchanging
    <3>2. ~opened \/ ~opened'
      BY DEF TypeOK
    <3> QED BY <3>1, <3>2 DEF SessionInv, OpenerFirst, Others
  <2>2. StepAgrees(u)
    BY DEF HistoryInv
  <2> QED BY <1>1, <1>4, <2>1, <2>2 DEF StepAgrees
<1>6. WireAgrees'
  <2>1. pc'[Opener] = "idle" => wire' = <<>> /\ accepted' = <<>>
    <3>1. Opener \in Tasks
      BY DEF Tasks
    <3> QED BY <3>1 DEF HistoryInv, WireAgrees
  <2>2. ASSUME stop' = NoStop, NEW u \in Tasks, Active(u)'
        PROVE  AgreesWithWire(local[u].conv, local[u].step.send)'
    <3>1. CASE u = t
      BY <1>1, <2>2, <3>1 DEF AgreesWithWire
    <3>2. CASE u # t
      BY <1>1, <1>4, <2>2, <3>2 DEF AgreesWithWire, HistoryInv, WireAgrees
    <3> QED BY <3>1, <3>2
  <2>3. opened' /\ busy' = NoTask /\ stop' = NoStop =>
          AgreesWithWire(conversation, NoMessage)'
    BY <1>1 DEF AgreesWithWire
  <2> QED BY <2>1, <2>2, <2>3 DEF WireAgrees
<1>7. LastOverrun'
  BY <1>1 DEF HistoryInv, LastOverrun
<1> QED BY <1>2, <1>3, <1>5, <1>6, <1>7 DEF HistoryInv

(* The task only drives its exchange: a failure or an interrupt.            *)
LEMMA FailKeepsHistory ==
  ASSUME TypeOK, TypeOK', SessionInv, SessionInv', HistoryInv, NEW t \in Tasks,
         SendFails(t) \/ ReceiveFails(t) \/ Interrupt(t) \/ FrameFaulted(t)
  PROVE  HistoryInv'
<1> USE DEF session, channel, clock, history, driver
<1>1. PICK event : Drive(t, Fail(local[t], event))
  BY DEF SendFails, ReceiveFails, Interrupt, FrameFaulted
<1>2. /\ Active(t) /\ then'[t] # "abandon" /\ pc[t] # "idle"
      /\ UNCHANGED <<wire, overrun, accepted, requested, expired, stop, then, opened, busy,
                    conversation, report>>
  <2>1. UNCHANGED <<wire, overrun, accepted, requested, expired, stop, then, opened, busy,
                    conversation, report>>
    BY DEF SendFails, ReceiveFails, Interrupt, FrameFaulted
  <2>2. CASE pc[t] \in {"writing", "reading"}
    BY <2>1, <2>2, DrivingIsActive DEF HistoryInv, StepAgrees
  <2>3. CASE pc[t] = "stopped" /\ then[t] \in ChannelErrors
    BY <2>1, <2>3 DEF Active, Exchanging, ChannelErrors
  <2> QED BY <2>2, <2>3 DEF SendFails, ReceiveFails, Interrupt, FrameFaulted
<1>3. local[t] \in Moves /\ StepAgrees(t) /\ Concludes(local[t])
  BY DEF TypeOK, HistoryInv, StepAgrees
<1> DEFINE next == Fail(local[t], event)
<1>4. /\ next \in Moves /\ Silent(next) /\ Concludes(next) /\ Keeps(next, local[t])
  BY <1>3, FailType, AfterType, FailEnds
<1>5. ShutdownAnswered' <=> ShutdownAnswered
  BY <1>2 DEF ShutdownAnswered, Requests
<1>6. next.step.conclusion = Closed => ShutdownAnswered'
  BY <1>2, <1>3, <1>4, <1>5, ConclusionsDiffer DEF Keeps, StepAgrees
<1>7. opened' => next.conv.phase # "Describing" /\ next.step.conclusion # Described
  BY <1>2, <1>3, <1>4, ConclusionsDiffer DEF Keeps, StepAgrees, Silent
<1> HIDE DEF next
<1>8. /\ StepAgrees(t)'
      /\ pc'[t] = "writing" => Interrupts = {}
      /\ Silent(local'[t]) /\ pc'[t] # "idle"
      /\ \A u \in Tasks \ {t} : pc'[u] = pc[u] /\ local'[u] = local[u]
  BY <1>1, <1>2, <1>4, <1>6, <1>7, DriveAgrees DEF next
<1>9. AgreesWithWire(local'[t].conv, local'[t].step.send)
  BY <1>8, SilentAgrees DEF AgreesWithWire
<1>10. opened' /\ busy' = NoTask /\ stop' = NoStop => AgreesWithWire(conversation', NoMessage)
  BY <1>2 DEF HistoryInv, WireAgrees
<1>11. report' # NoReport /\ report'.ending = NoEnding => ShutdownAnswered
  BY <1>2 DEF HistoryInv, CleanMeansAnswered
<1> QED BY <1>2, <1>8, <1>9, <1>10, <1>11, TaskKeepsHistory

(* The task goes on to stop the worker, or is cancelled in its exchange.   *)
LEMMA StopKeepsHistory ==
  ASSUME TypeOK, TypeOK', SessionInv, SessionInv', HistoryInv, NEW t \in Tasks,
         FrameFault(t) \/ StopWorker(t) \/ GraceEnds(t) \/ TakeLock(t) \/ Kill(t)
         \/ CancelDrive(t) \/ CancelGrace(t) \/ CancelFinish(t)
  PROVE  HistoryInv'
<1> USE DEF session, channel, clock, history, driver
<1>1. /\ UNCHANGED <<wire, overrun, accepted, requested, expired, local, opened, busy,
                     conversation, report>>
      /\ stop' = NoStop => stop = NoStop
      /\ \A u \in Tasks \ {t} : pc'[u] = pc[u] /\ then'[u] = then[u]
      /\ pc'[t] \in {"grace", "lock", "killing", "stopped"} /\ pc[t] # "idle"
  <2>1. CASE Kill(t)
    BY <2>1, StatusType DEF Kill, SessionInv, StopIsOwned, TypeOK
  <2>2. CASE ~Kill(t)
    BY <2>2 DEF FrameFault, StopWorker, GraceEnds, TakeLock, CancelDrive, CancelGrace,
                CancelFinish, Abort, TypeOK
  <2> QED BY <2>1, <2>2
<1>2. /\ Active(t)' => Active(t)
      /\ then'[t] # "abandon"
      /\ Concluding(t)' => Concluding(t)
  <2>1. StepAgrees(t)
    BY DEF HistoryInv
  <2>2. CASE FrameFault(t) \/ CancelDrive(t) \/ StopWorker(t)
    <3>1. Active(t)
      BY <2>2, DrivingIsActive DEF FrameFault, CancelDrive, StopWorker
    <3>2. then'[t] # "abandon"
      BY <2>2, ConfigAssumption DEF FrameFault, CancelDrive, StopWorker, Abort, TypeOK
    <3>3. StopWorker(t) => Concluding(t)
      BY DEF StopWorker, Concluding
    <3>4. FrameFault(t) \/ CancelDrive(t) => ~Concluding(t)'
      BY <1>1 DEF FrameFault, CancelDrive, Abort, TypeOK, Concluding
    <3> QED BY <2>2, <3>1, <3>2, <3>3, <3>4
  <2>3. CASE GraceEnds(t) \/ TakeLock(t) \/ Kill(t) \/ CancelGrace(t) \/ CancelFinish(t)
    BY <2>1, <2>3
    DEF GraceEnds, TakeLock, Kill, CancelGrace, CancelFinish, Active, Exchanging, Concluding,
        TypeOK, StepAgrees
  <2> QED BY <2>2, <2>3
<1>3. ShutdownAnswered' <=> ShutdownAnswered
  BY <1>1 DEF ShutdownAnswered, Requests
<1>4. StepAgrees(t)'
  BY <1>1, <1>2, <1>3 DEF StepAgrees, HistoryInv
<1>5. Active(t)' /\ stop' = NoStop => AgreesWithWire(local'[t].conv, local'[t].step.send)
  BY <1>1, <1>2 DEF HistoryInv, WireAgrees
<1>6. opened' /\ busy' = NoTask /\ stop' = NoStop => AgreesWithWire(conversation', NoMessage)
  BY <1>1 DEF HistoryInv, WireAgrees
<1>7. report' # NoReport /\ report'.ending = NoEnding => ShutdownAnswered
  BY <1>1 DEF HistoryInv, CleanMeansAnswered
<1> QED BY <1>1, <1>4, <1>5, <1>6, <1>7, TaskKeepsHistory

(* A task leaves its exchange, or takes a step outside of one.             *)
LEMMA RestKeepsHistory ==
  ASSUME TypeOK, TypeOK', SessionInv, SessionInv', HistoryInv, NEW t \in Tasks,
         UNCHANGED <<wire, overrun, accepted, requested, expired, stop, local, then>>,
         pc'[t] \in {"done", "body", "unwinding", "waiting"},
         pc'[t] # "done" => local[t].conv.phase # "Refusing",
         \A u \in Tasks \ {t} : pc'[u] = pc[u],
         opened' # opened => t = Opener,
         opened' /\ busy' = NoTask /\ stop = NoStop => AgreesWithWire(conversation', NoMessage),
         report' # NoReport /\ report'.ending = NoEnding => ShutdownAnswered
  PROVE  HistoryInv'
<1>1. StepAgrees(t)
  BY DEF HistoryInv
<1>2. ~Active(t)' /\ ~Concluding(t)'
  BY DEF Active, Exchanging, Concluding
<1>3. StepAgrees(t)'
  BY <1>1, <1>2 DEF StepAgrees
<1>4. stop' = NoStop => stop = NoStop
  OBVIOUS
<1>5. \A u \in Tasks \ {t} : pc'[u] = pc[u] /\ local'[u] = local[u] /\ then'[u] = then[u]
  OBVIOUS
<1>6. pc'[t] # "writing" /\ pc'[t] # "idle"
  OBVIOUS
<1> QED BY <1>2, <1>3, <1>4, <1>5, <1>6, TaskKeepsHistory

LEMMA PauseKeepsHistory ==
  ASSUME TypeOK, TypeOK', SessionInv, SessionInv', HistoryInv, NEW t \in Tasks, Pause(t)
  PROVE  HistoryInv'
<1> USE DEF session, channel, clock, history, driver
<1>1. /\ UNCHANGED <<wire, overrun, accepted, requested, expired, stop, local, then, report>>
      /\ pc'[t] \in {"done", "body"} /\ \A u \in Tasks \ {t} : pc'[u] = pc[u]
      /\ conversation' = local[t].conv /\ (opened' # opened => t = Opener)
  BY DEF Pause, Leave, TypeOK
<1>2. local[t].conv.phase # "Refusing" /\ local[t].step.send = NoMessage /\ Active(t)
  BY DrivingIsActive
  DEF Pause, SessionInv, PausesClosable, Resumable, Closable, HistoryInv, StepAgrees
<1>3. stop = NoStop => AgreesWithWire(conversation', NoMessage)
  BY <1>1, <1>2 DEF HistoryInv, WireAgrees
<1>4. report' # NoReport /\ report'.ending = NoEnding => ShutdownAnswered
  BY <1>1 DEF HistoryInv, CleanMeansAnswered
<1> QED BY <1>1, <1>2, <1>3, <1>4, RestKeepsHistory

(* A session reports no ending only after the worker answered `shutdown`.  *)
LEMMA SettleKeepsHistory ==
  ASSUME TypeOK, TypeOK', SessionInv, SessionInv', HistoryInv, NEW t \in Tasks, Settle(t)
  PROVE  HistoryInv'
<1> USE DEF session, channel, clock, history, driver
<1>1. /\ UNCHANGED <<wire, overrun, accepted, requested, expired, stop, local, then, opened>>
      /\ pc'[t] = "done" /\ \A u \in Tasks \ {t} : pc'[u] = pc[u]
      /\ pc[t] = "stopped" /\ stop # NoStop
  BY DEF Settle, OpenerSettles, Leave, TypeOK, SessionInv, StopIsOwned
<1>2. /\ StepAgrees(t) /\ then[t] = "settle" /\ Active(t) /\ Concluding(t)
  BY <1>1 DEF Settle, HistoryInv, StepAgrees, Active, Exchanging, Concluding
<1>3. report' # NoReport /\ report'.ending = NoEnding => ShutdownAnswered
  <2>1. CASE t = Opener /\ ~opened
    BY <2>1 DEF Settle, HistoryInv, CleanMeansAnswered
  <2>2. CASE ~(t = Opener /\ ~opened)
    <3>1. opened
      BY <1>1, <2>2 DEF SessionInv, OpenerFirst, Others
    <3>2. report'.ending = local[t].step.conclusion.ending
      BY <1>2, <2>2 DEF Settle, SessionReport
    <3>3. report'.ending = NoEnding => local[t].step.conclusion \in {Described, Closed}
      BY <1>2, <3>2 DEF StepAgrees, Concludes
    <3> QED BY <1>2, <3>1, <3>3 DEF StepAgrees
  <2> QED BY <2>1, <2>2
<1> QED BY <1>1, <1>3, RestKeepsHistory

LEMMA RaiseKeepsHistory ==
  ASSUME TypeOK, TypeOK', SessionInv, SessionInv', HistoryInv, NEW t \in Tasks, Raise(t)
  PROVE  HistoryInv'
<1> USE DEF session, channel, clock, history, driver
<1>1. /\ UNCHANGED <<wire, overrun, accepted, requested, expired, stop, local, then, opened,
                     report>>
      /\ pc'[t] = "done" /\ \A u \in Tasks \ {t} : pc'[u] = pc[u]
      /\ stop # NoStop
  BY DEF Raise, Leave, TypeOK, SessionInv, StopIsOwned
<1>2. report' # NoReport /\ report'.ending = NoEnding => ShutdownAnswered
  BY <1>1 DEF HistoryInv, CleanMeansAnswered
<1> QED BY <1>1, <1>2, RestKeepsHistory

(* A task starts to drive an exchange of the session.                      *)
LEMMA EnterKeepsHistory ==
  ASSUME TypeOK, TypeOK', SessionInv, SessionInv', HistoryInv, NEW t \in Tasks,
         UNCHANGED <<wire, overrun, accepted, requested, expired, stop, then, opened, report>>,
         NEW next \in Moves, Drive(t, next), Concludes(next),
         next.step.conclusion = NoConclusion,
         opened => next.conv.phase # "Describing" /\ busy' = t,
         stop = NoStop => AgreesWithWire(next.conv, next.step.send)
  PROVE  HistoryInv'
<1>1. then'[t] # "abandon"
  BY DEF HistoryInv, StepAgrees
<1>2. opened' => next.conv.phase # "Describing" /\ next.step.conclusion # Described
  BY ConclusionsDiffer
<1>3. next.step.conclusion = Closed => ShutdownAnswered'
  BY ConclusionsDiffer
<1>4. /\ StepAgrees(t)'
      /\ pc'[t] = "writing" => Interrupts = {}
      /\ local'[t] = next \/ Silent(local'[t])
      /\ pc'[t] \in {"writing", "reading", "ending", "paused"}
      /\ \A u \in Tasks \ {t} : pc'[u] = pc[u] /\ local'[u] = local[u]
  BY <1>1, <1>2, <1>3, DriveAgrees
<1>5. stop = NoStop => AgreesWithWire(local'[t].conv, local'[t].step.send)
  BY <1>4, SilentAgrees DEF AgreesWithWire
<1>6. stop' = NoStop => stop = NoStop
  OBVIOUS
<1>7. \A u \in Tasks \ {t} : pc'[u] = pc[u] /\ local'[u] = local[u] /\ then'[u] = then[u]
  BY <1>4
<1>8. opened' => busy' # NoTask
  BY TasksAssumption
<1>9. report' # NoReport /\ report'.ending = NoEnding => ShutdownAnswered
  BY DEF HistoryInv, CleanMeansAnswered
<1>10. opened' = opened /\ pc'[t] # "idle"
  BY <1>4
<1> QED BY <1>4, <1>5, <1>6, <1>7, <1>8, <1>9, <1>10, TaskKeepsHistory

(* A call and a close start an exchange, whatever the state of the worker. *)
LEMMA CallerConcludes ==
  ASSUME NEW conv \in Conversations, NEW next \in {call(conv), close(conv)}
  PROVE  /\ next \in Moves /\ Concludes(next) /\ next.step.conclusion = NoConclusion
         /\ next.conv.phase \in {"Calling", "ShuttingDown"}
<1>1. next \in Moves
  BY CallTypes
<1>2. next.conv.phase \in {"Calling", "ShuttingDown"}
  <2>1. CASE next = call(conv)
    <3>1. next.conv = [conv EXCEPT !.phase = "Calling", !.pending = conv.next_id,
                                   !.next_id = conv.next_id + 1]
      BY <2>1 DEF call
    <3> QED BY <3>1 DEF Conversations
  <2>2. CASE next = close(conv)
    BY <2>2 DEF close, shutdown
  <2> QED BY <2>1, <2>2
<1>3. next.step.then = "exchange" /\ next.step.conclusion = NoConclusion
  BY DEF call, close, shutdown, Exchange
<1>4. Concludes(next)
  BY <1>2, <1>3, ConclusionsDiffer DEF Concludes
<1> QED BY <1>1, <1>2, <1>3, <1>4

LEMMA CallKeepsHistory ==
  ASSUME TypeOK, TypeOK', SessionInv, SessionInv', HistoryInv, NEW t \in Callers, Call(t)
  PROVE  HistoryInv'
<1> USE DEF session, channel, clock, history, driver
<1>1. /\ t \in Tasks /\ opened
      /\ UNCHANGED <<wire, overrun, accepted, requested, expired, stop, then, opened, report,
                     conversation>>
  BY DEF Call, InBody, Tasks
<1>2. report' # NoReport /\ report'.ending = NoEnding => ShutdownAnswered
  BY <1>1 DEF HistoryInv, CleanMeansAnswered
<1>3. CASE /\ UNCHANGED <<local, busy>>
           /\ \/ Leave(t, Unavailable)
              \/ Leave(t, Outcome("answered", refuse(conversation).step.answer, NoReport))
  <2>1. pc'[t] = "done" /\ \A u \in Tasks \ {t} : pc'[u] = pc[u]
    BY <1>1, <1>3 DEF Leave, TypeOK
  <2>2. opened /\ busy = NoTask /\ stop = NoStop => AgreesWithWire(conversation, NoMessage)
    BY DEF HistoryInv, WireAgrees
  <2> QED BY <1>1, <1>2, <1>3, <2>1, <2>2, RestKeepsHistory
<1>4. CASE /\ busy' = t /\ Drive(t, call(conversation)) /\ Callable(conversation)
           /\ busy = NoTask
  <2>1. conversation \in Conversations /\ Len(Requests) \in Nat /\ Len(accepted) \in Nat
    BY CountTypes DEF TypeOK
  <2> DEFINE next == call(conversation)
  <2>2. /\ next \in Moves /\ Concludes(next) /\ next.step.conclusion = NoConclusion
        /\ next.conv.phase # "Describing"
    BY <2>1, CallerConcludes
  <2>3. stop = NoStop => AgreesWithWire(next.conv, next.step.send)
    BY <1>1, <1>4, <2>1, CallAgrees DEF HistoryInv, WireAgrees, AgreesWithWire
  <2> HIDE DEF next
  <2>4. Drive(t, next)
    BY <1>4 DEF next
  <2> QED BY <1>1, <1>4, <2>2, <2>3, <2>4, EnterKeepsHistory
<1> QED BY <1>3, <1>4 DEF Call

LEMMA CloseKeepsHistory ==
  ASSUME TypeOK, TypeOK', SessionInv, SessionInv', HistoryInv, NEW t \in Tasks, Close(t)
  PROVE  HistoryInv'
<1> USE DEF session, channel, clock, history, driver
<1>1. /\ opened /\ busy = NoTask
      /\ UNCHANGED <<wire, overrun, accepted, requested, expired, stop, opened, report,
                     conversation>>
  BY DEF Close, SessionInv, OpenerFirst, Others
<1>2. report' # NoReport /\ report'.ending = NoEnding => ShutdownAnswered
  BY <1>1 DEF HistoryInv, CleanMeansAnswered
<1>3. stop = NoStop => AgreesWithWire(conversation, NoMessage)
  BY <1>1 DEF HistoryInv, WireAgrees
<1>4. CASE report # NoReport
  <2>1. /\ pc'[t] = "done" /\ UNCHANGED <<local, then>>
        /\ \A u \in Tasks \ {t} : pc'[u] = pc[u]
    BY <1>4 DEF Close, Leave, TypeOK
  <2> QED BY <1>1, <1>2, <1>3, <2>1, RestKeepsHistory
<1>5. CASE report = NoReport
  <2>1. Closable(conversation)
    BY <1>1, <1>5 DEF SessionInv, PausesClosable
  <2>2. busy' = t /\ Drive(t, close(conversation)) /\ UNCHANGED then
    BY <1>5, <2>1 DEF Close
  <2>3. conversation \in Conversations /\ Len(Requests) \in Nat /\ Len(accepted) \in Nat
    BY CountTypes DEF TypeOK
  <2> DEFINE next == close(conversation)
  <2>4. /\ next \in Moves /\ Concludes(next) /\ next.step.conclusion = NoConclusion
        /\ next.conv.phase # "Describing"
    BY <2>3, CallerConcludes
  <2>5. stop = NoStop => AgreesWithWire(next.conv, next.step.send)
    BY <1>3, <2>1, <2>3, CloseAgrees DEF AgreesWithWire
  <2> HIDE DEF next
  <2>6. Drive(t, next)
    BY <2>2 DEF next
  <2> QED BY <1>1, <2>2, <2>4, <2>5, <2>6, EnterKeepsHistory
<1> QED BY <1>4, <1>5

(* The first message of the worker's life is describe or initialize.       *)
LEMMA OpensKeepsHistory ==
  ASSUME TypeOK, TypeOK', SessionInv, SessionInv', HistoryInv, Opens
  PROVE  HistoryInv'
<1> USE DEF session, channel, clock, history, driver
<1>1. /\ Opener \in Tasks /\ pc[Opener] = "idle" /\ ~opened
      /\ UNCHANGED <<wire, overrun, accepted, requested, expired, stop, opened, report, then,
                     conversation, busy>>
  BY DEF Opens, Start, StartFails, SessionInv, OpenerFirst, Tasks
<1>2. CASE StartFails
  <2>1. pc'[Opener] = "done" /\ UNCHANGED local /\ \A u \in Tasks \ {Opener} : pc'[u] = pc[u]
    BY <1>1, <1>2 DEF StartFails, Leave, TypeOK
  <2>2. report' # NoReport /\ report'.ending = NoEnding => ShutdownAnswered
    BY <1>1 DEF HistoryInv, CleanMeansAnswered
  <2> QED BY <1>1, <2>1, <2>2, RestKeepsHistory
<1>3. CASE Start
  <2>1. PICK next \in {probe, activate} : Drive(Opener, next)
    BY <1>3 DEF Start
  <2>2. Last = "start" /\ Len(Requests) = 0 /\ Len(accepted) = 0
    <3>1. wire = <<>> /\ accepted = <<>>
      BY <1>1 DEF HistoryInv, WireAgrees
    <3> QED BY <3>1, RequestsOfNothing DEF Last, Requests
  <2>3. next \in Moves
    BY <2>1, StartTypes
  <2>4. /\ AgreesWithWire(next.conv, next.step.send)
        /\ Concludes(next) /\ next.step.conclusion = NoConclusion
    BY <2>1, <2>2, StartAgrees DEF AgreesWithWire
  <2> QED BY <1>1, <2>1, <2>3, <2>4, EnterKeepsHistory
<1> QED BY <1>2, <1>3 DEF Opens

(* Waiting, leaving without an exchange, and the scope of with_session.    *)
LEMMA ScopeKeepsHistory ==
  ASSUME TypeOK, TypeOK', SessionInv, SessionInv', HistoryInv,
         \/ \E t \in Closers : StartClose(t)
         \/ \E t \in Tasks : CancelWait(t)
         \/ BodyReturns \/ CancelBody
  PROVE  HistoryInv'
<1> USE DEF session, channel, clock, history, driver
<1>1. PICK t \in Tasks :
        /\ pc'[t] \in {"done", "waiting", "unwinding"}
        /\ pc[t] \in {"idle", "waiting", "body"}
        /\ \A u \in Tasks \ {t} : pc'[u] = pc[u]
  <2>1. \A t \in Closers : t \in Tasks /\ (StartClose(t) => pc' = [pc EXCEPT ![t] = "waiting"])
    BY DEF StartClose, Tasks
  <2>2. Opener \in Tasks
    BY DEF Tasks
  <2> QED BY <2>1, <2>2 DEF StartClose, CancelWait, Leave, BodyReturns, CancelBody, TypeOK
<1>2. UNCHANGED <<wire, overrun, accepted, requested, expired, stop, local, then, opened,
                  report, conversation, busy>>
  BY DEF StartClose, CancelWait, BodyReturns, CancelBody
<1>3. local[t].conv.phase # "Refusing"
  BY <1>1 DEF HistoryInv, StepAgrees
<1>4. opened' /\ busy' = NoTask /\ stop = NoStop => AgreesWithWire(conversation', NoMessage)
  BY <1>2 DEF HistoryInv, WireAgrees
<1>5. report' # NoReport /\ report'.ending = NoEnding => ShutdownAnswered
  BY <1>2 DEF HistoryInv, CleanMeansAnswered
<1> QED BY <1>1, <1>2, <1>3, <1>4, <1>5, RestKeepsHistory

(* Session::cancel reports a cancelled session.                            *)
LEMMA CancelKeepsHistory ==
  ASSUME TypeOK, TypeOK', SessionInv, SessionInv', HistoryInv,
         SessionCancel \/ SessionCancelled
  PROVE  HistoryInv'
<1> USE DEF session, channel, clock, history, driver
<1>1. Opener \in Tasks
  BY DEF Tasks
<1>2. /\ UNCHANGED <<wire, overrun, accepted, requested, expired, stop, local, opened,
                     conversation, busy>>
      /\ \A u \in Tasks \ {Opener} : pc'[u] = pc[u] /\ then'[u] = then[u]
  BY <1>1 DEF SessionCancel, SessionCancelled, Leave, Abort, TypeOK
<1>3. opened' /\ busy' = NoTask /\ stop = NoStop => AgreesWithWire(conversation', NoMessage)
  BY <1>2 DEF HistoryInv, WireAgrees
<1>4. CASE SessionCancelled
  <2>1. pc'[Opener] = "done" /\ UNCHANGED then
    BY <1>1, <1>4 DEF SessionCancelled, Leave, TypeOK
  <2>2. report'.ending # NoEnding
    BY <1>4, ConclusionsDiffer DEF SessionCancelled, SessionReport
  <2> QED BY <1>1, <1>2, <1>3, <2>1, <2>2, RestKeepsHistory
<1>5. CASE SessionCancel
  <2>1. report' # NoReport /\ report'.ending = NoEnding => ShutdownAnswered
    BY <1>5 DEF SessionCancel, HistoryInv, CleanMeansAnswered
  <2>2. CASE report # NoReport
    <3>1. pc'[Opener] = "done" /\ UNCHANGED then
      BY <1>1, <1>5, <2>2 DEF SessionCancel, Leave, TypeOK
    <3> QED BY <1>1, <1>2, <1>3, <2>1, <3>1, RestKeepsHistory
  <2>3. CASE report = NoReport
    <3>1. pc'[Opener] \in {"stopped", "lock"} /\ then'[Opener] = "cancel"
      BY <1>1, <1>5, <2>3 DEF SessionCancel, Abort, TypeOK
    <3>2. StepAgrees(Opener)'
      BY <1>1, <1>2, <3>1 DEF HistoryInv, StepAgrees, Active, Concluding
    <3>3. /\ then'[Opener] # "abandon" /\ ~Active(Opener)' /\ opened' = opened
          /\ pc'[Opener] # "writing" /\ pc'[Opener] # "idle"
          /\ stop' = NoStop => stop = NoStop
          /\ \A u \in Tasks \ {Opener} :
               pc'[u] = pc[u] /\ local'[u] = local[u] /\ then'[u] = then[u]
      BY <1>2, <3>1 DEF Active
    <3>4. opened' /\ busy' = NoTask /\ stop' = NoStop => AgreesWithWire(conversation', NoMessage)
      BY <1>2, <1>3
    <3> QED BY <1>1, <1>2, <2>1, <3>2, <3>3, <3>4, TaskKeepsHistory
  <2> QED BY <2>2, <2>3
<1> QED BY <1>4, <1>5

(* The worker writes or leaves, the caller stops, time passes.             *)
LEMMA EnvironmentKeepsHistory ==
  ASSUME TypeOK, HistoryInv, Environment \/ UNCHANGED vars
  PROVE  HistoryInv'
<1> USE DEF session, channel, clock, history, driver
<1>1. UNCHANGED <<pc, local, then, opened, conversation, busy, report, stop, wire, overrun,
                  accepted>>
  BY DEF Environment, WorkerWrites, WorkerExits, RequestStop, Expire, vars
<1>2. Interrupts # {} => Interrupts' # {}
  BY DEF Environment, WorkerWrites, WorkerExits, RequestStop, Expire, vars, Interrupts, TypeOK
<1>3. /\ Requests' = Requests /\ Last' = Last /\ Operations' = Operations
      /\ ShutdownAnswered' <=> ShutdownAnswered
      /\ \A t \in Tasks : (Active(t)' <=> Active(t)) /\ (Concluding(t)' <=> Concluding(t))
  BY <1>1 DEF Requests, Last, Operations, ShutdownAnswered, Active, Exchanging, Concluding
<1>4. LockStep' /\ QuietAfterInterrupt' /\ CleanMeansAnswered' /\ LastTells'
  BY <1>1, <1>3
  DEF HistoryInv, LockStep, QuietAfterInterrupt, CleanMeansAnswered, LastTells
<1>5. WireAgrees'
  BY <1>1, <1>3 DEF HistoryInv, WireAgrees, AgreesWithWire
<1>6. \A t \in Tasks : StepAgrees(t)'
  BY <1>1, <1>3 DEF HistoryInv, StepAgrees
<1>7. LastOverrun'
  BY <1>1, <1>2 DEF HistoryInv, LastOverrun
<1> QED BY <1>4, <1>5, <1>6, <1>7 DEF HistoryInv

(* A step of the one task that is on the wire.                             *)
LEMMA WireKeepsHistory ==
  ASSUME TypeOK, TypeOK', SessionInv, SessionInv', HistoryInv, NEW t \in Tasks,
         pc[t] \in {"writing", "reading"}, stop = NoStop,
         UNCHANGED <<then, opened, busy, conversation, report, stop, requested, expired>>,
         \A u \in Tasks \ {t} : pc'[u] = pc[u] /\ local'[u] = local[u],
         LockStep', LastTells', QuietAfterInterrupt', StepAgrees(t)',
         AgreesWithWire(local[t].conv, local[t].step.send)',
         overrun' # 0 => Interrupts # {},
         overrun' # 0 => pc'[t] # "writing",
         pc'[t] \in {"writing", "reading", "ending", "paused"}
  PROVE  HistoryInv'
<1>1. Active(t) /\ \A u \in Tasks \ {t} : ~Active(u)
  BY DrivingIsActive, OneActive
<1>2. \A u \in Tasks \ {t} : ~Active(u)' /\ (Concluding(u)' <=> Concluding(u))
  BY <1>1 DEF Active, Exchanging, Concluding
<1>3. CleanMeansAnswered'
  BY DEF CleanMeansAnswered, SessionInv, ReportGivesTheStop
<1>4. ASSUME NEW u \in Tasks PROVE StepAgrees(u)'
  <2>1. CASE u = t
    BY <2>1
  <2>2. CASE u # t
    <3>1. StepAgrees(u) /\ u \in Tasks \ {t}
      BY <2>2 DEF HistoryInv
    <3> QED BY <1>2, <3>1 DEF StepAgrees
  <2> QED BY <2>1, <2>2
<1>5. WireAgrees'
  <2>1. pc'[Opener] # "idle"
    <3>1. CASE t = Opener
      BY <3>1
    <3>2. CASE t # Opener
      BY <3>2 DEF SessionInv, OpenerFirst, Others, Tasks, Idle
    <3> QED BY <3>1, <3>2
  <2>2. opened => busy # NoTask
    BY <1>1, TasksAssumption DEF SessionInv, BusyIsHeld, Active
  <2>3. \A u \in Tasks : Active(u)' => AgreesWithWire(local[u].conv, local[u].step.send)'
    BY <1>2
  <2> QED BY <2>1, <2>2, <2>3 DEF WireAgrees
<1>6. LastOverrun'
  <2>1. \A u \in Tasks \ {t} : pc'[u] # "writing"
    BY <1>1, DrivingIsActive
  <2>2. Interrupts' = Interrupts
    BY DEF Interrupts
  <2> QED BY <2>1, <2>2 DEF LastOverrun
<1> QED BY <1>3, <1>4, <1>5, <1>6 DEF HistoryInv

(* What one task accepts, and when.                                         *)
LEMMA ReceiveAccepts ==
  ASSUME TypeOK, SessionInv, HistoryInv, NEW t \in Tasks, Receive(t)
  PROVE  LET next == received(local[t].conv, Head(output)) IN
         /\ Agrees(next.conv, next.step.send, Last, Len(Requests), Len(accepted'))
         /\ Concludes(next) /\ Stands(next, local[t].conv) /\ next \in Moves
         /\ accepted' # accepted =>
              accepted' = Append(accepted, Len(Requests)) /\ Len(Requests) = Len(accepted')
         /\ next.step.conclusion = Closed =>
              Len(Requests) = Len(accepted') /\ Last = "shutdown"
         /\ next.step.conclusion = Described => local[t].conv.phase = "Describing"
         /\ next.conv.phase = "Describing" => local[t].conv.phase = "Describing"
<1> USE DEF session, channel, clock, history, driver
<1> DEFINE conv == local[t].conv
           message == Head(output)
           next == received(conv, message)
           taken == IF conv.pending # 0 /\ IsReplyTo(conv.pending, message)
                    THEN Len(accepted) + 1 ELSE Len(accepted)
<1>1. pc[t] = "reading" /\ stop = NoStop
  BY DEF Receive
<1>2. /\ local[t] \in Moves /\ conv \in Conversations
      /\ message \in Messages /\ Readable(message) /\ message.id \in Nat
      /\ Len(Requests) \in Nat /\ Len(accepted) \in Nat /\ accepted \in Seq(Nat)
  <2>1. message \in Messages
    BY DEF Receive, TypeOK
  <2> QED BY <2>1, MessagesReadable, CountTypes DEF TypeOK, Moves
<1>3. /\ StepAgrees(t) /\ Active(t) /\ local[t].step.send = NoMessage
      /\ Agrees(conv, NoMessage, Last, Len(Requests), Len(accepted))
  BY <1>1, DrivingIsActive DEF HistoryInv, StepAgrees, WireAgrees, AgreesWithWire
<1>4. conv.phase = "Refusing" => conv.refusal # NoEnding
  BY <1>3 DEF StepAgrees, Concludes
<1>5. /\ accepted' = IF taken = Len(accepted) THEN accepted ELSE Append(accepted, message.id)
      /\ taken # Len(accepted) => message.id = conv.pending
      /\ taken \in {Len(accepted), Len(accepted) + 1}
  BY <1>2 DEF Receive, IsReplyTo
<1> HIDE DEF next, taken, message
<1>6. /\ Agrees(next.conv, next.step.send, Last, Len(Requests), taken)
      /\ taken # Len(accepted) => Len(Requests) = taken /\ conv.phase \in Asking
      /\ Concludes(next) /\ Stands(next, conv)
      /\ next.step.conclusion = Closed =>
           conv.phase = "ShuttingDown" /\ Len(Requests) = taken /\ Last = "shutdown"
      /\ next.step.conclusion = Described => conv.phase = "Describing"
      /\ next.conv.phase = "Describing" => conv.phase = "Describing"
  <2> HIDE DEF conv
  <2> QED BY <1>2, <1>3, <1>4, ReceivedAgrees DEF next, taken
<1>7. Len(accepted') = taken
  BY <1>2, <1>5
<1>8. accepted' # accepted => accepted' = Append(accepted, Len(Requests))
  <2> SUFFICES ASSUME accepted' # accepted PROVE message.id = Len(Requests)
    BY <1>5
  <2>1. conv.pending = conv.next_id - 1 /\ conv.next_id = Len(Requests) + 1
    BY <1>3, <1>5, <1>6 DEF Agrees, Asking
  <2> QED BY <1>2, <1>5, <2>1
<1>9. next \in Moves
  BY <1>2, ReceivedType DEF next
<1> QED BY <1>5, <1>6, <1>7, <1>8, <1>9 DEF next, message

LEMMA ReceiveKeepsHistory ==
  ASSUME TypeOK, TypeOK', SessionInv, SessionInv', HistoryInv, NEW t \in Tasks, Receive(t)
  PROVE  HistoryInv'
<1> USE DEF session, channel, clock, history, driver
<1> DEFINE next == received(local[t].conv, Head(output))
<1>1. /\ pc[t] = "reading" /\ stop = NoStop /\ Drive(t, next)
      /\ UNCHANGED <<wire, overrun, requested, expired, stop, then, opened, busy,
                     conversation, report>>
  BY DEF Receive
<1>2. StepAgrees(t) /\ Active(t) /\ accepted \in Seq(Nat) /\ Len(Requests) \in Nat
  BY <1>1, DrivingIsActive, CountTypes DEF HistoryInv, TypeOK
<1>3. /\ Agrees(next.conv, next.step.send, Last, Len(Requests), Len(accepted'))
      /\ Concludes(next) /\ next \in Moves
      /\ accepted' # accepted =>
           accepted' = Append(accepted, Len(Requests)) /\ Len(Requests) = Len(accepted')
      /\ next.step.conclusion = Closed =>
           Len(Requests) = Len(accepted') /\ Last = "shutdown"
      /\ next.step.conclusion = Described => local[t].conv.phase = "Describing"
      /\ next.conv.phase = "Describing" => local[t].conv.phase = "Describing"
  BY ReceiveAccepts
<1> HIDE DEF next
<1>4. Requests' = Requests /\ Last' = Last /\ Operations' = Operations
  BY <1>1 DEF Requests, Last, Operations
<1>5. LockStep'
  <2>1. CASE accepted' = accepted
    BY <1>4, <2>1 DEF HistoryInv, LockStep
  <2>2. CASE accepted' # accepted
    <3>1. \A n \in 1..Len(accepted') : accepted'[n] = n
      BY <1>2, <1>3, <2>2 DEF HistoryInv, LockStep
    <3> QED BY <1>3, <1>4, <2>2, <3>1 DEF HistoryInv, LockStep
  <2> QED BY <2>1, <2>2
<1>6. LastTells' /\ QuietAfterInterrupt'
  BY <1>1, <1>4 DEF HistoryInv, LastTells, QuietAfterInterrupt
<1>7. next.step.conclusion = Closed => ShutdownAnswered'
  BY <1>3, <1>4 DEF HistoryInv, LastTells, ShutdownAnswered, Order!Requests
<1>8. opened' => next.conv.phase # "Describing" /\ next.step.conclusion # Described
  BY <1>1, <1>2, <1>3 DEF StepAgrees
<1>9. then'[t] # "abandon"
  BY <1>1, <1>2 DEF StepAgrees
<1>10. /\ StepAgrees(t)'
       /\ pc'[t] = "writing" => Interrupts = {}
       /\ local'[t] = next \/ Silent(local'[t])
       /\ pc'[t] \in {"writing", "reading", "ending", "paused"}
       /\ \A u \in Tasks \ {t} : pc'[u] = pc[u] /\ local'[u] = local[u]
  BY <1>1, <1>3, <1>7, <1>8, <1>9, DriveAgrees
<1>11. AgreesWithWire(local[t].conv, local[t].step.send)'
  BY <1>3, <1>4, <1>10, SilentAgrees DEF AgreesWithWire
<1>12. /\ overrun' # 0 => Interrupts # {}
       /\ overrun' # 0 => pc'[t] # "writing"
  BY <1>1, <1>10 DEF HistoryInv, LastOverrun
<1> QED BY <1>1, <1>5, <1>6, <1>10, <1>11, <1>12, WireKeepsHistory

(* What a task may be about to write. *)
LEMMA NextMessage ==
  ASSUME NEW conv \in Conversations, NEW message, message # NoMessage, NEW last \in DOMAIN Order!Follow,
         NEW asked \in Nat, NEW answered \in Nat, Agrees(conv, message, last, asked, answered)
  PROVE  /\ asked = answered
         /\ message.method \in Order!Follow[last] /\ message.method \in DOMAIN Order!Follow
         /\ IsRequest(message) <=> message.method \in Order!Requests
         /\ IsRequest(message) => message.id = asked + 1
         /\ message.method = "operation" => last = "initialized"
         /\ message.method \in {"describe", "initialize"} => last = "start"
         /\ message.method = "initialized" => last = "initialize"
         /\ message.method # "start"
         /\ conv.phase = "Over" => ~IsRequest(message)
<1>1. /\ message = Message(Led[conv.phase], IF conv.phase \in Asking THEN asked + 1 ELSE 0)
      /\ message.method \in Order!Follow[last] /\ asked = answered
      /\ conv.phase # "Called"
  BY DEF Agrees
<1>2. /\ message.method = Led[conv.phase]
      /\ message.id = IF conv.phase \in Asking THEN asked + 1 ELSE 0
  BY <1>1 DEF Message
<1>3. /\ message.method \in {"describe", "initialize", "initialized", "operation", "shutdown",
                             "exit"}
      /\ message.method = "operation" => last = "initialized"
      /\ message.method \in {"describe", "initialize"} => last = "start"
      /\ message.method = "initialized" => last = "initialize"
  BY <1>1 DEF Order!Follow
<1>4. message.method \in DOMAIN Order!Follow /\ message.method # "start"
  BY <1>3 DEF Order!Follow
<1>5. asked + 1 # 0
  OBVIOUS
<1>6. IsRequest(message) <=> conv.phase \in Asking
  BY <1>2, <1>5 DEF IsRequest
<1>7. conv.phase \in Asking <=> message.method \in Order!Requests
  <2>1. conv.phase \in Phases
    BY DEF Conversations
  <2> QED BY <1>1, <1>2, <2>1 DEF Led, Asking, Phases, Order!Requests
<1> QED BY <1>1, <1>2, <1>3, <1>4, <1>6, <1>7 DEF Asking

(* The operations on a wire that gets one more message.                    *)
LEMMA WireGrows ==
  ASSUME TypeOK, NEW message \in Sent, wire' = Append(wire, message)
  PROVE  /\ Requests' = IF IsRequest(message) THEN Append(Requests, message) ELSE Requests
         /\ Last' = message.method
         /\ Operations' = Operations \cup
              (IF message.method = "operation" THEN {Len(wire) + 1} ELSE {})
<1>1. wire \in Seq(Sent)
  BY DEF TypeOK
<1>2. Requests' = IF IsRequest(message) THEN Append(Requests, message) ELSE Requests
  BY <1>1, RequestsOfAppend DEF Requests
<1>3. /\ wire' # <<>> /\ Len(wire') = Len(wire) + 1 /\ Len(wire) \in Nat
      /\ wire'[Len(wire')] = message
      /\ \A n \in 1..Len(wire) : wire'[n] = wire[n]
  BY <1>1
<1>4. Last' = message.method
  BY <1>3 DEF Last
<1>5. Operations' = {n \in 1..Len(wire') : wire'[n].method = "operation"}
  BY DEF Operations
<1>6. 1..Len(wire') = 1..Len(wire) \cup {Len(wire) + 1} /\ wire'[Len(wire) + 1] = message
  BY <1>3
<1>7. Operations' = Operations \cup
        (IF message.method = "operation" THEN {Len(wire) + 1} ELSE {})
  BY <1>3, <1>5, <1>6 DEF Operations
<1> QED BY <1>2, <1>4, <1>7

(* What one task writes, and when.                                          *)
LEMMA SendWrites ==
  ASSUME TypeOK, SessionInv, HistoryInv, NEW t \in Tasks, Send(t)
  PROVE  LET message == local[t].step.send IN
         /\ Requests' = IF IsRequest(message) THEN Append(Requests, message) ELSE Requests
         /\ Last' = message.method
         /\ Operations' = Operations \cup
              (IF message.method = "operation" THEN {Len(wire) + 1} ELSE {})
         /\ Len(Requests) = Len(accepted)
         /\ message.method \in Order!Follow[Last]
         /\ message.method \in DOMAIN Order!Follow
         /\ IsRequest(message) <=> message.method \in Order!Requests
         /\ IsRequest(message) => message.id = Len(Requests) + 1
         /\ message.method = "operation" => Last = "initialized"
         /\ message.method \in {"describe", "initialize"} => Last = "start"
         /\ message.method = "initialized" => Last = "initialize"
         /\ message.method # "start"
         /\ local[t].conv.phase = "Over" => ~IsRequest(message)
<1> DEFINE message == local[t].step.send
<1>1. pc[t] = "writing" /\ stop = NoStop /\ wire' = Append(wire, message)
  BY DEF Send
<1>2. /\ local[t].conv \in Conversations /\ message \in Sent
      /\ Len(Requests) \in Nat /\ Len(accepted) \in Nat
  <2>1. local[t] \in Moves
    BY DEF TypeOK
  <2> QED BY <2>1, CountTypes DEF Moves, Steps
<1>3. /\ message # NoMessage
      /\ Agrees(local[t].conv, message, Last, Len(Requests), Len(accepted))
  BY <1>1, DrivingIsActive DEF HistoryInv, StepAgrees, WireAgrees, AgreesWithWire
<1>4. Last \in DOMAIN Order!Follow
  BY DEF HistoryInv, LastTells
<1> HIDE DEF message
<1>5. /\ Requests' = IF IsRequest(message) THEN Append(Requests, message) ELSE Requests
      /\ Last' = message.method
      /\ Operations' = Operations \cup
           (IF message.method = "operation" THEN {Len(wire) + 1} ELSE {})
  BY <1>1, <1>2, WireGrows
<1> QED BY <1>2, <1>3, <1>4, <1>5, NextMessage DEF message

LEMMA SendKeepsHistory ==
  ASSUME TypeOK, TypeOK', SessionInv, SessionInv', HistoryInv, NEW t \in Tasks, Send(t)
  PROVE  HistoryInv'
<1> USE DEF session, channel, clock, history, driver
<1> DEFINE message == local[t].step.send
           rest == [local[t] EXCEPT !.step.send = NoMessage]
           count == IF IsRequest(message) THEN Len(Requests) + 1 ELSE Len(Requests)
<1>1. /\ pc[t] = "writing" /\ stop = NoStop /\ wire' = Append(wire, message)
      /\ Drive(t, rest)
      /\ UNCHANGED <<accepted, requested, expired, stop, then, opened, busy, conversation,
                     report>>
      /\ overrun' = IF Interrupts = {} THEN 0 ELSE overrun + 1
  BY DEF Send
<1>2. /\ local[t] \in Moves /\ local[t].conv \in Conversations /\ message \in Sent
      /\ Len(Requests) \in Nat /\ Len(accepted) \in Nat /\ Requests \in Seq(Sent)
      /\ rest \in Moves
  <2>1. local[t] \in Moves
    BY DEF TypeOK
  <2> QED BY <2>1, CountTypes, SentType DEF TypeOK, Moves, Steps
<1>3. /\ StepAgrees(t) /\ Active(t) /\ message # NoMessage
      /\ Agrees(local[t].conv, message, Last, Len(Requests), Len(accepted))
  BY <1>1, DrivingIsActive DEF HistoryInv, StepAgrees, WireAgrees, AgreesWithWire
<1>5. /\ Requests' = IF IsRequest(message) THEN Append(Requests, message) ELSE Requests
      /\ Last' = message.method
      /\ Operations' = Operations \cup
           (IF message.method = "operation" THEN {Len(wire) + 1} ELSE {})
  BY SendWrites
<1>6. /\ Agrees(rest.conv, rest.step.send, message.method, count, Len(accepted))
      /\ rest.conv = local[t].conv /\ rest.step.send = NoMessage
      /\ rest.step.then = local[t].step.then
      /\ rest.step.conclusion = local[t].step.conclusion
  BY <1>2, <1>3, SendAgrees
<1>7. /\ Len(Requests) = Len(accepted)
      /\ message.method \in DOMAIN Order!Follow
      /\ IsRequest(message) <=> message.method \in Order!Requests
      /\ IsRequest(message) => message.id = Len(Requests) + 1
      /\ message.method = "operation" => Last = "initialized"
      /\ message.method \in {"describe", "initialize"} => Last = "start"
      /\ message.method = "initialized" => Last = "initialize"
      /\ message.method # "start"
      /\ local[t].conv.phase = "Over" => ~IsRequest(message)
  BY SendWrites
<1> HIDE DEF rest, message
<1>8. Len(Requests') = count
  BY <1>2, <1>5
<1>9. LockStep'
  <2>1. \A n \in 1..Len(Requests') : Requests'[n].id = n
    BY <1>2, <1>5, <1>7 DEF HistoryInv, LockStep
  <2>2. /\ Len(accepted') \in {Len(Requests'), Len(Requests') - 1}
        /\ \A n \in 1..Len(accepted') : accepted'[n] = n
    BY <1>1, <1>2, <1>7, <1>8 DEF HistoryInv, LockStep
  <2>3. Cardinality(Operations') <= 1
    <3>1. CASE message.method = "operation"
      <4>1. Operations' = {Len(wire) + 1}
        BY <1>5, <1>7, <3>1 DEF HistoryInv, LastTells
      <4>2. Cardinality({Len(wire) + 1}) = 1
        BY FS_Singleton
      <4> QED BY <4>1, <4>2
    <3>2. CASE message.method # "operation"
      BY <1>5, <3>2 DEF HistoryInv, LockStep
    <3> QED BY <3>1, <3>2
  <2> QED BY <2>1, <2>2, <2>3 DEF LockStep
<1>10. LastTells'
  <2>1. Last' \in Order!Requests =>
          Requests' # <<>> /\ Requests'[Len(Requests')].method = Last'
    BY <1>2, <1>5, <1>7
  <2>2. Last' \in {"start", "describe", "initialize", "initialized"} => Operations' = {}
    BY <1>5, <1>7 DEF HistoryInv, LastTells
  <2>3. Last' \in DOMAIN Order!Follow
    BY <1>5, <1>7
  <2> QED BY <2>1, <2>2, <2>3 DEF LastTells, Order!Requests, Order!Follow
<1>11. Concludes(rest)
  BY <1>3, <1>6 DEF StepAgrees, Concludes
<1>12. rest.step.conclusion = Closed => ShutdownAnswered'
  <2> SUFFICES ASSUME rest.step.conclusion = Closed PROVE ShutdownAnswered'
    OBVIOUS
  <2>1. ShutdownAnswered /\ ~IsRequest(message)
    BY <1>3, <1>6, <1>7, ConclusionsDiffer DEF StepAgrees, Concludes
  <2> QED BY <1>1, <1>5, <2>1 DEF ShutdownAnswered
<1>13. opened' => rest.conv.phase # "Describing" /\ rest.step.conclusion # Described
  BY <1>1, <1>3, <1>6 DEF StepAgrees
<1>14. then'[t] # "abandon"
  BY <1>1, <1>3 DEF StepAgrees
<1>15. /\ StepAgrees(t)'
       /\ pc'[t] = "writing" => Interrupts = {}
       /\ local'[t] = rest \/ Silent(local'[t])
       /\ pc'[t] \in {"writing", "reading", "ending", "paused"}
       /\ \A u \in Tasks \ {t} : pc'[u] = pc[u] /\ local'[u] = local[u]
  BY <1>1, <1>2, <1>11, <1>12, <1>13, <1>14, DriveAgrees
<1>16. AgreesWithWire(local[t].conv, local[t].step.send)'
  <2>1. /\ Last' = message.method /\ Len(Requests') = count /\ Len(accepted') = Len(accepted)
    BY <1>1, <1>5, <1>8
  <2> HIDE DEF count
  <2> QED BY <1>6, <1>15, <2>1, SilentAgrees DEF AgreesWithWire
<1>17. overrun = 0
  BY <1>1 DEF HistoryInv, LastOverrun
<1>18. QuietAfterInterrupt'
  BY <1>1, <1>17 DEF QuietAfterInterrupt
<1>19. /\ overrun' # 0 => Interrupts # {}
       /\ overrun' # 0 => pc'[t] # "writing"
  BY <1>1, <1>15
<1>20. pc[t] \in {"writing", "reading"}
  BY <1>1
<1> QED BY <1>1, <1>9, <1>10, <1>15, <1>16, <1>18, <1>19, <1>20, WireKeepsHistory

LEMMA InitHistory == Init => HistoryInv
<1> SUFFICES ASSUME Init PROVE HistoryInv
  OBVIOUS
<1>1. /\ wire = <<>> /\ accepted = <<>> /\ overrun = 0 /\ report = NoReport /\ ~opened
      /\ stop = NoStop
      /\ \A t \in Tasks : pc[t] = "idle" /\ then[t] = "settle"
      /\ \A t \in Tasks : local[t] = [conv |-> NoConversation, step |-> Exchange(NoMessage)]
  BY DEF Init
<1>2. /\ Requests = <<>> /\ Len(Requests) = 0 /\ Len(accepted) = 0
      /\ Last = "start" /\ Operations = {}
  <2>1. Requests = <<>>
    BY <1>1, RequestsOfNothing DEF Requests
  <2> QED BY <1>1, <2>1 DEF Last, Operations
<1>3. LockStep
  BY <1>1, <1>2, FS_EmptySet DEF LockStep
<1>4. QuietAfterInterrupt /\ CleanMeansAnswered /\ LastOverrun
  BY <1>1 DEF QuietAfterInterrupt, CleanMeansAnswered, LastOverrun
<1>5. WireAgrees /\ LastTells
  BY <1>1, <1>2
  DEF WireAgrees, LastTells, Active, Exchanging, Order!Requests, Order!Follow
<1>6. ASSUME NEW t \in Tasks PROVE StepAgrees(t)
  <2>1. /\ local[t].conv.phase = "Over" /\ local[t].step.then = "exchange"
        /\ local[t].step.conclusion = NoConclusion
    <3>1. NoConversation.phase = "Over"
      BY DEF NoConversation, probe
    <3>2. /\ Exchange(NoMessage).then = "exchange"
          /\ Exchange(NoMessage).conclusion = NoConclusion
      BY DEF Exchange
    <3> QED BY <1>1, <3>1, <3>2
  <2>2. Concludes(local[t])
    BY <2>1, ConclusionsDiffer DEF Concludes
  <2> QED BY <1>1, <2>1, <2>2 DEF StepAgrees, Active, Exchanging, Concluding
<1> QED BY <1>3, <1>4, <1>5, <1>6 DEF HistoryInv

LEMMA StepHistory ==
  TypeOK /\ TypeOK' /\ SessionInv /\ SessionInv' /\ HistoryInv /\ [Next]_vars => HistoryInv'
<1> SUFFICES ASSUME TypeOK, TypeOK', SessionInv, SessionInv', HistoryInv, [Next]_vars
             PROVE  HistoryInv'
  OBVIOUS
<1>1. ASSUME NEW t \in Tasks,
             Drives(t) \/ Stops_(t) \/ Finishes(t) \/ Cancels(t)
      PROVE  HistoryInv'
  <2>1. CASE Send(t) \/ Receive(t)
    BY <2>1, SendKeepsHistory, ReceiveKeepsHistory
  <2>2. CASE SendFails(t) \/ ReceiveFails(t) \/ Interrupt(t) \/ FrameFaulted(t)
    BY <2>2, FailKeepsHistory
  <2>3. CASE FrameFault(t) \/ Stops_(t) \/ CancelDrive(t) \/ CancelGrace(t) \/ CancelFinish(t)
    BY <2>3, StopKeepsHistory DEF Stops_
  <2>4. CASE Pause(t)
    BY <2>4, PauseKeepsHistory
  <2>5. CASE Finishes(t)
    BY <2>5, SettleKeepsHistory, RaiseKeepsHistory, CloseKeepsHistory DEF Finishes
  <2>6. CASE CancelWait(t)
    BY <2>6, ScopeKeepsHistory
  <2> QED BY <1>1, <2>1, <2>2, <2>3, <2>4, <2>5, <2>6 DEF Drives, Cancels
<1>2. ASSUME NEW t \in Callers, Call(t) PROVE HistoryInv'
  BY <1>2, CallKeepsHistory
<1>3. CASE Opens
  BY <1>3, OpensKeepsHistory
<1>4. CASE (\E t \in Closers : StartClose(t)) \/ BodyReturns \/ CancelBody
  BY <1>4, ScopeKeepsHistory
<1>5. CASE SessionCancel \/ SessionCancelled
  BY <1>5, CancelKeepsHistory
<1>6. CASE Environment \/ UNCHANGED vars
  BY <1>6, EnvironmentKeepsHistory
<1> QED BY <1>1, <1>2, <1>3, <1>4, <1>5, <1>6 DEF Next, Scope, Quiet

(* A step that starts an operation after a stop or the deadline ends the    *)
(* conversation, and a refusal stands.                                      *)
LEMMA EnteredStands ==
  ASSUME NEW next \in Moves, Concludes(next), NEW conv \in Conversations, Stands(next, conv)
  PROVE  Stands(Entered(next), conv)
<1> SUFFICES ASSUME NEW event PROVE Stands(Fail(next, event), conv)
  BY DEF Entered
<1>1. CASE next.step.then = "finished"
  <2> DEFINE quiet == [next EXCEPT !.step.send = NoMessage, !.step.plan = after(event)]
  <2>1. Fail(next, event) = quiet
    BY <1>1 DEF Fail
  <2>2. /\ quiet.conv = next.conv
        /\ quiet.step = [next.step EXCEPT !.send = NoMessage, !.plan = after(event)]
    BY DEF Moves
  <2>3. quiet.step.conclusion = next.step.conclusion
    BY <2>2 DEF Moves, Steps
  <2> HIDE DEF quiet
  <2> QED BY <2>1, <2>2, <2>3 DEF Stands
<1>2. CASE next.step.then # "finished"
  <2>1. conv.phase = "Refusing" => next.conv = conv
    <3>1. conv.refusal \in Endings
      BY DEF Conversations
    <3> QED BY <1>2, <3>1, ConclusionsDiffer DEF Stands, Concludes
  <2>2. Stands(Fail(next, event), next.conv)
    BY FailEnds
  <2> QED BY <2>1, <2>2 DEF Stands
<1> QED BY <1>1, <1>2

LEMMA RefusalStep ==
  ASSUME TypeOK, TypeOK', SessionInv, HistoryInv, Next, NEW u \in Tasks
  PROVE  Stands(local'[u], local[u].conv)
<1> USE DEF session, channel, clock, history, driver
<1>1. /\ local[u] \in Moves /\ local[u].conv \in Conversations /\ Concludes(local[u])
  BY DEF TypeOK, Moves, HistoryInv, StepAgrees
<1>2. local'[u] = local[u] => Stands(local'[u], local[u].conv)
  BY DEF Stands
<1>3. ASSUME NEW t \in Tasks, NEW next \in Moves, Drive(t, next), Concludes(next),
             Stands(next, local[t].conv)
      PROVE  Stands(local'[u], local[u].conv)
  <2>1. CASE u = t
    <3>1. local'[t] = Entered(next)
      BY <1>3, DriveType
    <3> QED BY <1>1, <1>3, <2>1, <3>1, EnteredStands
  <2>2. CASE u # t
    BY <1>2, <1>3, <2>2, DriveType
  <2> QED BY <2>1, <2>2
<1>4. ASSUME NEW t \in Tasks, Drives(t) PROVE Stands(local'[u], local[u].conv)
  <2>1. local[t] \in Moves /\ Concludes(local[t])
    BY DEF TypeOK, HistoryInv, StepAgrees
  <2>2. CASE Send(t)
    <3> DEFINE rest == [local[t] EXCEPT !.step.send = NoMessage]
    <3>1. rest \in Moves /\ Drive(t, rest)
      BY <2>1, <2>2, SentType DEF Send
    <3>2. /\ rest.conv = local[t].conv
          /\ rest.step = [local[t].step EXCEPT !.send = NoMessage]
      BY <2>1 DEF Moves
    <3>3. rest.step.then = local[t].step.then /\ rest.step.conclusion = local[t].step.conclusion
      BY <2>1, <3>2 DEF Moves, Steps
    <3> HIDE DEF rest
    <3>4. Concludes(rest) /\ Stands(rest, local[t].conv)
      BY <2>1, <3>2, <3>3 DEF Concludes, Stands
    <3> QED BY <1>3, <3>1, <3>4
  <2>3. CASE SendFails(t) \/ ReceiveFails(t) \/ Interrupt(t) \/ FrameFaulted(t)
    <3>1. PICK event : Drive(t, Fail(local[t], event))
      BY <2>3 DEF SendFails, ReceiveFails, Interrupt, FrameFaulted
    <3>2. /\ Fail(local[t], event) \in Moves /\ Concludes(Fail(local[t], event))
          /\ Stands(Fail(local[t], event), local[t].conv)
      BY <2>1, FailType, AfterType, FailEnds
    <3> QED BY <1>3, <3>1, <3>2
  <2>4. CASE Receive(t)
    <3> DEFINE next == received(local[t].conv, Head(output))
    <3>1. Drive(t, next)
      BY <2>4 DEF Receive
    <3>2. next \in Moves /\ Concludes(next) /\ Stands(next, local[t].conv)
      BY <2>4, ReceiveAccepts
    <3> HIDE DEF next
    <3> QED BY <1>3, <3>1, <3>2
  <2>5. CASE FrameFault(t) \/ Pause(t)
    BY <1>2, <2>5 DEF FrameFault, Pause
  <2> QED BY <1>4, <2>2, <2>3, <2>4, <2>5 DEF Drives
<1>5. ASSUME NEW t \in Tasks, pc[t] \in {"idle", "waiting"},
             NEW next \in {call(conversation), close(conversation), probe, activate},
             Drive(t, next)
      PROVE  Stands(local'[u], local[u].conv)
  <2>1. conversation \in Conversations
    BY DEF TypeOK
  <2>2. next \in Moves /\ Concludes(next)
    BY <2>1, CallerConcludes, StartAgrees, StartTypes
  <2>3. Stands(next, local[t].conv)
    BY <1>5 DEF HistoryInv, StepAgrees, Stands
  <2> QED BY <1>3, <1>5, <2>2, <2>3
<1>6. ASSUME NEW t \in Tasks, Close(t) PROVE Stands(local'[u], local[u].conv)
  BY <1>2, <1>5, <1>6 DEF Close
<1>7. ASSUME NEW t \in Callers, Call(t) PROVE Stands(local'[u], local[u].conv)
  <2>1. t \in Tasks
    BY DEF Tasks
  <2> QED BY <1>2, <1>5, <1>7, <2>1 DEF Call
<1>8. CASE Opens
  <2>1. Opener \in Tasks
    BY DEF Tasks
  <2> QED BY <1>2, <1>5, <1>8, <2>1 DEF Opens, Start, StartFails
<1>9. ASSUME NEW t \in Tasks, Stops_(t) \/ Settle(t) \/ Raise(t) \/ Cancels(t)
      PROVE  Stands(local'[u], local[u].conv)
  BY <1>2, <1>9
  DEF Stops_, StopWorker, GraceEnds, TakeLock, Kill, Settle, Raise, Cancels, CancelDrive,
      CancelWait, CancelGrace, CancelFinish
<1>10. CASE \/ \E t \in Closers : StartClose(t)
            \/ Scope \/ CancelBody \/ Environment \/ Quiet
  BY <1>2, <1>10
  DEF StartClose, Scope, BodyReturns, SessionCancel, SessionCancelled, CancelBody,
      Environment, WorkerWrites, WorkerExits, RequestStop, Expire, Quiet, vars
<1> QED BY <1>4, <1>6, <1>7, <1>8, <1>9, <1>10 DEF Next, Finishes

(* One step of the session is one step of the order, or none.              *)
LEMMA OrderStep ==
  ASSUME TypeOK, TypeOK', SessionInv, HistoryInv, [Next]_vars
  PROVE  [Order!Next]_(Order!vars)
<1> USE DEF session, channel, clock, history, driver
<1>1. /\ Requests \in Seq(Sent) /\ Len(Requests) \in Nat /\ Len(accepted) \in Nat
      /\ accepted \in Seq(Nat)
  BY CountTypes DEF TypeOK
<1>2. ASSUME UNCHANGED <<wire, accepted, stop>> PROVE UNCHANGED Order!vars
  BY <1>2 DEF Order!vars, Last, Requests
<1>3. ASSUME NEW t \in Tasks, Send(t) PROVE Order!Next
  <2> DEFINE message == local[t].step.send
  <2>1. /\ Requests' = IF IsRequest(message) THEN Append(Requests, message) ELSE Requests
        /\ Last' = message.method
        /\ Len(Requests) = Len(accepted)
        /\ message.method \in Order!Follow[Last]
        /\ message.method \in DOMAIN Order!Follow
        /\ IsRequest(message) <=> message.method \in Order!Requests
    BY <1>3, SendWrites
  <2>2. stop = NoStop /\ UNCHANGED <<stop, accepted>>
    BY <1>3 DEF Send
  <2>3. message \in Sent
    BY DEF TypeOK, Moves, Steps
  <2> HIDE DEF message
  <2>4. Len(accepted') # Len(Requests') <=> message.method \in Order!Requests
    BY <1>1, <2>1, <2>2, <2>3
  <2>5. Order!Write(message.method)
    BY <2>1, <2>2, <2>4 DEF Order!Write
  <2> QED BY <2>1, <2>5 DEF Order!Next
<1>4. ASSUME NEW t \in Tasks, Receive(t) PROVE [Order!Next]_(Order!vars)
  <2>1. stop = NoStop /\ UNCHANGED <<wire, stop>> /\ Requests' = Requests /\ Last' = Last
    BY <1>4 DEF Receive, Requests, Last
  <2>2. accepted' # accepted =>
          accepted' = Append(accepted, Len(Requests)) /\ Len(Requests) = Len(accepted')
    BY <1>4, ReceiveAccepts
  <2>3. CASE accepted' = accepted
    BY <1>2, <2>1, <2>3
  <2>4. CASE accepted' # accepted
    <3>1. Len(accepted) # Len(Requests) /\ Len(accepted') = Len(Requests')
      BY <1>1, <2>1, <2>2, <2>4
    <3>2. Order!Accept
      BY <2>1, <3>1 DEF Order!Accept
    <3> QED BY <3>2 DEF Order!Next
  <2> QED BY <2>3, <2>4
<1>5. ASSUME NEW t \in Tasks, Kill(t) PROVE Order!Next
  <2>1. stop = NoStop /\ stop' # NoStop /\ UNCHANGED <<wire, accepted>>
    BY <1>5, StatusType, TasksAssumption DEF Kill, SessionInv, StopIsOwned, TypeOK
  <2>2. Last' = Last /\ Requests' = Requests
    BY <2>1 DEF Last, Requests
  <2>3. Order!Stop
    BY <2>1, <2>2 DEF Order!Stop
  <2> QED BY <2>3 DEF Order!Next
<1>6. ASSUME NEW t \in Tasks,
             Drives(t) \/ Stops_(t) \/ Finishes(t) \/ Cancels(t),
             ~Send(t), ~Receive(t), ~Kill(t)
      PROVE  UNCHANGED <<wire, accepted, stop>>
  BY <1>6
  DEF Drives, SendFails, ReceiveFails, Interrupt, FrameFault, FrameFaulted, Pause, Stops_,
      StopWorker, GraceEnds, TakeLock, Finishes, Settle, Raise, Close, Cancels, CancelDrive,
      CancelWait, CancelGrace, CancelFinish
<1>7. ASSUME ~\E t \in Tasks : Drives(t) \/ Stops_(t) \/ Finishes(t) \/ Cancels(t)
      PROVE  UNCHANGED <<wire, accepted, stop>>
  BY <1>7
  DEF Next, Call, StartClose, Opens, Start, StartFails, Scope, BodyReturns, SessionCancel,
      SessionCancelled, CancelBody, Environment, WorkerWrites, WorkerExits, RequestStop,
      Expire, Quiet, vars
<1> QED BY <1>2, <1>3, <1>4, <1>5, <1>6, <1>7

-----------------------------------------------------------------------------
(* The theorems. *)

LEMMA InitInv == Init => SessionInv
<1> SUFFICES ASSUME Init PROVE SessionInv
  OBVIOUS
<1>1. \A t \in Tasks : ~Exchanging(t) /\ pc[t] = "idle" /\ then[t] = "settle"
  BY DEF Init, Exchanging
<1>2. Opener \in Tasks
  BY DEF Tasks
<1>3. StopIsOwned /\ OpenerFirst /\ BusyIsHeld
  <2>1. StopIsOwned
    BY <1>1, TasksAssumption DEF Init, StopIsOwned
  <2>2. OpenerFirst
    BY <1>1, <1>2 DEF Init, OpenerFirst, Others, Idle, NoOutcome, Outcome
  <2>3. BusyIsHeld
    BY <1>1, <1>2, TasksAssumption DEF Init, BusyIsHeld, Others
  <2> QED BY <2>1, <2>2, <2>3
<1>4. ReportIsLast /\ ReportGivesTheStop /\ SameReport /\ NoOrphan
  BY <1>1, <1>2
  DEF Init, ReportIsLast, ReportGivesTheStop, SameReport, NoOrphan, NoOutcome, Outcome, Tasks
<1>5. PausesClosable
  BY <1>1 DEF Init, PausesClosable, Resumable, Exchange
<1> QED BY <1>3, <1>4, <1>5 DEF SessionInv

LEMMA StepInv == TypeOK /\ TypeOK' /\ SessionInv /\ [Next]_vars => SessionInv'
<1> SUFFICES ASSUME TypeOK, TypeOK', SessionInv, [Next]_vars PROVE SessionInv'
  OBVIOUS
<1>1. ASSUME NEW t \in Tasks,
             Drives(t) \/ Stops_(t) \/ Finishes(t) \/ Cancels(t)
      PROVE  SessionInv'
  <2>1. CASE Pause(t)
    BY <2>1, PauseKeepsInv
  <2>2. CASE Drives(t) /\ ~Pause(t)
    <3>1. pc[t] # "paused"
      BY <2>2
      DEF Drives, Send, SendFails, Receive, ReceiveFails, Interrupt, FrameFault, FrameFaulted
    <3> QED BY <2>2, <3>1, DriveKeepsInv
  <2>3. CASE StopWorker(t) \/ GraceEnds(t) \/ CancelDrive(t) \/ CancelGrace(t)
    <3>1. pc[t] # "paused"
      BY <2>3 DEF StopWorker, GraceEnds, CancelDrive, CancelGrace
    <3> QED BY <2>3, <3>1, DriveKeepsInv
  <2>4. CASE TakeLock(t) \/ Kill(t)
    BY <2>4, LockKeepsInv
  <2>5. CASE Finishes(t)
    BY <2>5, SettleKeepsInv, RaiseKeepsInv, CloseKeepsInv DEF Finishes
  <2>6. CASE CancelWait(t) \/ CancelFinish(t)
    BY <2>6, WaitKeepsInv
  <2> QED BY <1>1, <2>1, <2>2, <2>3, <2>4, <2>5, <2>6 DEF Stops_, Cancels
<1>2. ASSUME NEW t \in Callers, Call(t) PROVE SessionInv'
  BY <1>2, CallKeepsInv
<1>3. CASE Opens
  BY <1>3, OpensKeepsInv
<1>4. CASE \/ \E t \in Closers : StartClose(t)
           \/ BodyReturns \/ CancelBody \/ Environment \/ UNCHANGED vars
  BY <1>4, WaitKeepsInv
<1>5. CASE SessionCancel \/ SessionCancelled
  BY <1>5, CancelKeepsInv
<1> QED BY <1>1, <1>2, <1>3, <1>4, <1>5 DEF Next, Scope, Quiet

(* Every reachable state satisfies the inductive invariant: the channel's  *)
(* lock, Session.busy and Session.report are handed from task to task as   *)
(* the code means them to be.                                              *)
THEOREM SessionInvariant == Spec => []InductiveInv
<1>1. Init => SessionInv /\ HistoryInv
  BY InitInv, InitHistory
<1>2. TypeOK /\ TypeOK' /\ SessionInv /\ HistoryInv /\ [Next]_vars =>
        SessionInv' /\ HistoryInv'
  BY StepInv, StepHistory
<1> QED BY <1>1, <1>2, TypeCorrect, PTL DEF Spec, InductiveInv

(* A report exists only for a stopped worker and gives its stop.           *)
THEOREM ReportsGiveTheStop == Spec => []ReportGivesTheStop
<1>1. InductiveInv => ReportGivesTheStop
  BY DEF InductiveInv, SessionInv
<1> QED BY <1>1, SessionInvariant, PTL

(* Every task that closes the session gets the one report.                 *)
THEOREM OneReport == Spec => []SameReport
<1>1. InductiveInv => SameReport
  BY DEF InductiveInv, SessionInv
<1> QED BY <1>1, SessionInvariant, PTL

(* No task leaves an unstopped worker behind.                              *)
THEOREM NoWorkerLeftBehind == Spec => []NoOrphan
<1>1. InductiveInv => NoOrphan
  BY DEF InductiveInv, SessionInv
<1> QED BY <1>1, SessionInvariant, PTL

(* Session::close finds a conversation that it can shut down.              *)
THEOREM SessionIsClosable == Spec => []AlwaysClosable
<1>1. InductiveInv => AlwaysClosable
  BY DEF InductiveInv, SessionInv, PausesClosable, AlwaysClosable
<1> QED BY <1>1, SessionInvariant, PTL

(* The first stop of the channel stands, whoever else stops the worker.    *)
THEOREM TheFirstStopStands == Spec => FirstStopStands
<1>1. InductiveInv /\ [Next]_vars => [stop # NoStop => stop' = stop]_vars
  <2> SUFFICES ASSUME TypeOK, SessionInv, Next, stop # NoStop PROVE stop' = stop
    BY DEF InductiveInv, vars, channel
  <2> USE DEF session, channel, clock, history, driver
  <2>1. ASSUME NEW t \in Tasks,
               Drives(t) \/ Stops_(t) \/ Finishes(t) \/ Cancels(t)
        PROVE  stop' = stop
    <3>1. ~Kill(t)
      BY TasksAssumption DEF Kill, SessionInv, StopIsOwned
    <3> QED BY <2>1, <3>1
        DEF Drives, Send, SendFails, Receive, ReceiveFails, Interrupt, FrameFault,
            FrameFaulted, Pause, Stops_, StopWorker, GraceEnds, TakeLock, Finishes, Settle,
            Raise, Close, Cancels, CancelDrive, CancelWait, CancelGrace, CancelFinish
  <2>2. ASSUME ~\E t \in Tasks : Drives(t) \/ Stops_(t) \/ Finishes(t) \/ Cancels(t)
        PROVE  stop' = stop
    BY <2>2
    DEF Next, Call, StartClose, Opens, Start, StartFails, Scope, BodyReturns, SessionCancel,
        SessionCancelled, CancelBody, Environment, WorkerWrites, WorkerExits, RequestStop,
        Expire, Quiet, vars
  <2> QED BY <2>1, <2>2
<1> QED BY <1>1, SessionInvariant, PTL DEF Spec, FirstStopStands

(* The host writes the n-th request with ID n and only after the reply to  *)
(* the one before it was accepted, and it writes one operation at most.    *)
THEOREM OneRequestAtATime == Spec => []LockStep
<1>1. InductiveInv => LockStep
  BY DEF InductiveInv, HistoryInv
<1> QED BY <1>1, SessionInvariant, PTL

(* After the stop signal or the deadline the host writes one message at     *)
(* most: the one that it was writing.                                       *)
THEOREM SilentAfterInterrupt == Spec => []QuietAfterInterrupt
<1>1. InductiveInv => QuietAfterInterrupt
  BY DEF InductiveInv, HistoryInv
<1> QED BY <1>1, SessionInvariant, PTL

(* A report without an ending is one of a worker that answered `shutdown`. *)
THEOREM CleanSessionWasAnswered == Spec => []CleanMeansAnswered
<1>1. InductiveInv => CleanMeansAnswered
  BY DEF InductiveInv, HistoryInv
<1> QED BY <1>1, SessionInvariant, PTL

(* A session that refuses its worker ends as refused.                      *)
THEOREM TheRefusalStands == Spec => RefusalStands
<1>1. /\ InductiveInv /\ InductiveInv' /\ [Next]_vars =>
         [\A t \in Tasks : local[t].conv.phase = "Refusing" =>
            \/ local'[t].conv = local[t].conv
            \/ local'[t].step.conclusion = EndedEarly(local[t].conv.refusal)]_vars
  BY RefusalStep DEF InductiveInv, Stands
<1> QED BY <1>1, SessionInvariant, PTL DEF Spec, RefusalStands

(* What the host writes refines the order that the protocol promises.      *)
THEOREM TheWorkerSeesTheOrder == Spec => KeepsSessionOrder
<1>1. Init => Order!Init
  BY RequestsOfNothing DEF Init, Order!Init, Last, Requests
<1>2. InductiveInv /\ InductiveInv' /\ [Next]_vars => [Order!Next]_(Order!vars)
  BY OrderStep DEF InductiveInv
<1> QED BY <1>1, <1>2, SessionInvariant, PTL DEF Spec, KeepsSessionOrder, Order!Spec
=============================================================================
