--------------------------- MODULE MetadataSessions ---------------------------
(***************************************************************************)
(* The metadata sessions of a host                                         *)
(* (pkgs/morphir-host/metadata_sessions.mbt), their use by run_content     *)
(* (content.mbt), and the session that restores through a helper process   *)
(* (metadata_process.mbt).                                                 *)
(*                                                                         *)
(* The host is one thread, and `frames` is its stack: what it is doing     *)
(* when code that is not its own is called back.  Such code may call the   *)
(* host again at any depth.  A call that the host refuses changes nothing  *)
(* and is no step.                                                         *)
(***************************************************************************)
EXTENDS MetadataHelper, Sequences, SequencesExt

CONSTANTS
  Slots,       \* the capabilities of one project in one plan
  Embedded,    \* those whose sessions an embedding supplies
  MaxRuns,     \* bound: calls of run_content; MaxSessions bounds those of acquire
  MaxFaults    \* bound: disposals that fail in the file system or raise

ASSUME SessionsAssumption ==
  /\ Embedded \subseteq Slots
  /\ MaxSessions \in Nat /\ MaxRuns \in Nat /\ MaxFaults \in Nat

VARIABLES
  manager,   \* MetadataSessions.state
  cleanups,  \* its callbacks: the sessions, in the order of acquisition
  slot,      \* MetadataSessionSlot.state
  session,   \* the sessions that were acquired
  frames,    \* the stack of the host's thread
  attempts, runs, faults, \* how often the bounded steps were taken
  published, \* history: the runs that published
  proven     \* history: exchanges with a receipt of quiescence

hostVars == <<manager, cleanups, slot, session, frames, attempts, runs, faults,
              published, proven>>
vars == <<hostVars, helperVars>>

Empty       == [kind |-> "Empty"]
Acquiring   == [kind |-> "Acquiring"]
Acquired(s) == [kind |-> "Acquired", session |-> s]

(* Where a session stands: `unconfirmed` is the exchange of which it is    *)
(* not known that its processes ended, `held` that it has resources.       *)
Unborn == [state |-> "Unborn", unconfirmed |-> "none", held |-> FALSE]
Fresh(p, run) ==
  [state |-> "Fresh", unconfirmed |-> "none", held |-> TRUE, slot |-> p, run |-> run]

Init ==
  /\ manager = "Idle"
  /\ cleanups = << >>
  /\ slot = [p \in Slots |-> Empty]
  /\ session = [s \in Sessions |-> Unborn]
  /\ frames = << >>
  /\ attempts = 0 /\ runs = 0 /\ faults = 0
  /\ HelperInit
  /\ published = {}
  /\ proven = {}

-----------------------------------------------------------------------------
(* The stack. *)

Outside == [op |-> "outside"]
Top     == IF frames = << >> THEN Outside ELSE Last(frames)

Call(frame)    == frames' = Append(frames, frame)
Return         == frames' = Front(frames)
Becomes(frame) == frames' = Append(Front(frames), frame)

(* Code that is not the host's has the thread: the engine, an embedding's  *)
(* callback, a publisher, or whoever calls the host.                       *)
Guest ==
  \/ Top.op \in {"outside", "run", "publish", "cleanup"}
  \/ Top.op = "acquire" /\ Top.slot \in Embedded

Executions == {k \in DOMAIN frames : frames[k].op = "run"}
Run == frames[CHOOSE k \in Executions : \A j \in Executions : j <= k].run

-----------------------------------------------------------------------------
(* begin and acquire. *)

Begin ==
  /\ Guest
  /\ manager = "Idle"
  /\ runs < MaxRuns
  /\ manager' = "Executing"
  /\ cleanups' = << >>
  /\ runs' = runs + 1
  /\ Call([op |-> "run", run |-> runs + 1])
  /\ UNCHANGED <<slot, session, attempts, faults, published, proven, helperVars>>

(* A capability without a session calls the acquisition callback. *)
Acquire(p) ==
  /\ Guest
  /\ manager = "Executing"
  /\ slot[p] = Empty
  /\ attempts < MaxSessions
  /\ attempts' = attempts + 1
  /\ slot' = [slot EXCEPT ![p] = Acquiring]
  /\ Call([op |-> "acquire", slot |-> p])
  /\ UNCHANGED <<manager, cleanups, session, runs, faults, published, proven, helperVars>>

Newest(s) == session[s] = Unborn /\ \A other \in 1..(s - 1) : session[other] # Unborn

AcquireReturns ==
  /\ Top.op = "acquire"
  /\ \E s \in Sessions :
       /\ Newest(s)
       /\ slot' = [slot EXCEPT ![Top.slot] = Acquired(s)]
       /\ session' = [session EXCEPT ![s] = Fresh(Top.slot, Run)]
       /\ cleanups' = Append(cleanups, s)
  /\ Return
  /\ UNCHANGED <<manager, attempts, runs, faults, published, proven, helperVars>>

(* The callback raises, and a process session removed its own scratch. *)
AcquireRaises ==
  /\ Top.op = "acquire"
  /\ slot' = [slot EXCEPT ![Top.slot] = Empty]
  /\ Return
  /\ UNCHANGED <<manager, cleanups, session, attempts, runs, faults, published, proven,
                 helperVars>>

-----------------------------------------------------------------------------
(* The snapshot of a process session: a probe, then a restore. *)

(* The directory of the exchange is written and the helper is called. *)
Launch(s, stage) ==
  /\ session' = [session EXCEPT ![s].unconfirmed = stage]
  /\ Start(<<s, stage>>)

Refused(s) ==
  /\ session' = [session EXCEPT ![s].state = "Refused"]
  /\ UNCHANGED helperVars

(* The helper cannot be started: that is not told from a lost receipt. *)
Unstarted(s, stage) ==
  /\ session' = [session EXCEPT ![s].unconfirmed = stage, ![s].state = "Refused"]
  /\ UNCHANGED helperVars

Restore(p) ==
  /\ Guest
  /\ manager = "Executing"
  /\ slot[p].kind = "Acquired"
  /\ p \notin Embedded
  /\ LET s == slot[p].session
     IN /\ session[s].state = "Fresh"
        /\ \/ Launch(s, "probe") /\ Call([op |-> "exchange", session |-> s])
           \/ (Refused(s) \/ Unstarted(s, "probe")) /\ UNCHANGED frames
  /\ UNCHANGED <<manager, cleanups, slot, attempts, runs, faults, published, proven>>

(* Fault: the host waits for the receipt, not for the end of the helper. *)
AnsweredByReceipt(x) == helper[x].at = "gone" /\ receipt[x] # NoReceipt

Answered(x) == helper[x].at = "gone"

(* The helper ended: its receipt cannot be read, or what it says, and what *)
(* may still go wrong.                                                     *)
Answer ==
  /\ Top.op = "exchange"
  /\ \E stage \in Stages :
       LET s     == Top.session
           heard == receipt[<<s, stage>>]
           seen  == [session[s] EXCEPT !.unconfirmed =
                       IF heard.quiescent THEN "none" ELSE stage]
       IN /\ stage = session[s].unconfirmed
          /\ Answered(<<s, stage>>)
          /\ \/ /\ \E known \in {session[s], seen} :
                      session' = [session EXCEPT ![s] = [known EXCEPT !.state = "Refused"]]
                /\ Return
                /\ UNCHANGED helperVars
             \/ /\ heard.quiescent /\ heard.result = "succeeded"
                /\ \/ /\ stage = "probe"
                      /\ Launch(s, "restore")
                      /\ UNCHANGED frames
                   \/ /\ stage = "probe"
                      /\ Unstarted(s, "restore")
                      /\ Return
                   \/ /\ stage = "restore"
                      /\ session' = [session EXCEPT ![s] = [seen EXCEPT !.state = "Retained"]]
                      /\ Return
                      /\ UNCHANGED helperVars
  /\ UNCHANGED <<manager, cleanups, slot, attempts, runs, faults, published, proven>>

-----------------------------------------------------------------------------
(* dispose. *)

Disposal(left, finishing) ==
  [op |-> "dispose", left |-> left, failed |-> << >>, finishing |-> finishing]

(* The engine is done, whatever it reports: FinishExecution. *)
Finish ==
  /\ Top.op = "run"
  /\ manager = "Executing"
  /\ manager' = "Disposing"
  /\ cleanups' = << >>
  /\ frames' = Front(frames)
                 \o <<[op |-> "publish", run |-> Top.run, clean |-> FALSE],
                      Disposal(cleanups, TRUE)>>
  /\ UNCHANGED <<slot, session, attempts, runs, faults, published, proven, helperVars>>

(* dispose_metadata_sessions: RetryCleanup. *)
Retry ==
  /\ Guest
  /\ manager = "CleanupFailed"
  /\ manager' = "Disposing"
  /\ cleanups' = << >>
  /\ Call(Disposal(cleanups, FALSE))
  /\ UNCHANGED <<slot, session, attempts, runs, faults, published, proven, helperVars>>

Done(s) ==
  session' = [session EXCEPT ![s].state = "Disposed", ![s].unconfirmed = "none",
                             ![s].held = FALSE]

Pass(s, failed) ==
  [Top EXCEPT !.left = Front(@), !.failed = IF failed THEN Append(@, s) ELSE @]

(* Receipts of the session's exchanges that are gone from its directory. *)
Without(s, stages) ==
  receipt' = [x \in Exchanges |->
                IF x[1] = s /\ x[2] \in stages THEN NoReceipt ELSE receipt[x]]

(* Fault: the confirmation is not kept for the next attempt. *)
RemovesForgetful(s) ==
  LET x == <<s, session[s].unconfirmed>>
  IN \/ /\ Becomes(Pass(s, FALSE))
        /\ Done(s)
        /\ Without(s, Stages)
        /\ UNCHANGED faults
     \/ /\ faults < MaxFaults
        /\ faults' = faults + 1
        /\ Becomes(Pass(s, TRUE))
        /\ \E stages \in SUBSET Stages : Without(s, stages)
        /\ UNCHANGED session

(* metadata_dispose_tree: all of the scratch, or an unknown part of it. *)
Removes(s) ==
  \/ /\ Becomes(Pass(s, FALSE))
     /\ Done(s)
     /\ Without(s, Stages)
     /\ UNCHANGED faults
  \/ /\ faults < MaxFaults
     /\ faults' = faults + 1
     /\ Becomes(Pass(s, TRUE))
     /\ \E stages \in SUBSET Stages : Without(s, stages)
     /\ session' = [session EXCEPT ![s].unconfirmed = "none"]

Confirmed(s) ==
  session[s].unconfirmed # "none" => receipt[<<s, session[s].unconfirmed>>].quiescent

(* The dispose callback of a process session. *)
DisposeProcess(s) ==
  \/ /\ Confirmed(s)
     /\ Removes(s)
  \/ /\ ~Confirmed(s)
     /\ Becomes(Pass(s, TRUE))
     /\ UNCHANGED <<session, faults, receipt>>

(* Fault: access is revoked only when the callback succeeds. *)
DisposeNextUnrevoked ==
  /\ Top.op = "dispose"
  /\ Top.left # << >>
  /\ LET s == Last(Top.left)
     IN \/ /\ session[s].slot \in Embedded
           /\ Call([op |-> "cleanup", session |-> s])
           /\ UNCHANGED <<slot, session, faults, receipt>>
        \/ /\ session[s].slot \notin Embedded
           /\ DisposeProcess(s)
           /\ slot' = IF session'[s].held THEN slot
                      ELSE [slot EXCEPT ![session[s].slot] = Empty]
  /\ UNCHANGED <<manager, cleanups, attempts, runs, published, proven, helper, group>>

(* The next callback: access is revoked before, and even if it fails. *)
DisposeNext ==
  /\ Top.op = "dispose"
  /\ Top.left # << >>
  /\ LET s == Last(Top.left)
     IN /\ slot' = [slot EXCEPT ![session[s].slot] = Empty]
        /\ \/ /\ session[s].slot \in Embedded
              /\ Call([op |-> "cleanup", session |-> s])
              /\ UNCHANGED <<session, faults, receipt>>
           \/ /\ session[s].slot \notin Embedded
              /\ DisposeProcess(s)
  /\ UNCHANGED <<manager, cleanups, attempts, runs, published, proven, helper, group>>

(* An embedding's callback ends: the pass goes on below it. *)
CleanupEnds ==
  /\ Top.op = "cleanup"
  /\ LET below == frames[Len(frames) - 1]
         s     == Top.session
         next(failed) == [below EXCEPT !.left = Front(@),
                                       !.failed = IF failed THEN Append(@, s) ELSE @]
     IN \/ /\ frames' = Append(SubSeq(frames, 1, Len(frames) - 2), next(FALSE))
           /\ Done(s)
           /\ UNCHANGED faults
        \/ /\ faults < MaxFaults
           /\ faults' = faults + 1
           /\ frames' = Append(SubSeq(frames, 1, Len(frames) - 2), next(TRUE))
           /\ UNCHANGED session
  /\ UNCHANGED <<manager, cleanups, slot, attempts, runs, published, proven, helperVars>>

Kept(failed) == Reverse(failed)

DisposeEnds ==
  /\ Top.op = "dispose"
  /\ Top.left = << >>
  /\ LET clean == Top.failed = << >>
     IN /\ manager' = IF clean THEN "Idle" ELSE "CleanupFailed"
        /\ cleanups' = Kept(Top.failed)
        /\ frames' = IF Top.finishing
                     THEN [Front(frames) EXCEPT ![Len(frames) - 1].clean = clean]
                     ELSE Front(frames)
  /\ UNCHANGED <<slot, session, attempts, runs, faults, published, proven, helperVars>>

-----------------------------------------------------------------------------
(* The rest of run_content. *)

(* Fault: a failed cleanup does not stop the publication. *)
PublishAnyway ==
  /\ Top.op = "publish"
  /\ Top.run \notin published
  /\ published' = published \cup {Top.run}
  /\ UNCHANGED <<manager, cleanups, slot, session, frames, attempts, runs, faults, proven,
                 helperVars>>

(* The library validation and the publisher begin, if all went well. *)
Publish ==
  /\ Top.op = "publish"
  /\ Top.clean
  /\ Top.run \notin published
  /\ published' = published \cup {Top.run}
  /\ UNCHANGED <<manager, cleanups, slot, session, frames, attempts, runs, faults, proven,
                 helperVars>>

RunReturns ==
  /\ Top.op = "publish"
  /\ Return
  /\ UNCHANGED <<manager, cleanups, slot, session, attempts, runs, faults, published,
                 proven, helperVars>>

Process(x) ==
  /\ HelperNext(x)
  /\ proven' = proven \cup {y \in Exchanges : receipt'[y].quiescent}
  /\ UNCHANGED <<manager, cleanups, slot, session, frames, attempts, runs, faults, published>>

Next ==
  \/ Begin
  \/ \E p \in Slots : Acquire(p) \/ Restore(p)
  \/ AcquireReturns
  \/ AcquireRaises
  \/ Answer
  \/ Finish
  \/ Retry
  \/ DisposeNext
  \/ CleanupEnds
  \/ DisposeEnds
  \/ Publish
  \/ RunReturns
  \/ \E x \in Exchanges : Process(x)

Spec == Init /\ [][Next]_vars

(* The engine and the callbacks return, the host goes on, the helpers meet *)
(* their deadlines; whoever owns the host retries a failed cleanup.        *)
FairSpec ==
  /\ Spec
  /\ WF_vars(Finish) /\ SF_vars(RunReturns)
  /\ WF_vars(AcquireReturns \/ AcquireRaises) /\ WF_vars(CleanupEnds)
  /\ WF_vars(Answer) /\ WF_vars(DisposeNext) /\ WF_vars(DisposeEnds)
  /\ WF_vars(Retry)
  /\ \A x \in Exchanges :
       WF_vars(/\ HelperStep(x) \/ Stop(x)
               /\ proven' = proven \cup {y \in Exchanges : receipt'[y].quiescent}
               /\ UNCHANGED <<manager, cleanups, slot, session, frames, attempts, runs,
                              faults, published>>)

-----------------------------------------------------------------------------
(* Properties. *)

InDisposal ==
  UNION {ToSet(frames[k].left) \cup ToSet(frames[k].failed) :
           k \in {j \in DOMAIN frames : frames[j].op = "dispose"}}

(* However acquisition, its failures, disposal, retries and calls from     *)
(* inside callbacks interleave, every session with resources is one that   *)
(* the host still has a callback for.                                      *)
NothingLeaks ==
  \A s \in Sessions : session[s].held => s \in ToSet(cleanups) \cup InDisposal

Increasing(seq) == \A j, k \in DOMAIN seq : j < k => seq[j] < seq[k]

(* Every pass of disposal, the first and the retries, goes from the last   *)
(* session acquired to the first.                                          *)
ReverseOrder ==
  /\ Increasing(cleanups)
  /\ \A k \in DOMAIN frames :
       frames[k].op = "dispose" =>
         /\ Increasing(frames[k].left)
         /\ Increasing(frames[k].left \o Reverse(frames[k].failed))

(* A slot is taken exactly while its acquisition is on the stack, and has  *)
(* a session exactly while the running execution owns that session: no     *)
(* project is acquired twice, and no disposed session is used or observed. *)
SlotsAreLive ==
  \A p \in Slots :
    /\ slot[p] = Acquiring <=>
         \E k \in DOMAIN frames : frames[k].op = "acquire" /\ frames[k].slot = p
    /\ slot[p].kind = "Acquired" =>
         LET s == slot[p].session
         IN /\ session[s].held /\ session[s].slot = p
            /\ s \in ToSet(cleanups) \cup InDisposal
            /\ ~\E k \in DOMAIN frames :
                  frames[k].op = "cleanup" /\ frames[k].session = s
            /\ manager \in {"Executing", "Disposing"}

(* What the host owes its sessions, in any order of calls and failures:     *)
(* nothing leaks, disposal is in reverse, and what it gives access to lives. *)
SessionsInv == NothingLeaks /\ ReverseOrder /\ SlotsAreLive

(* The scratch of a session is not touched before every process that its   *)
(* exchanges started is gone: services, and what services left behind.     *)
RemovesQuietScratch ==
  [][\A s \in Sessions :
       \/ session[s].held /\ ~session'[s].held
       \/ \E stage \in Stages : /\ receipt[<<s, stage>>] # NoReceipt
                                /\ receipt'[<<s, stage>>] = NoReceipt
       => \A stage \in Stages : Quiet(<<s, stage>>)]_vars

(* run_content publishes only when all sessions of its execution were      *)
(* disposed, even if callbacks ran other executions meanwhile.             *)
PublishesAfterCleanup ==
  [][\A run \in published' \ published :
       \A s \in Sessions :
         session[s].state # "Unborn" /\ session[s].run = run
           => session[s].state = "Disposed"]_published

(* Every call of the host returns, whatever happens to the helpers. *)
CallsReturn == frames # << >> ~> frames = << >>

(* A failed cleanup can be repaired: unless a helper was lost or could not *)
(* confirm the end of its service, the retries come to an end, and the     *)
(* host may execute again.                                                 *)
CleanupCompletes ==
  manager = "CleanupFailed" ~>
    \/ manager = "Idle"
    \/ \E s \in ToSet(cleanups) :
         session[s].unconfirmed # "none" /\ <<s, session[s].unconfirmed>> \notin proven
=============================================================================
