-------------------------- MODULE ExecutionLifecycle --------------------------
(***************************************************************************)
(* What the owner of executions promises about one accepted execution,     *)
(* whatever the number of executions it keeps and the space they take:     *)
(* the work is fixed when it is accepted, a worker takes it at most once,  *)
(* the acknowledgement of a cancellation is not taken back, the first      *)
(* terminal outcome stands, only a terminal execution is released, and     *)
(* an identity is never used again.                                        *)
(***************************************************************************)
CONSTANTS Identities, Works, Outcomes, NoOutcome

VARIABLE life

Unused   == [stage |-> "Unused"]
Released == [stage |-> "Released"]

Live(stage, work, acknowledged, outcomes) ==
  [stage |-> stage, work |-> work, acknowledged |-> acknowledged,
   outcomes |-> outcomes]

Pending == {"Submitted", "Running"}

Init == life = [identity \in Identities |-> Unused]

Accept(identity, work) ==
  /\ life[identity] = Unused
  /\ life' = [life EXCEPT ![identity] = Live("Submitted", work, FALSE, NoOutcome)]

Take(identity) ==
  /\ life[identity].stage = "Submitted"
  /\ life' = [life EXCEPT ![identity] =
                 Live("Running", @.work, @.acknowledged, NoOutcome)]

Acknowledge(identity) ==
  /\ life[identity].stage \in Pending
  /\ life' = [life EXCEPT ![identity] =
                 Live(@.stage, @.work, TRUE, NoOutcome)]

Finish(identity, outcomes) ==
  /\ life[identity].stage \in Pending
  /\ life' = [life EXCEPT ![identity] =
                 Live("Terminal", @.work, @.acknowledged, outcomes)]

Forget(identity) ==
  /\ life[identity].stage = "Terminal"
  /\ life' = [life EXCEPT ![identity] = Released]

Next ==
  \E identity \in Identities :
    \/ \E work \in Works : Accept(identity, work)
    \/ Take(identity)
    \/ Acknowledge(identity)
    \/ \E outcomes \in Outcomes : Finish(identity, outcomes)
    \/ Forget(identity)

Spec == Init /\ [][Next]_life
=============================================================================
