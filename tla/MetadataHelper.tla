---------------------------- MODULE MetadataHelper ----------------------------
(***************************************************************************)
(* The helper process of a metadata exchange                               *)
(* (apps/morphir/build-provider/metadata.mts) with the supervision of the  *)
(* service it runs (supervision.mts), on POSIX systems.                    *)
(*                                                                         *)
(* One helper serves one exchange.  It spawns the service as the leader of *)
(* a process group of its own, reclaims the group and leaves a receipt     *)
(* that says whether the group is known to be gone.  Deadlines are not     *)
(* counted: whatever a deadline ends may end at any step.                  *)
(***************************************************************************)

EXTENDS Integers

CONSTANT MaxSessions \* bound: sessions, each with a probe and a restore

Sessions  == 1..MaxSessions
Stages    == {"probe", "restore"}
Exchanges == Sessions \X Stages

VARIABLES
  helper, \* exchange -> where its helper is, why it stops, what it knows
  group,  \* exchange -> the process group of its service
  receipt \* exchange -> receipt.json in its directory

helperVars == <<helper, group, receipt>>

Points  == {"none", "checking", "supervising", "killing", "writing", "gone"}
Groups  == {"none", "running", "left", "gone"} \* left: its leader exited
Results == {"succeeded", "refused"}

NoReceipt == [quiescent |-> FALSE, result |-> "missing"]
Receipts  == [quiescent : BOOLEAN, result : Results]

Quiet(x) == group[x] \notin {"running", "left"}

HelperInit ==
  /\ helper = [x \in Exchanges |->
                 [at |-> "none", refused |-> FALSE, quiescent |-> TRUE]]
  /\ group = [x \in Exchanges |-> "none"]
  /\ receipt = [x \in Exchanges |-> NoReceipt]

-----------------------------------------------------------------------------
(* The host's call of process starts it. *)
Start(x) ==
  /\ helper[x].at = "none"
  /\ helper' = [helper EXCEPT ![x].at = "checking"]
  /\ UNCHANGED <<group, receipt>>

(* The control file, a pin or the cancel file refuses, or the spawn fails. *)
Refuse(x) ==
  /\ helper[x].at = "checking"
  /\ helper' = [helper EXCEPT ![x].at = "writing", ![x].refused = TRUE]
  /\ UNCHANGED <<group, receipt>>

Spawn(x) ==
  /\ helper[x].at = "checking"
  /\ helper' = [helper EXCEPT ![x].at = "supervising", ![x].quiescent = FALSE]
  /\ group' = [group EXCEPT ![x] = "running"]
  /\ UNCHANGED receipt

(* The service ends, with or before what it started. *)
Exit(x) ==
  /\ ~Quiet(x)
  /\ group' = [group EXCEPT ![x] = IF @ = "running" THEN "left" ELSE "gone"]
  /\ UNCHANGED <<helper, receipt>>

(* stop: the deadline, a cancellation, a limit or a signal of the host. *)
Stop(x) ==
  /\ helper[x].at \in {"supervising", "killing"}
  /\ ~helper[x].refused
  /\ helper' = [helper EXCEPT ![x].at = "killing", ![x].refused = TRUE]
  /\ UNCHANGED <<group, receipt>>

(* Fault: a group whose leader exited by itself is taken to be gone. *)
ReclaimNothing(x) ==
  /\ helper[x].at = "supervising"
  /\ group[x] \in {"left", "gone"}
  /\ helper' = [helper EXCEPT ![x].at = "writing", ![x].quiescent = TRUE]
  /\ UNCHANGED <<group, receipt>>

(* The exit of the leader: what it left behind is reclaimed too. *)
Reclaim(x) ==
  /\ helper[x].at = "supervising"
  /\ group[x] \in {"left", "gone"}
  /\ helper' = [helper EXCEPT ![x].at = "killing"]
  /\ UNCHANGED <<group, receipt>>

(* SIGKILL takes effect. *)
Die(x) ==
  /\ helper[x].at = "killing"
  /\ ~Quiet(x)
  /\ group' = [group EXCEPT ![x] = "gone"]
  /\ UNCHANGED <<helper, receipt>>

(* The group is seen to be gone. *)
Confirm(x) ==
  /\ helper[x].at = "killing"
  /\ Quiet(x)
  /\ helper' = [helper EXCEPT ![x].at = "writing", ![x].quiescent = TRUE]
  /\ UNCHANGED <<group, receipt>>

(* treeError: half a second passes, or the group cannot be signalled. *)
GiveUp(x) ==
  /\ helper[x].at = "killing"
  /\ helper' = [helper EXCEPT ![x].at = "writing", ![x].refused = TRUE]
  /\ UNCHANGED <<group, receipt>>

(* The service failed, or the response may not be used; or all is well. *)
Report(x) ==
  /\ helper[x].at = "writing"
  /\ \E result \in Results :
       /\ helper[x].refused => result = "refused"
       /\ receipt' = [receipt EXCEPT ![x] =
                        [quiescent |-> helper[x].quiescent, result |-> result]]
  /\ helper' = [helper EXCEPT ![x].at = "gone"]
  /\ UNCHANGED group

(* The host's time limit or a crash ends the helper before its receipt;    *)
(* half a receipt is as good as none.                                      *)
Lose(x) ==
  /\ helper[x].at \notin {"none", "gone"}
  /\ helper' = [helper EXCEPT ![x].at = "gone"]
  /\ UNCHANGED <<group, receipt>>

HelperStep(x) == Refuse(x) \/ Spawn(x) \/ Reclaim(x) \/ Confirm(x) \/ GiveUp(x) \/ Report(x)

HelperNext(x) == HelperStep(x) \/ Exit(x) \/ Stop(x) \/ Die(x) \/ Lose(x)
=============================================================================
