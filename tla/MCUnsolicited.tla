---------------------------- MODULE MCUnsolicited ----------------------------
(***************************************************************************)
(* WorkerSession with one more history variable: the IDs that the worker   *)
(* answered before the host had written their request.                     *)
(***************************************************************************)
EXTENDS MCWorkerSession

VARIABLE early

Written == output'[Len(output')]

UnsolicitedInit == Init /\ early = {}

UnsolicitedNext ==
  /\ Next
  /\ early' = IF written' # written /\ Written.id > Len(Requests)
              THEN early \cup {Written.id} ELSE early

UnsolicitedSpec == UnsolicitedInit /\ [][UnsolicitedNext]_<<vars, early>>

(* "A response with another ID, an unsolicited response, or a second       *)
(* response SHALL fail the session"                                        *)
(* (openspec/changes/host-extensions-as-workers/specs/extensions/          *)
(* worker-sessions/spec.md): no accepted reply was written by the worker   *)
(* before the request it answers.                                          *)
NoUnsolicitedReplyAccepted ==
  \A n \in 1..Len(accepted) : accepted[n] \notin early
=============================================================================
