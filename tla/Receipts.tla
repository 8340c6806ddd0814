------------------------------- MODULE Receipts -------------------------------
(***************************************************************************)
(* The receipts of one execution and the cursor that reads them            *)
(* (pkgs/morphir-execution/executions/executions.mbt).  A receipt is a     *)
(* revision of what the host says of an execution; a cursor keeps the      *)
(* latest one.  Host and client both move their cursor with `observe`.     *)
(*                                                                         *)
(* host, session and provider of an identity are one authority.  A cursor  *)
(* holds its evidence only: the sequence, phase and acknowledgement that   *)
(* the code keeps next to it are copies of the evidence's own.             *)
(***************************************************************************)
EXTENDS Integers

CONSTANTS
  Outcomes,   \* terminal outcomes whose calls are those of the execution
  Foreign,    \* terminal outcomes of other calls
  NoOutcome   \* a receipt that is not terminal has no outcomes

ASSUME OutcomesAssumption ==
  /\ Outcomes \cap Foreign = {}
  /\ NoOutcome \notin Outcomes \cup Foreign

States == {"Submitted", "Running", "Terminal"}

Receipt(identity, sequence, state, outcomes, cancel_requested) ==
  [identity |-> identity, sequence |-> sequence, state |-> state,
   outcomes |-> outcomes, cancel_requested |-> cancel_requested]

Initial(identity) == Receipt(identity, 0, "Submitted", NoOutcome, FALSE)

(* Receipt::from_json accepts it. *)
WellFormed(receipt) ==
  /\ receipt.state = "Terminal" <=> receipt.outcomes # NoOutcome
  /\ receipt.sequence = 0 =>
       receipt.state = "Submitted" /\ ~receipt.cancel_requested

-----------------------------------------------------------------------------
(* The cursor. *)

(* Offer::bind: an offer is for identities of its own authority.           *)
Binds(offer, identity) == offer.authority = identity.authority

Startable(offer, expected, receipt) ==
  /\ Binds(offer, expected)
  /\ receipt = Initial(expected)

start(offer, expected, receipt) ==
  [identity |-> expected, evidence |-> receipt, can_cancel |-> offer.cancel,
   online |-> TRUE]

latest(cursor) == cursor.evidence

(* The checks that come before the sequence is looked at. *)
Admits(cursor, receipt) ==
  /\ cursor.online
  /\ receipt.identity = cursor.identity
  /\ WellFormed(receipt)
  /\ receipt.state = "Terminal" => receipt.outcomes \notin Foreign
  /\ receipt.cancel_requested => cursor.can_cancel

(* A newer receipt moves the execution forward. *)
Follows(seen, receipt) ==
  /\ seen.state # "Terminal"
  /\ ~(seen.state = "Running" /\ receipt.state = "Submitted")
  /\ seen.cancel_requested => receipt.cancel_requested
  /\ \/ receipt.state = "Terminal"
     \/ seen.state # receipt.state
     \/ seen.cancel_requested # receipt.cancel_requested

(* Fault: the order of the receipts is not looked at.                      *)
DispositionUnordered(cursor, receipt) ==
  IF ~Admits(cursor, receipt) THEN "Invalid"
  ELSE IF receipt = cursor.evidence THEN "Replay" ELSE "Advanced"

(* What observe makes of a receipt; "Invalid" raises. *)
Disposition(cursor, receipt) ==
  IF ~Admits(cursor, receipt) THEN "Invalid"
  ELSE IF receipt.sequence < cursor.evidence.sequence THEN "Stale"
  ELSE IF receipt = cursor.evidence THEN "Replay"
  ELSE IF /\ receipt.sequence > cursor.evidence.sequence
          /\ Follows(cursor.evidence, receipt) THEN "Advanced"
  ELSE "Invalid"

Observes(cursor, receipt) == Disposition(cursor, receipt) # "Invalid"

observe(cursor, receipt) ==
  IF Disposition(cursor, receipt) = "Advanced"
  THEN [cursor EXCEPT !.evidence = receipt] ELSE cursor

disconnect(cursor) == [cursor EXCEPT !.online = FALSE]

Reconnectable(cursor, offer) ==
  Binds(offer, cursor.identity) /\ offer.cancel = cursor.can_cancel

reconnect(cursor) == [cursor EXCEPT !.online = TRUE]

(* What a client may do about a cancellation. *)
cancel_action(cursor) ==
  IF cursor.evidence.state = "Terminal" THEN "AlreadyTerminal"
  ELSE IF ~cursor.online THEN "Disconnected"
  ELSE IF ~cursor.can_cancel THEN "Unavailable"
  ELSE IF cursor.evidence.cancel_requested THEN "Pending"
  ELSE "Send"
=============================================================================
