--------------------------- MODULE ArtifactDelivery ---------------------------
(* What an artifact transfer promises: the host keeps at most one generation *)
(* for its caller, the caller gets the files only after the host gave that   *)
(* generation back, and a caller that gets nothing is told so once.          *)

VARIABLES
  held,       \* the host's generation: "absent", "held", "released", "dropped"
  delivered   \* what the caller got: "nothing yet", "files", "refused"

vars == <<held, delivered>>

Init == held = "absent" /\ delivered = "nothing yet"

Produce ==
  /\ held = "absent" /\ delivered # "files"
  /\ held' = "held"
  /\ UNCHANGED delivered

Release ==
  /\ held = "held" /\ delivered # "files"
  /\ held' = "released"
  /\ UNCHANGED delivered

(* The connection of the caller ended. *)
Drop ==
  /\ held = "held"
  /\ held' = "dropped"
  /\ UNCHANGED delivered

Deliver ==
  /\ held = "released" /\ delivered = "nothing yet"
  /\ delivered' = "files"
  /\ UNCHANGED held

Refuse ==
  /\ delivered = "nothing yet"
  /\ delivered' = "refused"
  /\ UNCHANGED held

Next == Produce \/ Release \/ Drop \/ Deliver \/ Refuse

Spec == Init /\ [][Next]_vars
=============================================================================
