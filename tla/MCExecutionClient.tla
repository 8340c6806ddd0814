--------------------------- MODULE MCExecutionClient ---------------------------
(* Instances of ExecutionClient for TLC. *)
EXTENDS ExecutionClient

CONSTANTS input, large, host

Offered == [authority |-> host, cancel |-> TRUE]

Kind == IF Policy THEN "Strict" ELSE "Legacy"
OneWork == {[input |-> input, kind |-> Kind]}

(* A work that the host takes, and one that is too large for it. *)
TwoWorks == OneWork \cup {[input |-> large, kind |-> Kind]}
SizeOf == [work \in Works |-> IF work.input = large THEN max_bytes + 1 ELSE 1]
=============================================================================
