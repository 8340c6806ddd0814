--------------------------- MODULE MCExecutionOwner ---------------------------
(* Instances of ExecutionOwner for TLC. *)
EXTENDS ExecutionOwner

CONSTANTS small, large, o1, o2, foreign, host

Cancellable == [authority |-> host, cancel |-> TRUE]

(* An evaluation of the whole model, and a small one under a policy. *)
SomeWorks ==
  {[input |-> large, kind |-> "Legacy"], [input |-> small, kind |-> "Strict"]}

(* A boundary takes space; two large inputs do not fit, three small ones   *)
(* would.                                                                  *)
Sizes ==
  [work \in SomeWorks |->
     (IF work.input = large THEN 4 ELSE 1) +
     (IF work.kind = "Legacy" THEN 0 ELSE 1)]
=============================================================================
