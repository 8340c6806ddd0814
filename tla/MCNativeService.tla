--------------------------- MODULE MCNativeService ---------------------------
(* Instances of NativeService for TLC. *)
EXTENDS NativeService, TLC

CONSTANTS own, large, other, c1

NativeOffer == [authority |-> "native", cancel |-> TRUE]

SomeWorks == {[input |-> "scheme", kind |-> "Strict"]}
Sizes == [work \in SomeWorks |-> 1]

Admitted ==
  {Captured(value, cleanup) : value \in Values \ Other, cleanup \in BOOLEAN}
  \cup {Cancelled, Failed}
AskedOfOne == c1 :> {"Cancel", "Release"}

Refused == {Captured(value, cleanup) : value \in Other, cleanup \in BOOLEAN}
=============================================================================
