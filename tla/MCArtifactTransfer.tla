-------------------------- MODULE MCArtifactTransfer --------------------------
(* Instances of ArtifactTransfer for TLC. *)
EXTENDS ArtifactTransfer

(* No file, and two files of which one takes two reads. *)
SomeInventories == {<<>>, <<2, 1>>}
=============================================================================
