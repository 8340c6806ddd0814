-------------------------- MODULE MCMetadataSessions --------------------------
(* Instances of MetadataSessions for TLC. *)
EXTENDS MetadataSessions

CONSTANTS one, two
=============================================================================
