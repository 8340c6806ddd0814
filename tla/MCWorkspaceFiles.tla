-------------------------- MODULE MCWorkspaceFiles --------------------------
(* Instance of WorkspaceFiles for TLC. *)
EXTENDS WorkspaceFiles, TLC

CONSTANTS f, k, v, x, original

(* Each of the drafts replaces one of the files and removes the other. *)
BothFiles == [path \in Files |-> original]
TwoDrafts == {(f :> v) @@ (k :> Absent), (f :> Absent) @@ (k :> v)}
EitherFile == Permutations({f, k})

(* The user opens the folder twice, or other programs write it.  Of two    *)
(* selections none is being revoked after a setback.                       *)
Contents == {disk, aside} \cup {client[t].seen : t \in Tickets}
            \cup {grant[t].baseline : t \in {t \in Tickets : grant[t].held}}

Sparse ==
  chooser.attempt > 1 =>
    /\ \A content \in Contents \ {NoContent} :
         \A path \in Files : content[path] \notin Outside
    /\ chooser.setbacks > 0 => \A t \in Tickets : client[t].stage # "Revoking"
=============================================================================
