--------------------------- MODULE MCWorkerSession ---------------------------
(* Instances of WorkerSession for TLC. *)
EXTENDS WorkerSession, TLC

Reply(kind, id, body) == [kind |-> kind, id |-> id, body |-> body]

(* A worker that accepts everything, answers with any ID at any time.      *)
WillingWorker == {Reply("result", id, "accept") : id \in 1..3}

(* A worker that also rejects, fails and talks out of turn.                *)
FaultyWorker ==
  {Reply("result", 1, body) : body \in {"accept", "reject", "malformed"}} \cup
  {Reply("error", id, "accept") : id \in 1..2} \cup
  {Reply("result", 2, "accept"), Reply("notification", 0, "accept"),
   Reply("oversized", 0, "accept")}

Interchangeable == Permutations(Callers) \cup Permutations(Closers)
=============================================================================
