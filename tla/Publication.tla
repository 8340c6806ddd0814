----------------------------- MODULE Publication -----------------------------
(***************************************************************************)
(* Publication of generated directories (pkgs/morphir-host): the           *)
(* transaction of filesystem.mbt and the drivers that run it, run_content  *)
(* of content.mbt and verify_and_publish of verification.mbt.  Publishers  *)
(* are processes on one file system.  Each call of it takes effect at once *)
(* or fails, other publishers go on between two calls, and a process may   *)
(* crash there: its directory is then left as it is, until someone         *)
(* recovers it by hand.                                                    *)
(***************************************************************************)
EXTENDS FiniteSets

CONSTANTS
  Publishers,
  Destinations, \* the directories that a task publishes
  Files,        \* the artifacts of a directory
  Creating,     \* publishers whose destination policy is Create
  User,         \* whose content a destination may have at first
  Absent        \* nothing is there

ASSUME PublicationAssumption ==
  /\ Creating \subseteq Publishers
  /\ User \notin Publishers
  /\ Files # {}

Content(by, files) == [by |-> by, files |-> files]
Whole(by) == Content(by, Files)
Creates(p) == p \in Creating

Originals == {Whole(User)}
Contents == [by : Publishers \cup {User}, files : SUBSET Files]

ASSUME AbsentAssumption == Absent \notin Contents \cup Destinations

VARIABLES
  place,     \* destination -> the directory there
  locked,    \* the directory .morphir-publish.lock exists
  staged,    \* destination -> the directory in its `stage`
  saved,     \* destination -> the directory in its `backup`
  phase,     \* publisher -> where its task is
  current,   \* publisher -> the destination it is committing
  recovery,  \* publisher -> the move back failed
  committed, \* publisher -> the destinations it has committed
  error,     \* publisher -> it has a publication error
  put        \* history: publisher -> the destinations it put in place

disk == <<place, locked, staged, saved>>
task == <<phase, current, recovery, committed, error>>
vars == <<disk, task, put>>

Phases == {"Ready", "Opening", "Staging", "Committing", "Saved",
           "Undoing", "Cleaning", "Ended", "Crashed"}

None == [d \in Destinations |-> Absent]

Init ==
  /\ place \in [Destinations -> Originals \cup {Absent}]
  /\ locked = FALSE
  /\ staged = None
  /\ saved = None
  /\ phase = [p \in Publishers |-> "Ready"]
  /\ current = [p \in Publishers |-> Absent]
  /\ recovery = [p \in Publishers |-> FALSE]
  /\ committed = [p \in Publishers |-> {}]
  /\ error = [p \in Publishers |-> FALSE]
  /\ put = [p \in Publishers |-> {}]

-----------------------------------------------------------------------------
Goes(p, from, to) ==
  /\ phase[p] = from
  /\ phase' = [phase EXCEPT ![p] = to]

(* The driver notes the error; what it goes on to do is `to`. *)
Fails(p, from, to) ==
  /\ Goes(p, from, to)
  /\ error' = [error EXCEPT ![p] = TRUE]
  /\ UNCHANGED <<current, recovery, committed, put>>

(* begin: an exclusive mkdir serializes the publishers.                    *)
Acquire(p) ==
  /\ Goes(p, "Ready", "Opening")
  /\ ~locked
  /\ locked' = TRUE
  /\ UNCHANGED <<place, staged, saved, current, recovery,
                 committed, error, put>>

(* The directory exists, or cannot be made: there is no transaction. *)
AcquireFails(p) ==
  /\ Fails(p, "Ready", "Ended")
  /\ UNCHANGED disk

(* The directories of the destinations are made in the stage.             *)
Open(p) ==
  /\ Goes(p, "Opening", "Staging")
  /\ staged' = [d \in Destinations |-> Content(p, {})]
  /\ UNCHANGED <<place, locked, saved, current, recovery,
                 committed, error, put>>

(* Some of them, until a call fails; begin then deletes what it owns.      *)
OpenFails(p) ==
  /\ Fails(p, "Opening", "Cleaning")
  /\ \E made \in SUBSET Destinations :
       staged' = [d \in Destinations |->
                    IF d \in made THEN Content(p, {}) ELSE Absent]
  /\ UNCHANGED <<place, locked, saved>>

StageFile(p, d, file) ==
  /\ phase[p] = "Staging"
  /\ file \notin staged[d].files
  /\ staged' = [staged EXCEPT ![d].files = @ \cup {file}]
  /\ UNCHANGED <<place, locked, saved, task, put>>

(* Fault: the destinations are committed while files are missing. *)
StagedEarly(p) ==
  /\ Goes(p, "Staging", "Committing")
  /\ UNCHANGED <<disk, current, recovery, committed, error, put>>

Staged(p) ==
  /\ Goes(p, "Staging", "Committing")
  /\ \A d \in Destinations : staged[d].files = Files
  /\ UNCHANGED <<disk, current, recovery, committed, error, put>>

(* A file cannot be staged, or the task is cancelled before a commit.      *)
TaskFails(p) ==
  /\ current[p] = Absent
  /\ \E from \in {"Staging", "Committing"} : Fails(p, from, "Cleaning")
  /\ UNCHANGED disk

-----------------------------------------------------------------------------
(* commit of a destination. *)

Select(p, d) ==
  /\ phase[p] = "Committing"
  /\ current[p] = Absent
  /\ d \notin committed[p]
  /\ current' = [current EXCEPT ![p] = d]
  /\ UNCHANGED <<disk, phase, recovery, committed, error, put>>

(* Before anything is moved; and the move itself may fail. *)
CommitFails(p) ==
  /\ current[p] # Absent
  /\ Fails(p, "Committing", "Cleaning")
  /\ UNCHANGED disk

(* Policy Replace: what is there is moved to the backup. *)
Save(p) ==
  /\ ~Creates(p)
  /\ current[p] # Absent
  /\ place[current[p]] # Absent
  /\ Goes(p, "Committing", "Saved")
  /\ saved' = [saved EXCEPT ![current[p]] = place[current[p]]]
  /\ place' = [place EXCEPT ![current[p]] = Absent]
  /\ UNCHANGED <<locked, staged, current, recovery, committed, error, put>>

(* The staged directory is moved to where nothing is. *)
Place(p) ==
  LET d == current[p]
  IN /\ d # Absent
     /\ \E from \in {"Committing", "Saved"} : Goes(p, from, "Committing")
     /\ place[d] = Absent
     /\ place' = [place EXCEPT ![d] = staged[d]]
     /\ staged' = [staged EXCEPT ![d] = Absent]
     /\ committed' = [committed EXCEPT ![p] = @ \cup {d}]
     /\ put' = [put EXCEPT ![p] = @ \cup {d}]
     /\ current' = [current EXCEPT ![p] = Absent]
     /\ UNCHANGED <<locked, saved, recovery, error>>

(* After the backup: it is moved back. *)
PlaceFails(p) ==
  /\ Fails(p, "Saved", "Undoing")
  /\ UNCHANGED disk

Undo(p) ==
  LET d == current[p]
  IN /\ Goes(p, "Undoing", "Cleaning")
     /\ place' = [place EXCEPT ![d] = saved[d]]
     /\ saved' = [saved EXCEPT ![d] = Absent]
     /\ UNCHANGED <<locked, staged, current, recovery, committed,
                    error, put>>

(* Fault: the failed move back is not noted. *)
UndoFailsUnnoted(p) ==
  /\ Goes(p, "Undoing", "Cleaning")
  /\ UNCHANGED <<disk, current, recovery, committed, error, put>>

UndoFails(p) ==
  /\ Goes(p, "Undoing", "Cleaning")
  /\ recovery' = [recovery EXCEPT ![p] = TRUE]
  /\ UNCHANGED <<disk, current, committed, error, put>>

AllCommitted(p) ==
  /\ committed[p] = Destinations
  /\ Goes(p, "Committing", "Cleaning")
  /\ UNCHANGED <<disk, current, recovery, committed, error, put>>

-----------------------------------------------------------------------------
(* abort: the end of every transaction. *)

(* Manual recovery is required, the directory is preserved. *)
Preserve(p) ==
  /\ recovery[p]
  /\ Fails(p, "Cleaning", "Ended")
  /\ UNCHANGED disk

Deletes(p) == phase[p] = "Cleaning" /\ ~recovery[p]

(* A file, or a directory without files. *)
Less(content, file) ==
  IF content.files = {} THEN Absent
  ELSE [content EXCEPT !.files = @ \ {file}]

(* delete_owned, entry by entry, in whatever order they are listed. *)
DeleteEntry(p, d, file) ==
  /\ Deletes(p)
  /\ \/ /\ staged[d] # Absent
        /\ staged' = [staged EXCEPT ![d] = Less(@, file)]
        /\ UNCHANGED saved
     \/ /\ saved[d] # Absent
        /\ saved' = [saved EXCEPT ![d] = Less(@, file)]
        /\ UNCHANGED staged
  /\ UNCHANGED <<place, locked, task, put>>

Release(p) ==
  /\ Deletes(p)
  /\ staged = None
  /\ saved = None
  /\ locked' = FALSE
  /\ Goes(p, "Cleaning", "Ended")
  /\ UNCHANGED <<place, staged, saved, current, recovery,
                 committed, error, put>>

DeleteFails(p) ==
  /\ Deletes(p)
  /\ Fails(p, "Cleaning", "Ended")
  /\ UNCHANGED disk

-----------------------------------------------------------------------------
(* Around the code. *)

Active(p) == phase[p] \notin {"Ready", "Ended", "Crashed"}

Crash(p) ==
  /\ Active(p)
  /\ phase' = [phase EXCEPT ![p] = "Crashed"]
  /\ UNCHANGED <<disk, current, recovery, committed, error, put>>

(* What is left of a publisher is put right by hand: a destination that is *)
(* missing is moved back from the backup, then the directory is removed.   *)
Recover ==
  /\ locked
  /\ \A p \in Publishers : ~Active(p)
  /\ place' = [d \in Destinations |->
                 IF place[d] = Absent THEN saved[d] ELSE place[d]]
  /\ locked' = FALSE
  /\ staged' = None
  /\ saved' = None
  /\ UNCHANGED <<task, put>>

Next ==
  \/ \E p \in Publishers :
       \/ Acquire(p) \/ AcquireFails(p) \/ Open(p) \/ OpenFails(p)
       \/ \E d \in Destinations, file \in Files : StageFile(p, d, file)
       \/ Staged(p) \/ TaskFails(p)
       \/ \E d \in Destinations : Select(p, d)
       \/ CommitFails(p) \/ Save(p) \/ Place(p) \/ PlaceFails(p)
       \/ Undo(p) \/ UndoFails(p) \/ AllCommitted(p)
       \/ Preserve(p)
       \/ \E d \in Destinations, file \in Files : DeleteEntry(p, d, file)
       \/ Release(p) \/ DeleteFails(p)
       \/ Crash(p)
  \/ Recover

Spec == Init /\ [][Next]_vars

-----------------------------------------------------------------------------
(* Properties. *)

TypeOK ==
  /\ place \in [Destinations -> Contents \cup {Absent}]
  /\ locked \in BOOLEAN
  /\ staged \in [Destinations -> Contents \cup {Absent}]
  /\ saved \in [Destinations -> Contents \cup {Absent}]
  /\ phase \in [Publishers -> Phases]
  /\ current \in [Publishers -> Destinations \cup {Absent}]
  /\ recovery \in [Publishers -> BOOLEAN]
  /\ committed \in [Publishers -> SUBSET Destinations]
  /\ error \in [Publishers -> BOOLEAN]
  /\ put \in [Publishers -> SUBSET Destinations]

(* One publisher at a time, and only while the directory is its own.       *)
OneAtATime ==
  /\ \A p, q \in Publishers : Active(p) /\ Active(q) => p = q
  /\ \A p \in Publishers : Active(p) => locked
  /\ ~locked => staged = None /\ saved = None

(* A destination never has a part of a directory, and one that is missing  *)
(* while its backup is there is whole in the backup.                       *)
PlacesAreWhole ==
  \A d \in Destinations :
    /\ place[d] # Absent => place[d].files = Files
    /\ place[d] = Absent /\ saved[d] # Absent => saved[d].files = Files

(* What a publisher has staged is its own, and whole when it commits.      *)
StageIsOwn ==
  \A p \in Publishers :
    /\ phase[p] = "Opening" => staged = None /\ saved = None
    /\ phase[p] = "Staging" =>
         \A d \in Destinations : staged[d] # Absent /\ staged[d].by = p
    /\ phase[p] \in {"Committing", "Saved"} =>
         \A d \in Destinations \ committed[p] : staged[d] = Whole(p)

(* The backup is the only copy while a destination is replaced, and after  *)
(* the move back failed; it is not deleted then.                           *)
BackupIsKept ==
  \A p \in Publishers :
    /\ phase[p] \in {"Staging", "Committing"} =>
         \A d \in Destinations \ committed[p] : saved[d] = Absent
    /\ phase[p] \in {"Saved", "Undoing"} =>
         /\ current[p] \in Destinations \ committed[p]
         /\ place[current[p]] = Absent
         /\ saved[current[p]] # Absent
         /\ \A d \in Destinations \ (committed[p] \cup {current[p]}) :
              saved[d] = Absent
    /\ Active(p) => \A d \in committed[p] : place[d] # Absent
    /\ Deletes(p) =>
         \A d \in Destinations : saved[d] # Absent => place[d] # Absent

(* What run_content and verify_and_publish return is true, whatever failed *)
(* on the way: the destinations it lists are those it put in place, and    *)
(* with no error they are all of them.                                     *)
ResultsAreTrue ==
  \A p \in Publishers :
    /\ committed[p] = put[p]
    /\ phase[p] \in {"Cleaning", "Ended"} /\ ~error[p] =>
         committed[p] = Destinations

(* What a task knows of itself, by where it is. *)
TasksInOrder ==
  \A p \in Publishers :
    /\ phase[p] \in {"Ready", "Opening", "Staging"} =>
         current[p] = Absent /\ committed[p] = {}
    /\ phase[p] = "Committing" => current[p] \notin committed[p]
    /\ phase[p] \in {"Saved", "Undoing"} => ~Creates(p)
    /\ phase[p] = "Undoing" => error[p]
    /\ recovery[p] => phase[p] \in {"Cleaning", "Ended", "Crashed"}

(* What the transactions of all publishers keep, together.                 *)
PublicationInv ==
  /\ TypeOK
  /\ OneAtATime
  /\ PlacesAreWhole
  /\ StageIsOwn
  /\ BackupIsKept
  /\ ResultsAreTrue
  /\ TasksInOrder

(* The content of a destination is what is there, or else its backup.      *)
content ==
  [d \in Destinations |-> IF place[d] = Absent THEN saved[d] ELSE place[d]]

Promise == INSTANCE PublishedContent WITH Contents <- Originals

KeepsContent == Promise!Spec
=============================================================================
