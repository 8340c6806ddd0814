-------------------------- MODULE Publication_proofs --------------------------
(***************************************************************************)
(* Theorems about Publication, for any publishers, destinations and files, *)
(* and any order of their calls, failures, crashes and recoveries.         *)
(***************************************************************************)
EXTENDS Publication, TLAPS

LEMMA ContentIsThere ==
  ASSUME NEW p \in Publishers, NEW files \in SUBSET Files
  PROVE  Content(p, files) \in Contents /\ Content(p, files) # Absent
<1>1. Content(p, files) \in Contents
  BY DEF Content, Contents
<1> QED BY <1>1, AbsentAssumption

LEMMA InitInv == Init => PublicationInv
<1> SUFFICES ASSUME Init PROVE PublicationInv
  OBVIOUS
<1>1. TypeOK
  <2>1. Originals \subseteq Contents
    BY DEF Originals, Whole, Content, Contents
  <2>2. place \in [Destinations -> Contents \cup {Absent}]
    BY <2>1 DEF Init
  <2> QED BY <2>2 DEF Init, TypeOK, None, Phases
<1>2. PlacesAreWhole
  BY DEF Init, PlacesAreWhole, None, Originals, Whole, Content
<1>3. OneAtATime /\ StageIsOwn
  BY DEF Init, OneAtATime, StageIsOwn, Active
<1>4. BackupIsKept
  BY DEF Init, BackupIsKept, Active, Deletes
<1>5. ResultsAreTrue /\ TasksInOrder
  BY DEF Init, ResultsAreTrue, TasksInOrder
<1> QED BY <1>1, <1>2, <1>3, <1>4, <1>5 DEF PublicationInv

-----------------------------------------------------------------------------
(* The transaction begins, and its files are staged. *)

(* The publisher takes the directory: what was left there is gone.         *)
LEMMA AcquireKeeps ==
  ASSUME PublicationInv, NEW p \in Publishers, Acquire(p)
  PROVE  PublicationInv'
<1> USE DEF PublicationInv, Acquire, Goes
<1>1. TypeOK'
  BY DEF TypeOK, Phases
<1>2. OneAtATime'
  BY DEF TypeOK, OneAtATime, Active
<1>3. PlacesAreWhole'
  BY DEF TypeOK, PlacesAreWhole
<1>4. StageIsOwn'
  BY DEF TypeOK, OneAtATime, Active, StageIsOwn
<1>5. BackupIsKept'
  BY DEF TypeOK, OneAtATime, Active, BackupIsKept, Deletes, TasksInOrder
<1>6. ResultsAreTrue'
  BY DEF TypeOK, ResultsAreTrue
<1>7. TasksInOrder'
  BY DEF TypeOK, TasksInOrder
<1> QED BY <1>1, <1>2, <1>3, <1>4, <1>5, <1>6, <1>7

LEMMA AcquireFailsKeeps ==
  ASSUME PublicationInv, NEW p \in Publishers, AcquireFails(p)
  PROVE  PublicationInv'
<1> USE DEF PublicationInv, AcquireFails, Fails, Goes, disk
<1>1. TypeOK'
  BY DEF TypeOK, Phases
<1>2. OneAtATime'
  BY DEF TypeOK, OneAtATime, Active
<1>3. PlacesAreWhole'
  BY DEF TypeOK, PlacesAreWhole
<1>4. StageIsOwn'
  BY DEF TypeOK, OneAtATime, Active, StageIsOwn
<1>5. BackupIsKept'
  BY DEF TypeOK, OneAtATime, Active, BackupIsKept, Deletes
<1>6. ResultsAreTrue'
  BY DEF TypeOK, ResultsAreTrue
<1>7. TasksInOrder'
  BY DEF TypeOK, TasksInOrder
<1> QED BY <1>1, <1>2, <1>3, <1>4, <1>5, <1>6, <1>7

LEMMA OpenKeeps ==
  ASSUME PublicationInv, NEW p \in Publishers, Open(p)
  PROVE  PublicationInv'
<1> USE DEF PublicationInv, Open, Goes
<1>1. TypeOK'
  BY DEF TypeOK, Phases, Content, Contents
<1>2. OneAtATime'
  BY DEF TypeOK, OneAtATime, Active
<1>3. PlacesAreWhole'
  BY DEF TypeOK, PlacesAreWhole
<1>4. StageIsOwn'
  BY ContentIsThere DEF TypeOK, OneAtATime, Active, StageIsOwn, Content
<1>5. BackupIsKept'
  BY DEF TypeOK, OneAtATime, Active, BackupIsKept, Deletes, StageIsOwn, None,
      TasksInOrder
<1>6. ResultsAreTrue'
  BY DEF TypeOK, ResultsAreTrue
<1>7. TasksInOrder'
  BY DEF TypeOK, TasksInOrder
<1> QED BY <1>1, <1>2, <1>3, <1>4, <1>5, <1>6, <1>7

LEMMA OpenFailsKeeps ==
  ASSUME PublicationInv, NEW p \in Publishers, OpenFails(p)
  PROVE  PublicationInv'
<1> USE DEF PublicationInv, OpenFails, Fails, Goes
<1>1. TypeOK'
  BY DEF TypeOK, Phases, Content, Contents
<1>2. OneAtATime'
  BY DEF TypeOK, OneAtATime, Active
<1>3. PlacesAreWhole'
  BY DEF TypeOK, PlacesAreWhole
<1>4. StageIsOwn'
  BY DEF TypeOK, OneAtATime, Active, StageIsOwn
<1>5. BackupIsKept'
  BY DEF TypeOK, OneAtATime, Active, BackupIsKept, Deletes, StageIsOwn, None
<1>6. ResultsAreTrue'
  BY DEF TypeOK, ResultsAreTrue
<1>7. TasksInOrder'
  BY DEF TypeOK, TasksInOrder
<1> QED BY <1>1, <1>2, <1>3, <1>4, <1>5, <1>6, <1>7

(* A file is added to the stage of one destination. *)
LEMMA StageFileKeeps ==
  ASSUME PublicationInv, NEW p \in Publishers, NEW d \in Destinations,
         NEW file \in Files, StageFile(p, d, file)
  PROVE  PublicationInv'
<1> USE DEF PublicationInv, StageFile, task
<1>1. TypeOK'
  BY DEF TypeOK, Phases, StageIsOwn, Contents
<1>2. OneAtATime'
  BY DEF TypeOK, OneAtATime, Active
<1>3. PlacesAreWhole'
  BY DEF TypeOK, PlacesAreWhole
<1>4. StageIsOwn'
  <2>1. /\ staged[d] \in Contents /\ staged[d].by = p
    BY DEF StageIsOwn, TypeOK
  <2>2. /\ staged'[d] \in Contents /\ staged'[d].by = p
        /\ \A e \in Destinations \ {d} : staged'[e] = staged[e]
    BY <2>1 DEF TypeOK, Contents
  <2>3. staged'[d] # Absent
    BY <2>2, AbsentAssumption
  <2>4. \A q \in Publishers \ {p} :
          phase[q] \notin {"Opening", "Staging", "Committing", "Saved"}
    BY DEF TypeOK, OneAtATime, Active
  <2> QED BY <2>2, <2>3, <2>4 DEF TypeOK, StageIsOwn
<1>5. BackupIsKept'
  BY DEF TypeOK, OneAtATime, Active, BackupIsKept, Deletes
<1>6. ResultsAreTrue'
  BY DEF TypeOK, ResultsAreTrue
<1>7. TasksInOrder'
  BY DEF TypeOK, TasksInOrder
<1> QED BY <1>1, <1>2, <1>3, <1>4, <1>5, <1>6, <1>7

LEMMA StagedKeeps ==
  ASSUME PublicationInv, NEW p \in Publishers, Staged(p)
  PROVE  PublicationInv'
<1> USE DEF PublicationInv, Staged, Goes, disk
<1>1. TypeOK'
  BY DEF TypeOK, Phases
<1>2. OneAtATime'
  BY DEF TypeOK, OneAtATime, Active
<1>3. PlacesAreWhole'
  BY DEF TypeOK, PlacesAreWhole
<1>4. StageIsOwn'
  BY DEF TypeOK, OneAtATime, Active, StageIsOwn, Whole, Content, Contents
<1>5. BackupIsKept'
  BY DEF TypeOK, OneAtATime, Active, BackupIsKept, Deletes
<1>6. ResultsAreTrue'
  BY DEF TypeOK, ResultsAreTrue
<1>7. TasksInOrder'
  BY DEF TypeOK, TasksInOrder
<1> QED BY <1>1, <1>2, <1>3, <1>4, <1>5, <1>6, <1>7

LEMMA TaskFailsKeeps ==
  ASSUME PublicationInv, NEW p \in Publishers, TaskFails(p)
  PROVE  PublicationInv'
<1> USE DEF PublicationInv, TaskFails, Fails, Goes, disk
<1>1. TypeOK'
  BY DEF TypeOK, Phases
<1>2. OneAtATime'
  BY DEF TypeOK, OneAtATime, Active
<1>3. PlacesAreWhole'
  BY DEF TypeOK, PlacesAreWhole
<1>4. StageIsOwn'
  BY DEF TypeOK, OneAtATime, Active, StageIsOwn
<1>5. BackupIsKept'
  BY DEF TypeOK, OneAtATime, Active, BackupIsKept, Deletes
<1>6. ResultsAreTrue'
  BY DEF TypeOK, ResultsAreTrue
<1>7. TasksInOrder'
  BY DEF TypeOK, TasksInOrder
<1> QED BY <1>1, <1>2, <1>3, <1>4, <1>5, <1>6, <1>7

-----------------------------------------------------------------------------
(* The commit of a destination. *)

LEMMA SelectKeeps ==
  ASSUME PublicationInv, NEW p \in Publishers, NEW d \in Destinations, Select(p, d)
  PROVE  PublicationInv'
<1> USE DEF PublicationInv, Select, disk
<1>1. TypeOK'
  BY DEF TypeOK, Phases
<1>2. OneAtATime'
  BY DEF TypeOK, OneAtATime, Active
<1>3. PlacesAreWhole'
  BY DEF TypeOK, PlacesAreWhole
<1>4. StageIsOwn'
  BY DEF TypeOK, OneAtATime, Active, StageIsOwn
<1>5. BackupIsKept'
  BY DEF TypeOK, OneAtATime, Active, BackupIsKept, Deletes, TasksInOrder
<1>6. ResultsAreTrue'
  BY DEF TypeOK, ResultsAreTrue
<1>7. TasksInOrder'
  BY DEF TypeOK, TasksInOrder
<1> QED BY <1>1, <1>2, <1>3, <1>4, <1>5, <1>6, <1>7

LEMMA CommitFailsKeeps ==
  ASSUME PublicationInv, NEW p \in Publishers, CommitFails(p)
  PROVE  PublicationInv'
<1> USE DEF PublicationInv, CommitFails, Fails, Goes, disk
<1>1. TypeOK'
  BY DEF TypeOK, Phases
<1>2. OneAtATime'
  BY DEF TypeOK, OneAtATime, Active
<1>3. PlacesAreWhole'
  BY DEF TypeOK, PlacesAreWhole
<1>4. StageIsOwn'
  BY DEF TypeOK, OneAtATime, Active, StageIsOwn
<1>5. BackupIsKept'
  BY DEF TypeOK, OneAtATime, Active, BackupIsKept, Deletes
<1>6. ResultsAreTrue'
  BY DEF TypeOK, ResultsAreTrue
<1>7. TasksInOrder'
  BY DEF TypeOK, TasksInOrder
<1> QED BY <1>1, <1>2, <1>3, <1>4, <1>5, <1>6, <1>7

(* The only copy of the destination is now the backup, and it is whole.    *)
LEMMA SaveKeeps ==
  ASSUME PublicationInv, NEW p \in Publishers, Save(p)
  PROVE  PublicationInv'
<1> USE DEF PublicationInv, Save, Goes
<1>1. TypeOK'
  BY DEF TypeOK, Phases
<1>2. OneAtATime'
  BY DEF TypeOK, OneAtATime, Active
<1>3. PlacesAreWhole'
  BY DEF TypeOK, PlacesAreWhole, BackupIsKept, TasksInOrder
<1>4. StageIsOwn'
  BY DEF TypeOK, OneAtATime, Active, StageIsOwn
<1>5. BackupIsKept'
  BY DEF TypeOK, OneAtATime, Active, BackupIsKept, Deletes, TasksInOrder
<1>6. ResultsAreTrue'
  BY DEF TypeOK, ResultsAreTrue
<1>7. TasksInOrder'
  BY DEF TypeOK, TasksInOrder, BackupIsKept
<1> QED BY <1>1, <1>2, <1>3, <1>4, <1>5, <1>6, <1>7

(* What is put in place was staged whole. *)
LEMMA PlaceKeeps ==
  ASSUME PublicationInv, NEW p \in Publishers, Place(p)
  PROVE  PublicationInv'
<1> USE DEF PublicationInv, Place, Goes
<1>1. TypeOK'
  BY DEF TypeOK, Phases
<1>2. OneAtATime'
  BY DEF TypeOK, OneAtATime, Active
<1>3. PlacesAreWhole'
  BY DEF TypeOK, PlacesAreWhole, StageIsOwn, BackupIsKept, TasksInOrder, Whole,
      Content
<1>4. StageIsOwn'
  BY DEF TypeOK, OneAtATime, Active, StageIsOwn
<1>5. BackupIsKept'
  BY ContentIsThere, AbsentAssumption DEF TypeOK, OneAtATime, Active, BackupIsKept,
      Deletes, StageIsOwn, TasksInOrder, Whole
<1>6. ResultsAreTrue'
  BY DEF TypeOK, ResultsAreTrue
<1>7. TasksInOrder'
  BY AbsentAssumption DEF TypeOK, TasksInOrder
<1> QED BY <1>1, <1>2, <1>3, <1>4, <1>5, <1>6, <1>7

LEMMA PlaceFailsKeeps ==
  ASSUME PublicationInv, NEW p \in Publishers, PlaceFails(p)
  PROVE  PublicationInv'
<1> USE DEF PublicationInv, PlaceFails, Fails, Goes, disk
<1>1. TypeOK'
  BY DEF TypeOK, Phases
<1>2. OneAtATime'
  BY DEF TypeOK, OneAtATime, Active
<1>3. PlacesAreWhole'
  BY DEF TypeOK, PlacesAreWhole
<1>4. StageIsOwn'
  BY DEF TypeOK, OneAtATime, Active, StageIsOwn
<1>5. BackupIsKept'
  BY DEF TypeOK, OneAtATime, Active, BackupIsKept, Deletes
<1>6. ResultsAreTrue'
  BY DEF TypeOK, ResultsAreTrue
<1>7. TasksInOrder'
  BY DEF TypeOK, TasksInOrder
<1> QED BY <1>1, <1>2, <1>3, <1>4, <1>5, <1>6, <1>7

(* The backup goes back to where it was. *)
LEMMA UndoKeeps ==
  ASSUME PublicationInv, NEW p \in Publishers, Undo(p)
  PROVE  PublicationInv'
<1> USE DEF PublicationInv, Undo, Goes
<1>1. TypeOK'
  BY DEF TypeOK, Phases
<1>2. OneAtATime'
  BY DEF TypeOK, OneAtATime, Active
<1>3. PlacesAreWhole'
  BY DEF TypeOK, PlacesAreWhole, BackupIsKept
<1>4. StageIsOwn'
  BY DEF TypeOK, OneAtATime, Active, StageIsOwn
<1>5. BackupIsKept'
  BY DEF TypeOK, OneAtATime, Active, BackupIsKept, Deletes
<1>6. ResultsAreTrue'
  BY DEF TypeOK, ResultsAreTrue, TasksInOrder
<1>7. TasksInOrder'
  BY DEF TypeOK, TasksInOrder
<1> QED BY <1>1, <1>2, <1>3, <1>4, <1>5, <1>6, <1>7

LEMMA UndoFailsKeeps ==
  ASSUME PublicationInv, NEW p \in Publishers, UndoFails(p)
  PROVE  PublicationInv'
<1> USE DEF PublicationInv, UndoFails, Goes, disk
<1>1. TypeOK'
  BY DEF TypeOK, Phases
<1>2. OneAtATime'
  BY DEF TypeOK, OneAtATime, Active
<1>3. PlacesAreWhole'
  BY DEF TypeOK, PlacesAreWhole
<1>4. StageIsOwn'
  BY DEF TypeOK, OneAtATime, Active, StageIsOwn
<1>5. BackupIsKept'
  BY DEF TypeOK, OneAtATime, Active, BackupIsKept, Deletes
<1>6. ResultsAreTrue'
  BY DEF TypeOK, ResultsAreTrue, TasksInOrder
<1>7. TasksInOrder'
  BY DEF TypeOK, TasksInOrder
<1> QED BY <1>1, <1>2, <1>3, <1>4, <1>5, <1>6, <1>7

LEMMA AllCommittedKeeps ==
  ASSUME PublicationInv, NEW p \in Publishers, AllCommitted(p)
  PROVE  PublicationInv'
<1> USE DEF PublicationInv, AllCommitted, Goes, disk
<1>1. TypeOK'
  BY DEF TypeOK, Phases
<1>2. OneAtATime'
  BY DEF TypeOK, OneAtATime, Active
<1>3. PlacesAreWhole'
  BY DEF TypeOK, PlacesAreWhole
<1>4. StageIsOwn'
  BY DEF TypeOK, OneAtATime, Active, StageIsOwn
<1>5. BackupIsKept'
  BY DEF TypeOK, OneAtATime, Active, BackupIsKept, Deletes
<1>6. ResultsAreTrue'
  BY DEF TypeOK, ResultsAreTrue, TasksInOrder
<1>7. TasksInOrder'
  BY DEF TypeOK, TasksInOrder
<1> QED BY <1>1, <1>2, <1>3, <1>4, <1>5, <1>6, <1>7

-----------------------------------------------------------------------------
(* The end of a transaction. *)

LEMMA PreserveKeeps ==
  ASSUME PublicationInv, NEW p \in Publishers, Preserve(p)
  PROVE  PublicationInv'
<1> USE DEF PublicationInv, Preserve, Fails, Goes, disk
<1>1. TypeOK'
  BY DEF TypeOK, Phases
<1>2. OneAtATime'
  BY DEF TypeOK, OneAtATime, Active
<1>3. PlacesAreWhole'
  BY DEF TypeOK, PlacesAreWhole
<1>4. StageIsOwn'
  BY DEF TypeOK, OneAtATime, Active, StageIsOwn
<1>5. BackupIsKept'
  BY DEF TypeOK, OneAtATime, Active, BackupIsKept, Deletes
<1>6. ResultsAreTrue'
  BY DEF TypeOK, ResultsAreTrue
<1>7. TasksInOrder'
  BY DEF TypeOK, TasksInOrder
<1> QED BY <1>1, <1>2, <1>3, <1>4, <1>5, <1>6, <1>7

(* A backup loses its files only when its destination is there.            *)
LEMMA DeleteEntryKeeps ==
  ASSUME PublicationInv, NEW p \in Publishers, NEW d \in Destinations,
         NEW file \in Files, DeleteEntry(p, d, file)
  PROVE  PublicationInv'
<1> USE DEF PublicationInv, DeleteEntry, task, Deletes
<1>1. TypeOK'
  BY AbsentAssumption DEF TypeOK, Phases, Less, Contents
<1>2. OneAtATime'
  BY DEF TypeOK, OneAtATime, Active
<1>3. PlacesAreWhole'
  BY DEF TypeOK, PlacesAreWhole, BackupIsKept
<1>4. StageIsOwn'
  BY DEF TypeOK, OneAtATime, Active, StageIsOwn
<1>5. BackupIsKept'
  BY DEF TypeOK, OneAtATime, Active, BackupIsKept, Less, Contents
<1>6. ResultsAreTrue'
  BY DEF TypeOK, ResultsAreTrue
<1>7. TasksInOrder'
  BY DEF TypeOK, TasksInOrder
<1> QED BY <1>1, <1>2, <1>3, <1>4, <1>5, <1>6, <1>7

LEMMA ReleaseKeeps ==
  ASSUME PublicationInv, NEW p \in Publishers, Release(p)
  PROVE  PublicationInv'
<1> USE DEF PublicationInv, Release, Goes, Deletes
<1>1. TypeOK'
  BY DEF TypeOK, Phases
<1>2. OneAtATime'
  BY DEF TypeOK, OneAtATime, Active
<1>3. PlacesAreWhole'
  BY DEF TypeOK, PlacesAreWhole
<1>4. StageIsOwn'
  BY DEF TypeOK, OneAtATime, Active, StageIsOwn
<1>5. BackupIsKept'
  BY DEF TypeOK, OneAtATime, Active, BackupIsKept
<1>6. ResultsAreTrue'
  BY DEF TypeOK, ResultsAreTrue
<1>7. TasksInOrder'
  BY DEF TypeOK, TasksInOrder
<1> QED BY <1>1, <1>2, <1>3, <1>4, <1>5, <1>6, <1>7

LEMMA DeleteFailsKeeps ==
  ASSUME PublicationInv, NEW p \in Publishers, DeleteFails(p)
  PROVE  PublicationInv'
<1> USE DEF PublicationInv, DeleteFails, Fails, Goes, disk, Deletes
<1>1. TypeOK'
  BY DEF TypeOK, Phases
<1>2. OneAtATime'
  BY DEF TypeOK, OneAtATime, Active
<1>3. PlacesAreWhole'
  BY DEF TypeOK, PlacesAreWhole
<1>4. StageIsOwn'
  BY DEF TypeOK, OneAtATime, Active, StageIsOwn
<1>5. BackupIsKept'
  BY DEF TypeOK, OneAtATime, Active, BackupIsKept
<1>6. ResultsAreTrue'
  BY DEF TypeOK, ResultsAreTrue
<1>7. TasksInOrder'
  BY DEF TypeOK, TasksInOrder
<1> QED BY <1>1, <1>2, <1>3, <1>4, <1>5, <1>6, <1>7

-----------------------------------------------------------------------------
(* A crash leaves everything as it is; a recovery moves the backups back.  *)

LEMMA CrashKeeps ==
  ASSUME PublicationInv, NEW p \in Publishers, Crash(p)
  PROVE  PublicationInv'
<1> USE DEF PublicationInv, Crash, disk
<1>1. TypeOK'
  BY DEF TypeOK, Phases
<1>2. OneAtATime'
  BY DEF TypeOK, OneAtATime, Active
<1>3. PlacesAreWhole'
  BY DEF TypeOK, PlacesAreWhole
<1>4. StageIsOwn'
  BY DEF TypeOK, OneAtATime, Active, StageIsOwn
<1>5. BackupIsKept'
  BY DEF TypeOK, OneAtATime, Active, BackupIsKept, Deletes
<1>6. ResultsAreTrue'
  BY DEF TypeOK, ResultsAreTrue
<1>7. TasksInOrder'
  BY DEF TypeOK, TasksInOrder
<1> QED BY <1>1, <1>2, <1>3, <1>4, <1>5, <1>6, <1>7

LEMMA RecoverKeeps ==
  ASSUME PublicationInv, Recover
  PROVE  PublicationInv'
<1> USE DEF PublicationInv, Recover, task
<1>1. TypeOK'
  BY DEF TypeOK, Phases, None
<1>2. OneAtATime'
  BY DEF TypeOK, OneAtATime, Active
<1>3. PlacesAreWhole'
  BY DEF TypeOK, PlacesAreWhole, None
<1>4. StageIsOwn'
  BY DEF TypeOK, OneAtATime, Active, StageIsOwn
<1>5. BackupIsKept'
  BY DEF TypeOK, OneAtATime, Active, BackupIsKept, Deletes
<1>6. ResultsAreTrue'
  BY DEF TypeOK, ResultsAreTrue
<1>7. TasksInOrder'
  BY DEF TypeOK, TasksInOrder
<1> QED BY <1>1, <1>2, <1>3, <1>4, <1>5, <1>6, <1>7

-----------------------------------------------------------------------------
LEMMA StepInv ==
  ASSUME PublicationInv, [Next]_vars
  PROVE  PublicationInv'
<1>1. ASSUME NEW p \in Publishers,
             \/ Acquire(p) \/ AcquireFails(p) \/ Open(p) \/ OpenFails(p)
             \/ Staged(p) \/ TaskFails(p)
      PROVE  PublicationInv'
  BY <1>1, AcquireKeeps, AcquireFailsKeeps, OpenKeeps, OpenFailsKeeps,
     StagedKeeps, TaskFailsKeeps
<1>2. ASSUME NEW p \in Publishers, NEW d \in Destinations,
             \/ \E file \in Files : StageFile(p, d, file) \/ DeleteEntry(p, d, file)
             \/ Select(p, d)
      PROVE  PublicationInv'
  BY <1>2, StageFileKeeps, DeleteEntryKeeps, SelectKeeps
<1>3. ASSUME NEW p \in Publishers,
             \/ CommitFails(p) \/ Save(p) \/ Place(p) \/ PlaceFails(p)
             \/ Undo(p) \/ UndoFails(p) \/ AllCommitted(p)
      PROVE  PublicationInv'
  BY <1>3, CommitFailsKeeps, SaveKeeps, PlaceKeeps, PlaceFailsKeeps, UndoKeeps,
     UndoFailsKeeps, AllCommittedKeeps
<1>4. ASSUME NEW p \in Publishers,
             Preserve(p) \/ Release(p) \/ DeleteFails(p) \/ Crash(p)
      PROVE  PublicationInv'
  BY <1>4, PreserveKeeps, ReleaseKeeps, DeleteFailsKeeps, CrashKeeps
<1>5. CASE Recover
  BY <1>5, RecoverKeeps
<1>6. CASE UNCHANGED vars
  BY <1>6 DEF vars, disk, task, PublicationInv, TypeOK, OneAtATime,
     PlacesAreWhole, StageIsOwn, BackupIsKept, ResultsAreTrue, TasksInOrder,
     Active, Deletes
<1> QED BY <1>1, <1>2, <1>3, <1>4, <1>5, <1>6 DEF Next

(* Whatever fails, crashes or is recovered in whatever order: publishers   *)
(* never meet, no destination has a part of a directory, the only copy of  *)
(* one is never deleted, and what a task reports is what it did.           *)
THEOREM PublicationIsSafe == Spec => []PublicationInv
<1>1. Init => PublicationInv
  BY InitInv
<1>2. PublicationInv /\ [Next]_vars => PublicationInv'
  BY StepInv
<1> QED BY <1>1, <1>2, PTL DEF Spec

-----------------------------------------------------------------------------
(* The calls of a transaction are steps of PublishedContent. *)

LEMMA InitPromises == Init => Promise!Init
<1> SUFFICES ASSUME Init PROVE Promise!Init
  OBVIOUS
<1>1. \A d \in Destinations : content[d] = place[d]
  BY DEF Init, content, None
<1>2. \A d \in Destinations : content[d] \in Originals \cup {Absent}
  BY <1>1 DEF Init
<1> QED BY <1>2 DEF Promise!Init, content

(* The move that puts a staged directory in place publishes it. *)
LEMMA PlacePublishes ==
  ASSUME PublicationInv, NEW p \in Publishers, Place(p)
  PROVE  Promise!Next
<1> DEFINE d == current[p]
<1>1. /\ d \in Destinations \ committed[p]
      /\ phase[p] \in {"Committing", "Saved"}
      /\ place[d] = Absent
  BY DEF PublicationInv, TypeOK, Place, Goes, TasksInOrder, BackupIsKept
<1>2. staged[d] = Whole(p) /\ Whole(p) # Absent
  BY <1>1, ContentIsThere DEF PublicationInv, StageIsOwn, Whole
<1>3. content' = [content EXCEPT ![d] = Whole(p)]
  BY <1>1, <1>2 DEF content, Place, PublicationInv, TypeOK
<1>4. Creates(p) => content[d] = Absent
  BY <1>1 DEF PublicationInv, TasksInOrder, BackupIsKept, content
<1>5. Promise!Publish(p, d)
  BY <1>3, <1>4 DEF Promise!Publish
<1> QED BY <1>1, <1>5 DEF Promise!Next

(* A directory that is moved to the backup, or back, is the same content.  *)
LEMMA MovesKeepContent ==
  ASSUME PublicationInv, NEW p \in Publishers, Save(p) \/ Undo(p)
  PROVE  UNCHANGED content
<1>1. CASE Save(p)
  BY <1>1 DEF Save, PublicationInv, TypeOK, content
<1>2. CASE Undo(p)
  BY <1>2 DEF Undo, Goes, PublicationInv, TypeOK, BackupIsKept, content
<1> QED BY <1>1, <1>2

(* Only backups of destinations that are there are deleted. *)
LEMMA DeletionKeepsContent ==
  ASSUME PublicationInv, NEW p \in Publishers, NEW d \in Destinations,
         NEW file \in Files, DeleteEntry(p, d, file)
  PROVE  UNCHANGED content
<1>1. \A e \in Destinations : place[e] = Absent => saved'[e] = saved[e]
  BY DEF DeleteEntry, PublicationInv, TypeOK, BackupIsKept
<1>2. place' = place
  BY DEF DeleteEntry
<1> QED BY <1>1, <1>2 DEF content

LEMMA RecoveryKeepsContent ==
  ASSUME PublicationInv, Recover
  PROVE  UNCHANGED content
BY DEF Recover, None, content

LEMMA StepPromises ==
  ASSUME PublicationInv, [Next]_vars
  PROVE  [Promise!Next]_content
<1>1. CASE \E p \in Publishers : Place(p)
  BY <1>1, PlacePublishes
<1>2. CASE \E p \in Publishers : Save(p) \/ Undo(p)
  BY <1>2, MovesKeepContent
<1>3. CASE \E p \in Publishers, d \in Destinations, file \in Files :
             DeleteEntry(p, d, file)
  BY <1>3, DeletionKeepsContent
<1>4. CASE Recover
  BY <1>4, RecoveryKeepsContent
<1>5. ASSUME NEW p \in Publishers,
             \/ Acquire(p) \/ AcquireFails(p) \/ Open(p) \/ OpenFails(p)
             \/ \E d \in Destinations, file \in Files : StageFile(p, d, file)
             \/ Staged(p) \/ TaskFails(p)
             \/ \E d \in Destinations : Select(p, d)
             \/ CommitFails(p) \/ PlaceFails(p) \/ UndoFails(p)
             \/ AllCommitted(p) \/ Preserve(p) \/ Release(p)
             \/ DeleteFails(p) \/ Crash(p)
      PROVE  UNCHANGED <<place, saved>>
  BY <1>5 DEF Acquire, AcquireFails, Open, OpenFails, StageFile, Staged,
     TaskFails, Select, CommitFails, PlaceFails, UndoFails, AllCommitted,
     Preserve, Release, DeleteFails, Crash, disk
<1>6. CASE UNCHANGED vars
  BY <1>6 DEF vars, disk, content
<1>7. UNCHANGED <<place, saved>> => UNCHANGED content
  BY DEF content
<1> QED BY <1>1, <1>2, <1>3, <1>4, <1>5, <1>6, <1>7 DEF Next

(* A destination is replaced in one step by the whole of another content,  *)
(* created only where nothing was, and never lost: the transaction of      *)
(* filesystem.mbt implements PublishedContent.                             *)
THEOREM PublicationKeepsContent == Spec => KeepsContent
<1>1. Init => Promise!Init
  BY InitPromises
<1>2. PublicationInv /\ [Next]_vars => [Promise!Next]_content
  BY StepPromises
<1> QED BY <1>1, <1>2, PublicationIsSafe, PTL DEF Spec, KeepsContent, Promise!Spec
=============================================================================
