----------------------------- MODULE FolderEdit -----------------------------
(***************************************************************************)
(* The edit of one workspace folder (morphir-workbench-native, workspace/  *)
(* write.mbt and filesystem.c): WriteRoot::snapshot and WriteRoot::apply   *)
(* as a commit uses them (workspace/transfer.mbt:276-287).  The folder is  *)
(* compared with the inventory that the edit starts from; each file that   *)
(* the edit touches is verified, moved into the lock directory, verified   *)
(* there and replaced; the backups are removed and the folder is read      *)
(* back.  A failure before the backups are removed is rolled back.         *)
(*                                                                         *)
(* A step is one file's turn in a stage, so that other programs, which     *)
(* take no lock, write between any two.  They write by name, never below   *)
(* the lock directory nor through a descriptor of a file that has been     *)
(* moved.  Of a file matters which version it is.  A directory that the    *)
(* edit removes moves as a whole (filesystem.c:413-429) and is one of the  *)
(* Files.  The directories that are made for new files hold nothing and    *)
(* are left out, and so is the order of the files in a stage.              *)
(***************************************************************************)
CONSTANTS
  Files,    \* paths of a folder
  Versions, \* versions of a file
  Absent,   \* the version of a file that is not there
  Outside   \* versions that other programs write

ASSUME VersionsAssumption ==
  /\ Absent \in Versions
  /\ Outside \subseteq Versions

Inventories == [Files -> Versions]

VARIABLES
  disk,     \* file -> its version
  aside,    \* file -> the version moved into the lock directory
  recovery, \* .morphir-workspace-edit.lock was left in the folder
  edit      \* the edit in progress, or NoEdit

folder == <<disk, aside, recovery, edit>>

NoEdit == [stage |-> "None"]
NothingAside == [f \in Files |-> Absent]

Editing == edit # NoEdit

(* The edit of `request` from inventory `old` to `new`.  `left` are the    *)
(* files whose turn in the stage is still to come, `changed` those whose   *)
(* name is no longer as the edit found it, `checked` the one that a        *)
(* rollback is about to unlink.                                            *)
NewEdit(request, old, new) ==
  [stage |-> "Compare", request |-> request, old |-> old, new |-> new,
   left |-> Files, changed |-> {}, checked |-> {}, failed |-> FALSE]

-----------------------------------------------------------------------------
(* difference(baseline, files).                                            *)
Touched == {f \in Files : edit.new[f] # edit.old[f]}

Aside == {f \in Files : aside[f] # Absent}

(* Set aside and not yet replaced: one file at most.                       *)
Unreplaced == Aside \cap edit.left

Turn(stage, f) == edit.stage = stage /\ f \in edit.left

Passed(f) == [edit EXCEPT !.left = @ \ {f}]

(* The rollback begins with the files that were installed.                 *)
RolledBack(changed) ==
  [edit EXCEPT !.stage = "Undo", !.changed = changed,
               !.left = {f \in edit.changed \ edit.left :
                           edit.new[f] # Absent}]

(* The stages when all goes well, and those of a rollback.                 *)
StageAfter ==
  [Compare |-> "Verify", Verify |-> "Swap", Swap |-> "Clean",
   Clean |-> "ReadBack", Undo |-> "Restore"]

NextStage ==
  /\ edit.stage \in DOMAIN StageAfter
  /\ edit.left = {} /\ edit.checked = {}
  /\ edit' = [edit EXCEPT
                !.stage = StageAfter[edit.stage],
                !.left = CASE edit.stage \in {"Compare", "Verify"} -> Touched
                           [] edit.stage \in {"Swap", "Undo"} -> Aside
                           [] edit.stage = "Clean" -> Files]
  /\ UNCHANGED <<disk, aside, recovery>>

(* The snapshot of the commit finds the file as it was.                    *)
Compare(f) ==
  /\ Turn("Compare", f) /\ ~recovery
  /\ disk[f] = edit.old[f]
  /\ edit' = Passed(f)
  /\ UNCHANGED <<disk, aside, recovery>>

(* The preflight of apply finds it so again and stages what replaces it.   *)
Verify(f) ==
  /\ Turn("Verify", f)
  /\ disk[f] = edit.old[f]
  /\ edit' = Passed(f)
  /\ UNCHANGED <<disk, aside, recovery>>

MovesAside(f) ==
  /\ Turn("Swap", f) /\ Unreplaced = {}
  /\ edit.old[f] # Absent /\ disk[f] # Absent
  /\ aside' = [aside EXCEPT ![f] = disk[f]]
  /\ disk' = [disk EXCEPT ![f] = Absent]
  /\ UNCHANGED recovery

GoesOn(f) ==
  edit' = [edit EXCEPT !.changed = @ \cup {f},
                       !.left = IF edit.new[f] = Absent THEN @ \ {f} ELSE @]

(* Fault: without the comparison of filesystem.c:440.                      *)
SetAsideUnverified(f) == MovesAside(f) /\ GoesOn(f)

(* What has the name is moved, whatever it is by now, and only then        *)
(* verified.                                                               *)
SetAside(f) ==
  /\ MovesAside(f)
  /\ IF disk[f] = edit.old[f] THEN GoesOn(f)
                              ELSE edit' = RolledBack(edit.changed \cup {f})

(* "A no-replace rename."                                                  *)
Install(f) ==
  /\ Turn("Swap", f)
  /\ edit.new[f] # Absent
  /\ Unreplaced = IF edit.old[f] = Absent THEN {} ELSE {f}
  /\ disk[f] = Absent
  /\ disk' = [disk EXCEPT ![f] = edit.new[f]]
  /\ edit' = [edit EXCEPT !.changed = @ \cup {f}, !.left = @ \ {f}]
  /\ UNCHANGED <<aside, recovery>>

(* "Backups are retained until every install succeeds."                    *)
Clean(f) ==
  /\ Turn("Clean", f)
  /\ aside' = [aside EXCEPT ![f] = Absent]
  /\ edit' = Passed(f)
  /\ UNCHANGED <<disk, recovery>>

ReadBack(f) ==
  /\ Turn("ReadBack", f)
  /\ disk[f] = edit.new[f]
  /\ edit' = Passed(f)
  /\ UNCHANGED <<disk, aside, recovery>>

-----------------------------------------------------------------------------
(* Rollback.  A file is not as it was, has come in the way, or a call      *)
(* fails.                                                                  *)
GiveUp ==
  /\ edit.stage \in {"Verify", "Swap"}
  /\ edit' = RolledBack(edit.changed)
  /\ UNCHANGED <<disk, aside, recovery>>

(* What was installed is removed: two calls, the second of which goes by   *)
(* name.                                                                   *)
CheckInstalled(f) ==
  /\ Turn("Undo", f) /\ edit.checked = {}
  /\ disk[f] = edit.new[f]
  /\ edit' = [edit EXCEPT !.left = @ \ {f}, !.checked = {f}]
  /\ UNCHANGED <<disk, aside, recovery>>

Unlink(f) ==
  /\ Editing /\ f \in edit.checked
  /\ disk[f] # Absent
  /\ disk' = [disk EXCEPT ![f] = Absent]
  /\ \E failed \in {edit.failed, TRUE} :
       edit' = [edit EXCEPT !.checked = {}, !.failed = failed,
                            !.changed = IF f \in Aside THEN @ ELSE @ \ {f}]
  /\ UNCHANGED <<aside, recovery>>

(* What was set aside moves back, if its name is free.                     *)
Restore(f) ==
  /\ Turn("Restore", f)
  /\ disk[f] = Absent
  /\ disk' = [disk EXCEPT ![f] = aside[f]]
  /\ aside' = [aside EXCEPT ![f] = Absent]
  /\ \E failed \in {edit.failed, TRUE} :
       edit' = [edit EXCEPT !.left = @ \ {f}, !.changed = @ \ {f},
                            !.failed = failed]
  /\ UNCHANGED recovery

(* The rollback goes on with the next file, but cannot be confirmed.       *)
NotUndone(f) ==
  /\ edit.stage \in {"Undo", "Restore"}
  /\ f \in edit.checked \/ (f \in edit.left /\ edit.checked = {})
  /\ edit' = [edit EXCEPT !.left = @ \ {f}, !.checked = {}, !.failed = TRUE]
  /\ UNCHANGED <<disk, aside, recovery>>

EditStep ==
  \/ NextStage \/ GiveUp
  \/ \E f \in Files :
       \/ Compare(f) \/ Verify(f) \/ SetAside(f) \/ Install(f)
       \/ Clean(f) \/ ReadBack(f)
       \/ CheckInstalled(f) \/ Unlink(f) \/ Restore(f) \/ NotUndone(f)

-----------------------------------------------------------------------------
(* How an edit ends.                                                       *)
Finished(stage) ==
  /\ edit.stage = stage
  /\ edit.left = {} /\ edit.checked = {}

(* Fault: each rollback is taken for complete (without filesystem.c:474).  *)
EndsRejectedUnconfirmed ==
  /\ edit.stage = "Compare" \/ Finished("Restore")
  /\ UNCHANGED recovery

(* Before anything was touched, or rolled back: Rejected.  A lock that is  *)
(* there already refuses too (filesystem.c:345).                           *)
EndsRejected ==
  /\ \/ edit.stage = "Compare"
     \/ Finished("Restore") /\ ~edit.failed
  /\ UNCHANGED recovery

(* Fault: the lock is removed with what is in it.                          *)
EndsUnlocked ==
  /\ \/ edit.stage = "Compare" /\ ~recovery
     \/ edit.stage \in {"Clean", "ReadBack"}
     \/ Finished("Restore")
  /\ recovery' \in BOOLEAN

(* A lock or a plan that cannot be removed, a rollback that failed, or     *)
(* what was written cannot be confirmed: Uncertain.                        *)
EndsUncertain ==
  /\ \/ edit.stage = "Compare" /\ ~recovery
     \/ edit.stage \in {"Clean", "ReadBack"}
     \/ Finished("Restore")
  /\ recovery' \in IF edit.failed \/ Aside # {} THEN {TRUE} ELSE BOOLEAN

EndsSaved == Finished("ReadBack") /\ UNCHANGED recovery

(* Another program writes or removes a file.                               *)
WriteOutside ==
  /\ \E f \in Files : \E v \in Outside \ {disk[f]} :
       disk' = [disk EXCEPT ![f] = v]
  /\ UNCHANGED <<aside, recovery, edit>>

(* A snapshot reads one file after another, so that a program that writes  *)
(* meanwhile may show in some and not in others.                           *)
Readable ==
  {s \in Inventories : \A f \in Files : s[f] \in {disk[f]} \cup Outside}
=============================================================================
