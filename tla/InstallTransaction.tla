-------------------------- MODULE InstallTransaction --------------------------
(***************************************************************************)
(* The installer l2-loop-install: `apply` and `rollback` of transactions   *)
(* over the fixed layout, with the journal each keeps on the disk          *)
(* (agent linux/installation_runtime.rs and linux/installation_fs.rs).     *)
(*                                                                         *)
(* A command is a process of its own that can end at any step: it crashes, *)
(* or a call returns an error and it reports a blocker.  Both leave on the *)
(* disk what the steps before left, except inside apply_file, which cleans *)
(* up after an error.  A rename and the directory sync after it are one    *)
(* step: a sync that fails or a crash before it is an end on either side.  *)
(*                                                                         *)
(* An object is the transaction that made it, or Foreign.  Inputs that     *)
(* prepare and the rollback's authorization refuse change nothing and are  *)
(* left out.  A directory with children has another link count and cannot  *)
(* be unlinked either, so link counts are left out.  The commands of the   *)
(* operator do not overlap.                                                *)
(***************************************************************************)
EXTENDS InstallJournal

CONSTANTS
  Standard,          \* the roles of is_standard_prerequisite
  TransactionsRoot,  \* the role of the directory of published journals
  Parent,            \* the role a role lies in; 0: a directory that always exists
  Foreign,           \* an object no transaction made
  MaxStops,          \* bound: commands that end before their last step
  MaxForeign         \* bound: objects other programs create

ASSUME TransactionAssumption ==
  /\ Standard \subseteq 1 .. Directories /\ TransactionsRoot \in Retention
  /\ Parent \in [Role -> 0 .. Directories] /\ \A r \in Role : Parent[r] < r
  /\ Foreign \notin Transactions \cup {None}
  /\ MaxStops \in Nat /\ MaxForeign \in Nat

Objects == Transactions \cup {Foreign, None}

VARIABLES
  disk,      \* the object at each role's destination
  sibling,   \* the files ".l2-loop-<transaction>-<role>.new" that exist
  backup,    \* the object at each ".l2-loop-<transaction>-<role>.bak"
  place,     \* where a transaction's directory is: "none", "bootstrap" or "final"
  file,      \* its journal-v1.json, or None
  leftover,  \* the transactions with a .journal-v1.json.new
  command,   \* the running command: its transaction, step and journal
  report,    \* what the last command reported
  stops, strangers  \* history: the bounds used up

journals == <<place, file, leftover>>
objects  == <<disk, sibling, backup>>
bounds   == <<stops, strangers>>
vars == <<objects, journals, command, report, bounds>>

Steps == {"mkdir", "journal", "publish", "write", "rename", "apply", "backup", "final", "undo"}
NoCommand == [t |-> None, at |-> "idle", journal |-> None]
Reports == {"none", "blocked", "installed_verified", "rolled_back"}

Idle == command.at = "idle"
At(s) == command.at = s
T == command.t
J == command.journal

Goto(s) == command' = [t |-> T, at |-> s, journal |-> J]
Save(j) == command' = [t |-> T, at |-> "write", journal |-> j]

(* blocked_report: the command returns, whatever it has done so far. *)
Block == command' = NoCommand /\ report' = "blocked"

TypeOK ==
  /\ disk \in [Role -> Objects]
  /\ sibling \subseteq Transactions \X Role
  /\ backup \in [Transactions \X Role -> Transactions \cup {None}]
  /\ place \in [Transactions -> {"none", "bootstrap", "final"}]
  /\ \A t \in Transactions : file[t] = None \/ IsJournal(file[t])
  /\ leftover \subseteq Transactions
  /\ \/ command = NoCommand
     \/ /\ command.t \in Transactions /\ command.at \in Steps
        /\ IsJournal(command.journal)
  /\ report \in Reports
  /\ stops \in 0 .. MaxStops /\ strangers \in 0 .. MaxForeign

Init ==
  /\ disk \in [Role -> {Foreign, None}]
  /\ \A r \in Role : /\ disk[r] = Foreign => r \in Standard
                     /\ disk[r] = Foreign /\ Parent[r] # 0 => disk[Parent[r]] = Foreign
  /\ sibling = {} /\ backup = [p \in Transactions \X Role |-> None]
  /\ place = [t \in Transactions |-> "none"]
  /\ file = [t \in Transactions |-> None]
  /\ leftover = {} /\ command = NoCommand
  /\ report = "none"
  /\ stops = 0 /\ strangers = 0

-----------------------------------------------------------------------------
(* transaction_ids: only the published journals are found. *)
Published == {t \in Transactions : place[t] = "final" /\ disk[TransactionsRoot] # None}

(* load_journal_exact of each of them, with the states that may be passed. *)
NothingIncomplete ==
  \A t \in Published : file[t] # None /\ file[t].state \in {"installed", "rolled_back"}

(* The installed journals whose every object is still in place. *)
Matching ==
  {t \in Published : file[t].state = "installed" /\ \A r \in Entries(file[t]) : disk[r] = t}

(* current_installed_journal; None: no journal matches. *)
Current(c) ==
  \/ c = None /\ Matching = {}
  \/ Matching = {c}

Owned(c, r) == c # None /\ r \in Entries(file[c]) /\ disk[r] = c

(* inspect_layout: what of the layout `apply` may change.  An object that is *)
(* neither a prerequisite nor owned by the current journal blocks.           *)
Acceptable(c, upgrade, r) ==
  \/ disk[r] = None
  \/ is_directory(r) /\ (r \in Standard \/ Owned(c, r))
  \/ ~is_directory(r) /\ upgrade /\ Owned(c, r)

(* InstallPlanner::plan and journal_entry: absent objects are made, owned *)
(* files are upgraded, directories that exist are prerequisites.          *)
Planned(r) == disk[r] = None \/ ~is_directory(r)
Plan == Prepare([r \in {s \in Role : Planned(s)} |-> disk[r]])

(* What apply demands before its first change: no incomplete published       *)
(* journal, an installation to upgrade or none to install over               *)
(* (GI_TRANSACTION_CONFLICT), a layout it may change (GI_DESTINATION_FOREIGN) *)
(* and a transaction identifier that was not used before.                    *)
Admitted(t, upgrade) ==
  /\ NothingIncomplete
  /\ \E c \in Transactions \cup {None} :
       /\ Current(c) /\ (upgrade <=> c # None)
       /\ \A r \in Role : Acceptable(c, upgrade, r)
  /\ Entries(Plan) # {}
  /\ place[t] = "none"

Apply(t, upgrade) ==
  /\ Idle
  /\ \/ /\ Admitted(t, upgrade)
        /\ command' = [t |-> t, at |-> "mkdir", journal |-> Plan]
        /\ report' = "none"
     \/ ~Admitted(t, upgrade) /\ Block
  /\ UNCHANGED <<objects, journals, bounds>>

(* bootstrap_journal: the directory, then the journal in it. *)
MakeBootstrap ==
  /\ At("mkdir")
  /\ place' = [place EXCEPT ![T] = "bootstrap"]
  /\ Goto("journal")
  /\ UNCHANGED <<objects, file, leftover, report, bounds>>

(* write_new_journal; a directory of journals that exists by now is used. *)
WriteBootstrap ==
  /\ At("journal")
  /\ file' = [file EXCEPT ![T] = J]
  /\ IF disk[TransactionsRoot] # None THEN Goto("publish") ELSE Save(start_applying(J))
  /\ UNCHANGED <<objects, place, leftover, report, bounds>>

(* publish_journal: renameat2(RENAME_NOREPLACE) of the directory.  A prepared *)
(* journal goes on with start_applying.                                       *)
Publish ==
  /\ At("publish") /\ place[T] = "bootstrap" /\ file[T] = J
  /\ place' = [place EXCEPT ![T] = "final"]
  /\ IF CanStart(J) THEN Save(start_applying(J)) ELSE Goto("apply")
  /\ UNCHANGED <<objects, file, leftover, report, bounds>>

(* persist_journal: a sibling is created exclusively and renamed over the *)
(* journal.  A sibling that is already there is an unsafe object.         *)
WriteSibling ==
  /\ At("write")
  /\ \/ /\ T \notin leftover
        /\ leftover' = leftover \cup {T} /\ Goto("rename")
        /\ UNCHANGED report
     \/ /\ T \in leftover /\ Block
        /\ UNCHANGED leftover
  /\ UNCHANGED <<objects, place, file, bounds>>

(* After the rename the loops of apply_plan and rollback_journal go on, a *)
(* verified directory of journals is published, and a final state ends    *)
(* the command with its report.                                           *)
RenameSibling ==
  /\ At("rename")
  /\ file' = [file EXCEPT ![T] = J] /\ leftover' = leftover \ {T}
  /\ \/ /\ J.state = "applying"
        /\ Goto(IF place[T] = "bootstrap" /\ TransactionsRoot \in InPhase(J, "verified")
                THEN "publish" ELSE "apply")
        /\ UNCHANGED report
     \/ J.state = "rolling_back" /\ Goto("undo") /\ UNCHANGED report
     \/ /\ J.state \in {"installed", "rolled_back"}
        /\ command' = NoCommand
        /\ report' = IF J.state = "installed" THEN "installed_verified" ELSE "rolled_back"
  /\ UNCHANGED <<objects, place, bounds>>

-----------------------------------------------------------------------------
(* open_role_parent *)
ParentExists(r) == Parent[r] \in {0} \cup {p \in Role : disk[p] # None}

Pending(r) == At("apply") /\ IsNextForward(J, r) /\ J.phase[r] = "pending"

(* Mutant: directories are recorded in memory until the next file. *)
ApplyDirectoryUnsaved(r) ==
  /\ Pending(r) /\ is_directory(r) /\ ParentExists(r) /\ disk[r] = None
  /\ disk' = [disk EXCEPT ![r] = T]
  /\ command' = [command EXCEPT !.journal = record_verified(record_applied(J, r), r)]
  /\ UNCHANGED <<sibling, backup, journals, report, bounds>>

(* apply_directory: mkdirat, and the entry is recorded. *)
ApplyDirectory(r) ==
  /\ Pending(r) /\ is_directory(r)
  /\ \/ /\ ParentExists(r) /\ disk[r] = None
        /\ disk' = [disk EXCEPT ![r] = T]
        /\ Save(record_applied(J, r)) /\ UNCHANGED report
     \/ /\ ~(ParentExists(r) /\ disk[r] = None)
        /\ Block /\ UNCHANGED disk
  /\ UNCHANGED <<sibling, backup, journals, bounds>>

(* apply_file, first part: the destination is still what the plan saw, and *)
(* the payload is written to a new sibling.                                *)
CreateSibling(r) ==
  /\ Pending(r) /\ ~is_directory(r)
  /\ \/ /\ ParentExists(r) /\ disk[r] = J.prior[r]
        /\ backup[<<T, r>>] = None /\ <<T, r>> \notin sibling
        /\ sibling' = sibling \cup {<<T, r>>}
        /\ Goto(IF J.prior[r] = None THEN "final" ELSE "backup") /\ UNCHANGED report
     \/ /\ ~ /\ ParentExists(r) /\ disk[r] = J.prior[r]
             /\ backup[<<T, r>>] = None /\ <<T, r>> \notin sibling
        /\ Block /\ UNCHANGED sibling
  /\ UNCHANGED <<disk, backup, journals, bounds>>

(* Mutant: the prior destination is unlinked. *)
BackupUnlink(r) ==
  /\ At("backup") /\ IsNextForward(J, r)
  /\ disk' = [disk EXCEPT ![r] = None]
  /\ Goto("final")
  /\ UNCHANGED <<sibling, backup, journals, report, bounds>>

(* The prior-owned destination is moved to its backup. *)
BackupRename(r) ==
  /\ At("backup") /\ IsNextForward(J, r)
  /\ backup' = [backup EXCEPT ![<<T, r>>] = disk[r]]
  /\ disk' = [disk EXCEPT ![r] = None]
  /\ Goto("final")
  /\ UNCHANGED <<sibling, journals, report, bounds>>

(* Mutant: a rename without RENAME_NOREPLACE. *)
FinalRenameOver(r) ==
  /\ At("final") /\ IsNextForward(J, r)
  /\ disk' = [disk EXCEPT ![r] = T]
  /\ sibling' = sibling \ {<<T, r>>}
  /\ Save(record_applied(J, r))
  /\ UNCHANGED <<backup, journals, report, bounds>>

(* The sibling becomes the destination, never over another object. *)
FinalRename(r) ==
  /\ At("final") /\ IsNextForward(J, r) /\ disk[r] = None
  /\ disk' = [disk EXCEPT ![r] = T]
  /\ sibling' = sibling \ {<<T, r>>}
  /\ Save(record_applied(J, r))
  /\ UNCHANGED <<backup, journals, report, bounds>>

(* The error path of apply_file: the sibling is unlinked and a backup moved *)
(* back unless something is at the destination.  Errors of these calls are  *)
(* ignored, so either may not happen.                                       *)
CleanUp(r, unlinked, restored) ==
  LET back == restored /\ disk[r] = None /\ backup[<<T, r>>] # None IN
  /\ sibling' = IF unlinked THEN sibling \ {<<T, r>>} ELSE sibling
  /\ disk' = IF back THEN [disk EXCEPT ![r] = backup[<<T, r>>]] ELSE disk
  /\ backup' = IF back THEN [backup EXCEPT ![<<T, r>>] = None] ELSE backup

FailFile(r) ==
  /\ At("backup") \/ At("final")
  /\ IsNextForward(J, r)
  /\ \/ At("final") /\ disk[r] # None /\ UNCHANGED stops
     \/ stops < MaxStops /\ stops' = stops + 1
  /\ \E unlinked, restored \in BOOLEAN : CleanUp(r, unlinked, restored)
  /\ Block
  /\ UNCHANGED <<journals, strangers>>

(* verify_exact of an applied entry. *)
Verify(r) ==
  /\ At("apply") /\ IsNextForward(J, r) /\ J.phase[r] = "applied"
  /\ \/ disk[r] = T /\ Save(record_verified(J, r)) /\ UNCHANGED report
     \/ disk[r] # T /\ Block
  /\ UNCHANGED <<objects, journals, bounds>>

Finish ==
  /\ At("apply") /\ CanInstall(J)
  /\ Save(mark_installed(J))
  /\ UNCHANGED <<objects, journals, report, bounds>>

-----------------------------------------------------------------------------
(* rollback: the journal is loaded from wherever it is.  A journal that was *)
(* rolling back goes on; a prepared one cannot be rolled back.              *)
Loadable(t) == place[t] # "none" /\ file[t] # None /\ validate(file[t])

Rollback(t) ==
  /\ Idle
  /\ LET with(s, j) == [t |-> t, at |-> s, journal |-> j] IN
     \/ /\ Loadable(t) /\ file[t].state = "rolling_back"
        /\ command' = with("undo", file[t]) /\ report' = "none"
     \/ /\ Loadable(t) /\ CanRollBack(file[t])
        /\ command' = with("write", begin_rollback(file[t])) /\ report' = "none"
     \/ /\ ~ (Loadable(t) /\ (file[t].state = "rolling_back" \/ CanRollBack(file[t])))
        /\ Block
  /\ UNCHANGED <<objects, journals, bounds>>

(* unlinkat with AT_REMOVEDIR succeeds on an empty directory only. *)
Empty(r) ==
  /\ \A s \in Role : Parent[s] = r =>
       /\ disk[s] = None
       /\ \A t \in Transactions : backup[<<t, s>>] = None /\ <<t, s>> \notin sibling

(* rollback_remove_exact, rollback_restore_exact and the check of a retained *)
(* directory, and record_rollback_completed.                                 *)
CanRemove(r)  == disk[r] = T /\ (is_directory(r) => Empty(r))
CanRestore(r) == disk[r] = T /\ backup[<<T, r>>] = J.prior[r]

Remove(r) ==
  /\ J.prior[r] = None /\ r \notin Retention /\ CanRemove(r)
  /\ disk' = [disk EXCEPT ![r] = None]
  /\ UNCHANGED backup

Restore(r) ==
  /\ J.prior[r] # None /\ CanRestore(r)
  /\ disk' = [disk EXCEPT ![r] = backup[<<T, r>>]]
  /\ backup' = [backup EXCEPT ![<<T, r>>] = None]

Retain(r) ==
  /\ J.prior[r] = None /\ r \in Retention /\ disk[r] = T
  /\ UNCHANGED <<disk, backup>>

Undoable(r) ==
  IF J.prior[r] # None THEN CanRestore(r)
  ELSE IF r \in Retention THEN disk[r] = T ELSE CanRemove(r)

(* Mutant: what cannot be undone is passed over. *)
UndoLeniently(r) ==
  /\ At("undo") /\ IsNextRollback(J, r)
  /\ \/ Remove(r) \/ Restore(r) \/ Retain(r)
     \/ ~Undoable(r) /\ UNCHANGED <<disk, backup>>
  /\ Save(record_rollback_completed(J, r))
  /\ UNCHANGED <<sibling, journals, report, bounds>>

Undo(r) ==
  /\ At("undo") /\ IsNextRollback(J, r)
  /\ \/ /\ Remove(r) \/ Restore(r) \/ Retain(r)
        /\ Save(record_rollback_completed(J, r)) /\ UNCHANGED report
     \/ ~Undoable(r) /\ Block /\ UNCHANGED <<disk, backup>>
  /\ UNCHANGED <<sibling, journals, bounds>>

FinishRollback ==
  /\ At("undo") /\ CanFinishRollback(J)
  /\ Save(mark_rolled_back(J))
  /\ UNCHANGED <<objects, journals, report, bounds>>

-----------------------------------------------------------------------------
(* The process dies, or a call fails where nothing is cleaned up. *)
Stop ==
  /\ ~Idle /\ stops < MaxStops
  /\ stops' = stops + 1 /\ command' = NoCommand
  /\ UNCHANGED <<objects, journals, report, strangers>>

(* Another program creates an object where there is none. *)
Intrude(r) ==
  /\ strangers < MaxForeign /\ disk[r] = None /\ ParentExists(r)
  /\ disk' = [disk EXCEPT ![r] = Foreign] /\ strangers' = strangers + 1
  /\ UNCHANGED <<sibling, backup, journals, command, report, stops>>

Step ==
  \/ MakeBootstrap \/ WriteBootstrap \/ Publish \/ WriteSibling \/ RenameSibling
  \/ \E r \in Role : \/ ApplyDirectory(r) \/ CreateSibling(r) \/ BackupRename(r)
                     \/ FinalRename(r) \/ FailFile(r) \/ Verify(r) \/ Undo(r)
  \/ Finish \/ FinishRollback

Next ==
  \/ Step \/ Stop
  \/ \E t \in Transactions, upgrade \in BOOLEAN : Apply(t, upgrade)
  \/ \E t \in Transactions : Rollback(t)
  \/ \E r \in Role : Intrude(r)

Spec == Init /\ [][Next]_vars

-----------------------------------------------------------------------------
(* PROPERTY.  Every journal on the disk passes the validation it is read     *)
(* back with, whatever step the installer stopped at: the phases and the     *)
(* step count that persist_journal saved fit the state.                      *)
JournalIsReadable == \A t \in Transactions : file[t] # None => validate(file[t])

(* The object a transaction made for a role is at its destination or is the *)
(* backup of an upgrade; and the journal says whether it should exist.      *)
Placed(t, r) == disk[r] = t \/ \E u \in Transactions : backup[<<u, r>>] = t
Recorded(t, r) ==
  /\ file[t] # None
  /\ \/ r \in Done(file[t])
     \/ r \in InPhase(file[t], "rolled_back") \cap Retention
Replaced(t, r) == file[t] # None /\ r \in Done(file[t]) /\ file[t].prior[r] # None

Unrecorded(t) ==
  {r \in Role : \/ Placed(t, r) /\ ~Recorded(t, r)
                \/ <<t, r>> \in sibling
                \/ backup[<<t, r>>] # None /\ ~Replaced(t, r)}
Missing(t) == {r \in Role : \/ Recorded(t, r) /\ ~Placed(t, r)
                            \/ Replaced(t, r) /\ backup[<<t, r>>] = None}

(* PROPERTY.  At any time, also after any number of interrupted commands,    *)
(* the disk is ahead of a transaction's journal by at most one step of its   *)
(* apply and one of its rollback: one role may hold something the journal    *)
(* does not know, and one may lack what it records.                          *)
JournalFollowsDisk ==
  \A t \in Transactions : Cardinality(Unrecorded(t)) <= 1 /\ Cardinality(Missing(t)) <= 1

(* PROPERTY.  An upgrade never loses what it replaces: while a transaction   *)
(* counts as installed, each object it made is at its destination or in the  *)
(* backup of the transaction that took its place.                            *)
InstalledIsKept ==
  \A t \in Transactions : file[t] # None /\ file[t].state = "installed" =>
    \A r \in Entries(file[t]) : Placed(t, r)

(* PROPERTY.  When a rollback of a transaction that was applied in full      *)
(* ends, nothing of it is left but the directories that keep the journals,   *)
(* and every file it had replaced is back.                                   *)
UndoneIsExact ==
  \A t \in Transactions :
    file[t] # None /\ file[t].state = "rolled_back" /\ InPhase(file[t], "pending") = {} =>
      \A r \in Role \ Retention : ~Placed(t, r) /\ backup[<<t, r>>] = None

(* PROPERTY.  The installer never removes or replaces an object it did not   *)
(* make, also one that appears between its checks and its renames.           *)
ForeignIsKept == [][\A r \in Role : disk[r] = Foreign => disk'[r] = Foreign]_vars
===============================================================================
