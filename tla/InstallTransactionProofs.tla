----------------------- MODULE InstallTransactionProofs -----------------------
(***************************************************************************)
(* Proofs about InstallTransaction, for every layout, every set of         *)
(* transactions and every number of crashes and of foreign objects: the    *)
(* journals on the disk can be read back, foreign objects are kept, and an *)
(* installed transaction loses none of its objects.                        *)
(***************************************************************************)
EXTENDS InstallTransaction, InstallJournalProofs

(* The variables have their types, and every journal, on the disk or in the *)
(* running command, is sound.                                               *)
Types ==
  /\ disk \in [Role -> Objects]
  /\ backup \in [Transactions \X Role -> Transactions \cup {None}]
  /\ place \in [Transactions -> {"none", "bootstrap", "final"}]
  /\ DOMAIN file = Transactions
Files == \A t \in Transactions : file[t] = None \/ Sound(file[t])
Running ==
  \/ command = NoCommand
  \/ /\ command = [t |-> command.t, at |-> command.at, journal |-> command.journal]
     /\ command.t \in Transactions /\ command.at \in Steps /\ Sound(command.journal)

(* What the step of a command says of its journal and of the disk. *)
Position ==
  /\ At("mkdir") \/ At("journal") => CanStart(J)
  /\ At("backup") \/ At("final") =>
       \A r \in Role : IsNextForward(J, r) => J.phase[r] = "pending"
  /\ At("backup") =>
       \A r \in Role : IsNextForward(J, r) => disk[r] \in Transactions /\ backup[<<T, r>>] = None
  /\ At("undo") => file[T].state = "rolling_back"

IInv == Types /\ Files /\ Running /\ Position

(* While a transaction is applied, what its journal calls done is in place. *)
DoneIsPlaced ==
  ~Idle /\ J.state \in {"applying", "installed"} => \A r \in Done(J) : disk[r] = T

KInv == IInv /\ DoneIsPlaced /\ InstalledIsKept

(* A running command has a transaction, a step and a sound journal. *)
LEMMA CommandFacts ==
  ASSUME Running, ~Idle
  PROVE  T \in Transactions /\ command.at \in Steps /\ Sound(J)
BY DEF Running, Idle, NoCommand, T, J

(* The invariant holds before the first command. *)
LEMMA InitInv == Init => KInv
<1> SUFFICES ASSUME Init PROVE KInv
  OBVIOUS
<1> USE DEF Init
<1>1. Types
  BY DEF Types, Objects
<1>2. Files
  BY DEF Files
<1>3. Running /\ Position /\ DoneIsPlaced
  BY DEF Running, Position, DoneIsPlaced, At, Idle, NoCommand
<1>4. InstalledIsKept
  BY DEF InstalledIsKept
<1> QED
  BY <1>1, <1>2, <1>3, <1>4 DEF KInv, IInv

(* The plan of an admitted apply (InstallPlanner::plan, journal_entry): what *)
(* it replaces was made by a transaction.                                    *)
LEMMA PlanIsSound ==
  ASSUME Types, NEW t \in Transactions, NEW upgrade \in BOOLEAN, Admitted(t, upgrade)
  PROVE  Sound(Plan) /\ CanStart(Plan)
<1> DEFINE prior == [r \in {s \in Role : Planned(s)} |-> disk[r]]
<1>1. PICK c \in Transactions \cup {None} : \A r \in Role : Acceptable(c, upgrade, r)
  BY DEF Admitted
<1>2. \A r \in Role : Planned(r) => disk[r] \in Transactions \cup {None}
  BY <1>1 DEF Acceptable, Planned, Owned
<1>3. DOMAIN prior \subseteq Role /\ prior \in [DOMAIN prior -> Transactions \cup {None}]
  BY <1>2
<1>4. Plan = Prepare(prior) /\ Entries(Plan) = DOMAIN prior
  BY DEF Plan, Prepare, Entries
<1>5. DOMAIN prior # {}
  BY <1>4 DEF Admitted
<1> HIDE DEF prior
<1> QED
  BY <1>3, <1>4, <1>5, PrepareIsSound

(* The next entry is one of the journal's. *)
LEMMA NextIsRole ==
  ASSUME NEW j, Sound(j), NEW r, IsNextForward(j, r) \/ IsNextRollback(j, r)
  PROVE  r \in Entries(j) /\ r \in Role /\ j.prior[r] \in Transactions \cup {None}
BY JournalFields DEF Sound, IsNextForward, IsNextRollback, Done, InPhase

(* Two entries cannot both be next. *)
LEMMA NextIsUnique ==
  ASSUME NEW j, Sound(j), NEW r, NEW s, IsNextForward(j, r), IsNextForward(j, s)
  PROVE  r = s
<1>1. r \in Nat /\ s \in Nat /\ r \in Entries(j) /\ s \in Entries(j)
  BY NextIsRole, JournalAssumption DEF Role
<1>2. ~(r < s) /\ ~(s < r)
  BY <1>1 DEF IsNextForward
<1> QED
  BY <1>1, <1>2

(* Installed transactions keep their objects in a step that moves none. *)
LEMMA KeptByStutter ==
  ASSUME InstalledIsKept, UNCHANGED <<disk, backup, file>>
  PROVE  InstalledIsKept'
BY DEF InstalledIsKept, Placed

(* They also do in a step that leaves each of them somewhere. *)
LEMMA KeptByMove ==
  ASSUME InstalledIsKept, Files, UNCHANGED file,
         \A t \in Transactions, r \in Role :
           file[t] # None /\ file[t].state = "installed" /\ Placed(t, r) => Placed(t, r)'
  PROVE  InstalledIsKept'
<1> SUFFICES ASSUME NEW t \in Transactions, file[t] # None, file[t].state = "installed",
                    NEW r \in Entries(file[t])
             PROVE  Placed(t, r)'
  BY DEF InstalledIsKept
<1>1. r \in Role
  BY JournalFields DEF Files, Sound
<1> QED
  BY <1>1 DEF InstalledIsKept

(* Every step keeps the types, the soundness of the journals and what the    *)
(* position of the command says.                                             *)
LEMMA StepKeepsIInv == IInv /\ [Next]_vars => IInv'
<1> SUFFICES ASSUME IInv, [Next]_vars PROVE IInv'
  OBVIOUS
<1> USE TransactionAssumption, JournalAssumption, CommandFacts
    DEF IInv, Types, Files, Running, Position, Steps, Objects, At, Idle, T, J, NoCommand,
        Goto, Save, Block, journals, objects, bounds
<1>1. CASE MakeBootstrap
  BY <1>1 DEF MakeBootstrap
<1>2. CASE WriteBootstrap
  BY <1>2, StartIsSound DEF WriteBootstrap
<1>3. CASE Publish
  BY <1>3, StartIsSound DEF Publish
<1>4. CASE WriteSibling
  BY <1>4 DEF WriteSibling
<1>5. CASE RenameSibling
  <2>1. Types' /\ Files' /\ Running'
    BY <1>5 DEF RenameSibling
  <2>2. At("undo")' => file'[T] = J /\ J.state = "rolling_back" /\ T' = T
    BY <1>5 DEF RenameSibling, Types
  <2>3. Position'
    BY <1>5, <2>2 DEF RenameSibling
  <2> QED
    BY <2>1, <2>3
<1>6. CASE Finish
  BY <1>6, InstalledIsSound DEF Finish
<1>7. CASE FinishRollback
  BY <1>7, RolledBackIsSound DEF FinishRollback
<1>8. CASE Stop
  BY <1>8 DEF Stop
<1>9. ASSUME NEW r \in Role, ApplyDirectory(r) PROVE IInv'
  BY <1>9, AppliedIsSound, NextIsRole DEF ApplyDirectory, Pending
<1>10. ASSUME NEW r \in Role, CreateSibling(r) PROVE IInv'
  BY <1>10, NextIsRole, NextIsUnique DEF CreateSibling, Pending
<1>11. ASSUME NEW r \in Role, BackupRename(r) PROVE IInv'
  BY <1>11, NextIsRole, NextIsUnique DEF BackupRename
<1>12. ASSUME NEW r \in Role, FinalRename(r) PROVE IInv'
  BY <1>12, AppliedIsSound, NextIsRole DEF FinalRename
<1>13. ASSUME NEW r \in Role, FailFile(r) PROVE IInv'
  BY <1>13, NextIsRole DEF FailFile, CleanUp
<1>14. ASSUME NEW r \in Role, Verify(r) PROVE IInv'
  BY <1>14, VerifiedIsSound DEF Verify
<1>15. ASSUME NEW r \in Role, Undo(r) PROVE IInv'
  <2>1. T \in Transactions /\ Sound(record_rollback_completed(J, r))
    BY <1>15, UndoneIsSound DEF Undo
  <2>2. Types'
    BY <1>15, <2>1 DEF Undo, Remove, Restore, Retain
  <2>3. Files' /\ Running' /\ Position'
    BY <1>15, <2>1 DEF Undo
  <2> QED
    BY <2>2, <2>3
<1>16. ASSUME NEW t \in Transactions, NEW upgrade \in BOOLEAN, Apply(t, upgrade) PROVE IInv'
  BY <1>16, PlanIsSound DEF Apply
<1>17. ASSUME NEW t \in Transactions, Rollback(t) PROVE IInv'
  BY <1>17, RollbackIsSound DEF Rollback, Loadable
<1>18. ASSUME NEW r \in Role, Intrude(r) PROVE IInv'
  BY <1>18 DEF Intrude
<1>19. CASE UNCHANGED vars
  BY <1>19 DEF vars
<1> QED
  BY <1>1, <1>2, <1>3, <1>4, <1>5, <1>6, <1>7, <1>8, <1>9, <1>10, <1>11, <1>12,
     <1>13, <1>14, <1>15, <1>16, <1>17, <1>18, <1>19
  DEF Next, Step

(* Every step keeps the objects of the transaction that is applied, and those *)
(* of the installed ones.                                                     *)
LEMMA StepKeepsObjects == KInv /\ [Next]_vars => DoneIsPlaced' /\ InstalledIsKept'
<1> SUFFICES ASSUME KInv, [Next]_vars PROVE DoneIsPlaced' /\ InstalledIsKept'
  OBVIOUS
<1> USE TransactionAssumption, JournalAssumption, CommandFacts
    DEF KInv, IInv, At, Idle, T, J, NoCommand, Goto, Save, Block, journals, objects, bounds
<1>1. CASE \/ UNCHANGED <<disk, backup, file, command>>
           \/ (UNCHANGED <<disk, backup, file>> /\ command' = NoCommand)
  <2>1. InstalledIsKept'
    BY <1>1, KeptByStutter
  <2>2. DoneIsPlaced'
    BY <1>1 DEF DoneIsPlaced
  <2> QED
    BY <2>1, <2>2
<1>2. CASE MakeBootstrap \/ WriteSibling
  <2>1. InstalledIsKept'
    BY <1>2, KeptByStutter DEF MakeBootstrap, WriteSibling
  <2>2. DoneIsPlaced'
    BY <1>2 DEF MakeBootstrap, WriteSibling, DoneIsPlaced
  <2> QED
    BY <2>1, <2>2
<1>3. CASE WriteBootstrap
  <2>1. T \in Transactions /\ Sound(J) /\ CanStart(J) /\ Done(J) = {}
    BY <1>3, DoneInState DEF WriteBootstrap, Position, Steps
  <2>2. Done(start_applying(J)) = {}
    BY <2>1, DoneAfterAdvance DEF Sound, start_applying, States
  <2>3. DoneIsPlaced'
    BY <1>3, <2>1, <2>2 DEF WriteBootstrap, DoneIsPlaced
  <2>4. file'[T].state # "installed" /\ \A t \in Transactions \ {T} : file'[t] = file[t]
    BY <1>3, <2>1 DEF WriteBootstrap, Types, CanStart
  <2>5. InstalledIsKept'
    BY <1>3, <2>1, <2>4 DEF WriteBootstrap, InstalledIsKept, Placed
  <2> QED
    BY <2>3, <2>5
<1>4. CASE Publish
  <2>1. InstalledIsKept'
    BY <1>4, KeptByStutter DEF Publish
  <2>2. T \in Transactions /\ Sound(J) /\ (CanStart(J) => Done(J) = {})
    BY <1>4, DoneInState DEF Publish, Steps
  <2>3. CanStart(J) => Done(start_applying(J)) = {}
    BY <2>2, DoneAfterAdvance DEF Sound, start_applying, States
  <2>4. DoneIsPlaced'
    BY <1>4, <2>2, <2>3 DEF Publish, DoneIsPlaced
  <2> QED
    BY <2>1, <2>4
<1>5. CASE RenameSibling
  <2>1. T \in Transactions /\ Sound(J) /\ (J.state = "installed" => Done(J) = Entries(J))
    BY <1>5, DoneInState DEF RenameSibling, Steps
  <2>2. DoneIsPlaced'
    BY <1>5 DEF RenameSibling, DoneIsPlaced
  <2>3. J.state = "installed" => \A r \in Entries(J) : disk'[r] = T
    BY <1>5, <2>1 DEF RenameSibling, DoneIsPlaced
  <2>4. file'[T] = J /\ \A t \in Transactions \ {T} : file'[t] = file[t]
    BY <1>5, <2>1 DEF RenameSibling, Types
  <2>5. InstalledIsKept'
    BY <1>5, <2>1, <2>3, <2>4 DEF RenameSibling, InstalledIsKept, Placed
  <2> QED
    BY <2>2, <2>5
<1>6. CASE Finish
  <2>1. InstalledIsKept'
    BY <1>6, KeptByStutter DEF Finish
  <2>2. Sound(J) /\ J.state = "applying" /\ Done(mark_installed(J)) = Done(J)
    BY <1>6, DoneAfterAdvance DEF Finish, Sound, mark_installed, States, CanInstall
  <2>3. DoneIsPlaced'
    BY <1>6, <2>2 DEF Finish, DoneIsPlaced
  <2> QED
    BY <2>1, <2>3
<1>7. CASE FinishRollback
  <2>1. InstalledIsKept'
    BY <1>7, KeptByStutter DEF FinishRollback
  <2>2. Sound(J) /\ mark_rolled_back(J).state = "rolled_back"
    BY <1>7, DoneAfterAdvance DEF FinishRollback, Sound, mark_rolled_back, States
  <2>3. DoneIsPlaced'
    BY <1>7, <2>2 DEF FinishRollback, DoneIsPlaced
  <2> QED
    BY <2>1, <2>3
<1>8. ASSUME NEW r \in Role, ApplyDirectory(r) \/ FinalRename(r), Save(record_applied(J, r)),
             disk[r] = None, disk' = [disk EXCEPT ![r] = T]
      PROVE  DoneIsPlaced' /\ InstalledIsKept'
  <2>1. /\ T \in Transactions /\ Sound(J) /\ J.state = "applying"
        /\ r \in Entries(J) /\ UNCHANGED <<backup, file>>
    BY <1>8, NextIsRole DEF ApplyDirectory, FinalRename, Pending, Steps, IsNextForward
  <2>2. Done(record_applied(J, r)) \subseteq Done(J) \cup {r}
    BY <2>1, DoneAfterSetPhase DEF Sound, record_applied, Phases
  <2>3. \A s \in Done(J) : disk'[s] = T
    <3>1. Done(J) \subseteq Role
      BY <2>1, JournalFields DEF Done, InPhase, Sound
    <3>2. \A s \in Done(J) : disk[s] = T
      BY <1>8, <2>1 DEF DoneIsPlaced, ApplyDirectory, FinalRename, Pending
    <3> QED
      BY <1>8, <3>1, <3>2 DEF Types
  <2>4. disk'[r] = T
    BY <1>8 DEF Types
  <2>5. DoneIsPlaced'
    BY <1>8, <2>2, <2>3, <2>4 DEF DoneIsPlaced
  <2>6. \A t \in Transactions, s \in Role : Placed(t, s) => Placed(t, s)'
    BY <1>8, <2>1 DEF Placed, Types
  <2>7. InstalledIsKept'
    BY <2>1, <2>6, KeptByMove
  <2> QED
    BY <2>5, <2>7
<1>9. ASSUME NEW r \in Role, CreateSibling(r) PROVE DoneIsPlaced' /\ InstalledIsKept'
  <2>1. InstalledIsKept'
    BY <1>9, KeptByStutter DEF CreateSibling
  <2>2. DoneIsPlaced'
    BY <1>9 DEF CreateSibling, Pending, DoneIsPlaced
  <2> QED
    BY <2>1, <2>2
<1>10. ASSUME NEW r \in Role, BackupRename(r) PROVE DoneIsPlaced' /\ InstalledIsKept'
  <2>1. /\ T \in Transactions /\ Sound(J) /\ J.phase[r] = "pending" /\ backup[<<T, r>>] = None
        /\ disk' = [disk EXCEPT ![r] = None] /\ backup' = [backup EXCEPT ![<<T, r>>] = disk[r]]
        /\ UNCHANGED file
    BY <1>10 DEF BackupRename, Position, Steps
  <2>2. r \notin Done(J)
    BY <2>1 DEF Done, InPhase
  <2>3. DoneIsPlaced'
    BY <1>10, <2>1, <2>2 DEF BackupRename, DoneIsPlaced, Types
  <2>4. \A s \in Role : s # r => disk'[s] = disk[s]
    BY <2>1 DEF Types
  <2>5. backup'[<<T, r>>] = disk[r]
    BY <2>1 DEF Types
  <2>6. \A u \in Transactions, s \in Role : <<u, s>> # <<T, r>> => backup'[<<u, s>>] = backup[<<u, s>>]
    BY <2>1 DEF Types
  <2>7. \A t \in Transactions, s \in Role : Placed(t, s) => Placed(t, s)'
    BY <2>1, <2>4, <2>5, <2>6 DEF Placed
  <2>8. InstalledIsKept'
    BY <2>1, <2>7, KeptByMove
  <2> QED
    BY <2>3, <2>8
<1>11. ASSUME NEW r \in Role, FailFile(r) PROVE DoneIsPlaced' /\ InstalledIsKept'
  <2>1. DoneIsPlaced'
    BY <1>11 DEF FailFile, DoneIsPlaced
  <2>2. T \in Transactions /\ UNCHANGED file
    BY <1>11 DEF FailFile, Steps
  <2>3. \/ UNCHANGED <<disk, backup>>
        \/ /\ disk[r] = None
           /\ disk' = [disk EXCEPT ![r] = backup[<<T, r>>]]
           /\ backup' = [backup EXCEPT ![<<T, r>>] = None]
    BY <1>11 DEF FailFile, CleanUp
  <2>4. CASE UNCHANGED <<disk, backup>>
    BY <2>1, <2>2, <2>4, KeptByStutter
  <2>5. CASE /\ disk[r] = None
             /\ disk' = [disk EXCEPT ![r] = backup[<<T, r>>]]
             /\ backup' = [backup EXCEPT ![<<T, r>>] = None]
    <3>1. disk'[r] = backup[<<T, r>>] /\ \A s \in Role : s # r => disk'[s] = disk[s]
      BY <2>5 DEF Types
    <3>2. \A u \in Transactions, s \in Role : <<u, s>> # <<T, r>> => backup'[<<u, s>>] = backup[<<u, s>>]
      BY <2>5 DEF Types
    <3>3. \A t \in Transactions, s \in Role : Placed(t, s) => Placed(t, s)'
      BY <2>2, <2>5, <3>1, <3>2 DEF Placed
    <3> QED
      BY <2>1, <2>2, <3>3, KeptByMove
  <2> QED
    BY <2>3, <2>4, <2>5
<1>12. ASSUME NEW r \in Role, Verify(r), disk[r] = T PROVE DoneIsPlaced' /\ InstalledIsKept'
  <2>1. InstalledIsKept'
    BY <1>12, KeptByStutter DEF Verify
  <2>2. Sound(J) /\ J.state = "applying" /\ r \in Entries(J)
    BY <1>12 DEF Verify, IsNextForward, Steps
  <2>3. Done(record_verified(J, r)) \subseteq Done(J) \cup {r}
    BY <2>2, DoneAfterSetPhase DEF Sound, record_verified, Phases
  <2>4. DoneIsPlaced'
    BY <1>12, <2>2, <2>3 DEF Verify, DoneIsPlaced
  <2> QED
    BY <2>1, <2>4
<1>13. ASSUME NEW r \in Role, Undo(r), Remove(r) \/ Restore(r) \/ Retain(r),
             Save(record_rollback_completed(J, r))
      PROVE  DoneIsPlaced' /\ InstalledIsKept'
  <2>1. /\ T \in Transactions /\ Sound(J) /\ r \in Entries(J) /\ J.state = "rolling_back"
        /\ UNCHANGED file /\ file[T].state = "rolling_back"
        /\ Save(record_rollback_completed(J, r)) /\ (Remove(r) \/ Restore(r) \/ Retain(r))
    BY <1>13 DEF Undo, IsNextRollback, Done, InPhase, Position, Steps
  <2>2. record_rollback_completed(J, r).state = "rolling_back"
    BY <2>1, DoneAfterSetPhase DEF Sound, record_rollback_completed, Phases
  <2>3. DoneIsPlaced'
    BY <2>1, <2>2 DEF DoneIsPlaced
  <2>4. CASE Retain(r)
    BY <2>1, <2>3, <2>4, KeptByStutter DEF Retain
  <2>5. CASE Remove(r)
    <3>1. \A t \in Transactions, s \in Role :
            file[t].state = "installed" /\ Placed(t, s) => Placed(t, s)'
      BY <2>1, <2>5 DEF Remove, CanRemove, Placed, Types
    <3> QED
      BY <2>1, <2>3, <3>1, KeptByMove
  <2>6. CASE Restore(r)
    <3>1. disk'[r] = backup[<<T, r>>] /\ \A s \in Role : s # r => disk'[s] = disk[s]
      BY <2>6 DEF Restore, Types
    <3>2. \A u \in Transactions, s \in Role : <<u, s>> # <<T, r>> => backup'[<<u, s>>] = backup[<<u, s>>]
      BY <2>6 DEF Restore, Types
    <3>3. \A t \in Transactions, s \in Role :
            file[t].state = "installed" /\ Placed(t, s) => Placed(t, s)'
      BY <2>1, <2>6, <3>1, <3>2 DEF Restore, CanRestore, Placed
    <3> QED
      BY <2>1, <2>3, <3>3, KeptByMove
  <2> QED
    BY <2>1, <2>4, <2>5, <2>6
<1>14. ASSUME NEW t \in Transactions, NEW upgrade \in BOOLEAN, Apply(t, upgrade)
      PROVE  DoneIsPlaced' /\ InstalledIsKept'
  <2>1. InstalledIsKept'
    BY <1>14, KeptByStutter DEF Apply
  <2>2. DoneIsPlaced'
    BY <1>14, PlanIsSound DEF Apply, DoneIsPlaced, CanStart
  <2> QED
    BY <2>1, <2>2
<1>15. ASSUME NEW t \in Transactions, Rollback(t) PROVE DoneIsPlaced' /\ InstalledIsKept'
  <2>1. InstalledIsKept'
    BY <1>15, KeptByStutter DEF Rollback
  <2>2. Loadable(t) /\ CanRollBack(file[t]) => begin_rollback(file[t]).state = "rolling_back"
    BY RollbackIsSound DEF Loadable, Files
  <2>3. DoneIsPlaced'
    BY <1>15, <2>2 DEF Rollback, DoneIsPlaced
  <2> QED
    BY <2>1, <2>3
<1>16. ASSUME NEW r \in Role, Intrude(r) PROVE DoneIsPlaced' /\ InstalledIsKept'
  <2>1. UNCHANGED <<backup, file, command>> /\ disk[r] = None /\ disk' = [disk EXCEPT ![r] = Foreign]
    BY <1>16 DEF Intrude
  <2>2. \A t \in Transactions, s \in Role : Placed(t, s) => Placed(t, s)'
    BY <2>1 DEF Placed, Types
  <2>3. InstalledIsKept'
    BY <2>1, <2>2, KeptByMove
  <2>4. DoneIsPlaced'
    BY <2>1 DEF DoneIsPlaced, Types
  <2> QED
    BY <2>3, <2>4
<1>17. CASE Stop \/ UNCHANGED vars
  BY <1>1, <1>17 DEF Stop, vars
<1>18. ASSUME NEW r \in Role, ApplyDirectory(r) \/ FinalRename(r) \/ Verify(r) \/ Undo(r)
      PROVE  DoneIsPlaced' /\ InstalledIsKept'
  <2>1. CASE ApplyDirectory(r)
    BY <1>1, <1>8, <2>1 DEF ApplyDirectory
  <2>2. CASE FinalRename(r)
    BY <1>8, <2>2 DEF FinalRename
  <2>3. CASE Verify(r)
    BY <1>1, <1>12, <2>3 DEF Verify
  <2>4. CASE Undo(r)
    BY <1>1, <1>13, <2>4 DEF Undo
  <2> QED
    BY <1>18, <2>1, <2>2, <2>3, <2>4
<1> QED
  BY <1>2, <1>3, <1>4, <1>5, <1>6, <1>7, <1>9, <1>10, <1>11, <1>14, <1>15, <1>16, <1>17, <1>18
  DEF Next, Step

-----------------------------------------------------------------------------
(* No step of the installer touches a foreign object: what it moves or *)
(* removes is a transaction's, and it creates only where nothing is.   *)
LEMMA StepKeepsForeign ==
  ASSUME KInv, [Next]_vars, NEW s \in Role, disk[s] = Foreign
  PROVE  disk'[s] = Foreign
<1> USE TransactionAssumption, CommandFacts DEF KInv, IInv, At, Idle, T, objects
<1>1. CASE UNCHANGED disk
  BY <1>1
<1>2. ASSUME NEW r \in Role, ApplyDirectory(r) \/ FinalRename(r) \/ Intrude(r)
      PROVE  disk'[s] = Foreign
  BY <1>2 DEF ApplyDirectory, FinalRename, Intrude, Types
<1>3. ASSUME NEW r \in Role, BackupRename(r) PROVE disk'[s] = Foreign
  <2>1. disk[r] \in Transactions
    BY <1>3 DEF BackupRename, Position
  <2> QED
    BY <1>3, <2>1 DEF BackupRename, Types
<1>4. ASSUME NEW r \in Role, FailFile(r) PROVE disk'[s] = Foreign
  BY <1>4 DEF FailFile, CleanUp, Types
<1>5. ASSUME NEW r \in Role, Undo(r) PROVE disk'[s] = Foreign
  <2>1. T \in Transactions
    BY <1>5 DEF Undo, Steps, NoCommand
  <2> QED
    BY <1>5, <2>1 DEF Undo, Remove, Restore, Retain, CanRemove, CanRestore, Types
<1>6. ASSUME NEW r \in Role, CreateSibling(r) \/ Verify(r) PROVE UNCHANGED disk
  BY <1>6 DEF CreateSibling, Verify
<1>7. CASE MakeBootstrap \/ WriteBootstrap \/ Publish \/ WriteSibling \/ RenameSibling
           \/ Finish \/ FinishRollback \/ Stop \/ UNCHANGED vars
  BY <1>7 DEF MakeBootstrap, WriteBootstrap, Publish, WriteSibling, RenameSibling,
              Finish, FinishRollback, Stop, vars
<1>8. ASSUME NEW t \in Transactions,
             Rollback(t) \/ \E upgrade \in BOOLEAN : Apply(t, upgrade)
      PROVE  UNCHANGED disk
  BY <1>8 DEF Rollback, Apply
<1> QED
  BY <1>1, <1>2, <1>3, <1>4, <1>5, <1>6, <1>7, <1>8 DEF Next, Step

(* The inductive invariant: journals are sound wherever they are, the step *)
(* of a command fits its journal, what is recorded as done is in place,    *)
(* and installed transactions keep their objects.                          *)
THEOREM InvariantHolds == Spec => []KInv
<1>1. KInv /\ [Next]_vars => KInv'
  BY StepKeepsIInv, StepKeepsObjects DEF KInv
<1> QED
  BY InitInv, <1>1, PTL DEF Spec

(* Whatever step the installer was interrupted at, and however often, every *)
(* journal persist_journal left on the disk passes the validation of the    *)
(* next load_journal.                                                       *)
THEOREM JournalsAreReadable == Spec => []JournalIsReadable
<1>1. KInv => JournalIsReadable
  BY DEF KInv, IInv, Files, Sound, JournalIsReadable
<1> QED
  BY InvariantHolds, <1>1, PTL

(* However many upgrades are applied, interrupted and rolled back, no object *)
(* of a transaction whose journal says installed is lost: apply_file moves   *)
(* what it replaces to the backup, and rollback moves it back.               *)
THEOREM InstalledObjectsAreKept == Spec => []InstalledIsKept
<1>1. KInv => InstalledIsKept
  BY DEF KInv
<1> QED
  BY InvariantHolds, <1>1, PTL

(* No call of apply or rollback changes an object that the installer did not *)
(* make, also when it appears after the checks: the final rename does not    *)
(* replace, and removal compares the object first.                           *)
THEOREM ForeignObjectsAreKept == Spec => ForeignIsKept
<1>1. KInv /\ [Next]_vars => [\A r \in Role : disk[r] = Foreign => disk'[r] = Foreign]_vars
  BY StepKeepsForeign
<1> QED
  BY InvariantHolds, <1>1, PTL DEF Spec, ForeignIsKept
===============================================================================
