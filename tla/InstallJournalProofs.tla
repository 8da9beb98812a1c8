------------------------- MODULE InstallJournalProofs -------------------------
(***************************************************************************)
(* Every operation of the installation journal, taken where its condition  *)
(* holds, leaves a journal that passes the validation of its reader.  The  *)
(* lemmas hold for every layout and every set of entries.                  *)
(***************************************************************************)
EXTENDS InstallJournal, FiniteSetTheorems, TLAPS

(* A journal that is well formed and that its reader accepts. *)
Sound(j) == IsJournal(j) /\ validate(j)

(* The fields of a well-formed journal (InstallJournalV1). *)
LEMMA JournalFields ==
  ASSUME NEW j, IsJournal(j)
  PROVE  /\ j.state \in States /\ j.step \in Nat
         /\ j.phase \in [Entries(j) -> Phases]
         /\ j.prior \in [Entries(j) -> Transactions \cup {None}]
         /\ j = [state |-> j.state, step |-> j.step, phase |-> j.phase, prior |-> j.prior]
         /\ Entries(j) \subseteq Role
BY DEF IsJournal, Entries

(* The entries of a journal are finitely many, whatever phase they are in. *)
LEMMA EntriesAreFinite ==
  ASSUME NEW j, IsJournal(j), NEW p
  PROVE  IsFiniteSet(Entries(j)) /\ IsFiniteSet(InPhase(j, p))
<1>1. IsFiniteSet(Role)
  BY JournalAssumption, FS_Interval DEF Role
<1>2. IsFiniteSet(Entries(j))
  BY <1>1, JournalFields, FS_Subset
<1>3. InPhase(j, p) \subseteq Entries(j)
  BY DEF InPhase
<1> QED
  BY <1>2, <1>3, FS_Subset

(* Advance changes the state and the step count and nothing else. *)
LEMMA AdvanceFields ==
  ASSUME NEW j, IsJournal(j), NEW s \in States
  PROVE  /\ IsJournal(Advance(j, s))
         /\ Advance(j, s).state = s /\ Advance(j, s).step = j.step + 1
         /\ Advance(j, s).phase = j.phase
BY JournalFields DEF Advance, IsJournal, Entries

(* SetPhase changes the phase of one entry and the step count. *)
LEMMA SetPhaseFields ==
  ASSUME NEW j, IsJournal(j), NEW r \in Entries(j), NEW p \in Phases
  PROVE  /\ IsJournal(SetPhase(j, r, p))
         /\ SetPhase(j, r, p).state = j.state /\ SetPhase(j, r, p).step = j.step + 1
         /\ Entries(SetPhase(j, r, p)) = Entries(j)
         /\ \A s \in Entries(j) : SetPhase(j, r, p).phase[s] = IF s = r THEN p ELSE j.phase[s]
<1>1. [j.phase EXCEPT ![r] = p] \in [Entries(j) -> Phases]
  BY JournalFields
<1> QED
  BY <1>1, JournalFields DEF SetPhase, IsJournal, Entries

(* InstallJournalV1::prepare makes a journal that can be read back. *)
LEMMA PrepareIsSound ==
  ASSUME NEW prior, DOMAIN prior \subseteq Role, DOMAIN prior # {},
         prior \in [DOMAIN prior -> Transactions \cup {None}]
  PROVE  Sound(Prepare(prior)) /\ CanStart(Prepare(prior))
<1> DEFINE j == Prepare(prior)
<1>1. /\ j.state = "prepared" /\ j.step = 1 /\ j.prior = prior
      /\ j.phase = [r \in DOMAIN prior |-> "pending"]
  BY DEF Prepare
<1>2. IsJournal(j)
  BY DEF Prepare, IsJournal, States, Phases
<1>3. validate(j)
  BY <1>1 DEF validate, Entries, InPhase
<1> QED
  BY <1>1, <1>2, <1>3 DEF Sound, CanStart

(* start_applying: no entry has moved, so no progress is due. *)
LEMMA StartIsSound ==
  ASSUME NEW j, Sound(j), CanStart(j)
  PROVE  Sound(start_applying(j))
<1> DEFINE k == start_applying(j)
<1>1. IsJournal(j) /\ validate(j)
  BY DEF Sound
<1>2. IsJournal(k) /\ k.state = "applying" /\ k.step = j.step + 1 /\ k.phase = j.phase
  BY <1>1, AdvanceFields DEF start_applying, States
<1>3. j.step = 1 /\ Entries(j) # {} /\ \A r \in Entries(j) : j.phase[r] = "pending"
  BY <1>1 DEF validate, CanStart, InPhase
<1>4. InPhase(k, "verified") = {} /\ InPhase(k, "applied") = {}
  BY <1>2, <1>3 DEF InPhase, Entries
<1>5. Progress(k) = 0
  BY <1>4, FS_EmptySet DEF Progress
<1>6. ForwardPrefix(k) /\ Entries(k) # {}
  BY <1>2, <1>3 DEF ForwardPrefix, Entries
<1>7. k.step = 2 + Progress(k)
  BY <1>2, <1>3, <1>5
<1> HIDE DEF k
<1>8. Sound(k)
  BY <1>2, <1>6, <1>7 DEF Sound, validate
<1> QED
  BY <1>8 DEF k

(* record_applied: the first unverified entry, which was pending. *)
LEMMA AppliedIsSound ==
  ASSUME NEW j, Sound(j), NEW r, IsNextForward(j, r), j.phase[r] = "pending"
  PROVE  Sound(record_applied(j, r))
<1> DEFINE k == record_applied(j, r)
<1>1. IsJournal(j) /\ validate(j) /\ r \in Entries(j) /\ j.state = "applying"
  BY DEF Sound, IsNextForward
<1>2. /\ IsJournal(k) /\ k.state = j.state /\ k.step = j.step + 1 /\ Entries(k) = Entries(j)
      /\ \A s \in Entries(j) : k.phase[s] = IF s = r THEN "applied" ELSE j.phase[s]
  BY <1>1, SetPhaseFields DEF record_applied, Phases
<1>3. j.step = 2 + Progress(j) /\ ForwardPrefix(j) /\ Entries(j) # {}
  BY <1>1 DEF validate
<1> HIDE DEF k
<1>4. InPhase(k, "verified") = InPhase(j, "verified")
  BY <1>2 DEF InPhase
<1>5. InPhase(k, "applied") = InPhase(j, "applied") \cup {r} /\ r \notin InPhase(j, "applied")
  BY <1>1, <1>2 DEF InPhase
<1>6. Cardinality(InPhase(k, "applied")) = Cardinality(InPhase(j, "applied")) + 1
  BY <1>1, <1>5, EntriesAreFinite, FS_AddElement
<1>7. Progress(k) = Progress(j) + 1
  <2>1. Cardinality(InPhase(j, "applied")) \in Nat /\ Cardinality(InPhase(j, "verified")) \in Nat
    BY <1>1, EntriesAreFinite, FS_CardinalityType
  <2> QED
    BY <2>1, <1>4, <1>6 DEF Progress
<1>8. k.step = 2 + Progress(k)
  <2>1. Progress(j) \in Nat
    BY <1>1, EntriesAreFinite, FS_CardinalityType DEF Progress
  <2> QED
    BY <2>1, <1>2, <1>3, <1>7
<1>9. ForwardPrefix(k)
  BY <1>1, <1>2, <1>3, JournalFields DEF ForwardPrefix, IsNextForward, Role
<1>10. Sound(k)
  BY <1>1, <1>2, <1>3, <1>8, <1>9 DEF Sound, validate
<1> QED
  BY <1>10 DEF k

(* record_verified: the first unverified entry, which was applied. *)
LEMMA VerifiedIsSound ==
  ASSUME NEW j, Sound(j), NEW r, IsNextForward(j, r), j.phase[r] = "applied"
  PROVE  Sound(record_verified(j, r))
<1> DEFINE k == record_verified(j, r)
<1>1. IsJournal(j) /\ validate(j) /\ r \in Entries(j) /\ j.state = "applying"
  BY DEF Sound, IsNextForward
<1>2. /\ IsJournal(k) /\ k.state = j.state /\ k.step = j.step + 1 /\ Entries(k) = Entries(j)
      /\ \A s \in Entries(j) : k.phase[s] = IF s = r THEN "verified" ELSE j.phase[s]
  BY <1>1, SetPhaseFields DEF record_verified, Phases
<1>3. j.step = 2 + Progress(j) /\ ForwardPrefix(j) /\ Entries(j) # {}
  BY <1>1 DEF validate
<1> HIDE DEF k
<1>4. InPhase(k, "verified") = InPhase(j, "verified") \cup {r} /\ r \notin InPhase(j, "verified")
  BY <1>1, <1>2 DEF InPhase
<1>5. InPhase(k, "applied") = InPhase(j, "applied") \ {r} /\ r \in InPhase(j, "applied")
  BY <1>1, <1>2 DEF InPhase
<1>6. Cardinality(InPhase(k, "verified")) = Cardinality(InPhase(j, "verified")) + 1
  BY <1>1, <1>4, EntriesAreFinite, FS_AddElement
<1>7. Cardinality(InPhase(k, "applied")) = Cardinality(InPhase(j, "applied")) - 1
  BY <1>1, <1>5, EntriesAreFinite, FS_RemoveElement
<1>8. Progress(k) = Progress(j) + 1
  <2>1. Cardinality(InPhase(j, "applied")) \in Nat /\ Cardinality(InPhase(j, "verified")) \in Nat
    BY <1>1, EntriesAreFinite, FS_CardinalityType
  <2> QED
    BY <2>1, <1>6, <1>7 DEF Progress
<1>9. k.step = 2 + Progress(k)
  <2>1. Progress(j) \in Nat
    BY <1>1, EntriesAreFinite, FS_CardinalityType DEF Progress
  <2> QED
    BY <2>1, <1>2, <1>3, <1>8
<1>10. ForwardPrefix(k)
  BY <1>1, <1>2, <1>3, JournalFields DEF ForwardPrefix, IsNextForward, Role
<1>11. Sound(k)
  BY <1>1, <1>2, <1>3, <1>9, <1>10 DEF Sound, validate
<1> QED
  BY <1>11 DEF k

(* mark_installed: every entry is verified, and has taken two steps. *)
LEMMA InstalledIsSound ==
  ASSUME NEW j, Sound(j), CanInstall(j)
  PROVE  Sound(mark_installed(j))
<1> DEFINE k == mark_installed(j)
<1>1. IsJournal(j) /\ validate(j) /\ j.state = "applying" /\ Entries(j) # {}
  BY DEF Sound, CanInstall
<1>2. IsJournal(k) /\ k.state = "installed" /\ k.step = j.step + 1 /\ k.phase = j.phase
  BY <1>1, AdvanceFields DEF mark_installed, States
<1>3. InPhase(j, "verified") = Entries(j) /\ InPhase(j, "applied") = {}
  BY DEF InPhase, CanInstall
<1>4. Progress(j) = 2 * Cardinality(Entries(j))
  <2>1. Cardinality(Entries(j)) \in Nat
    BY <1>1, EntriesAreFinite, FS_CardinalityType
  <2> QED
    BY <2>1, <1>3, FS_EmptySet DEF Progress
<1>5. j.step = 2 + Progress(j)
  BY <1>1 DEF validate
<1>6. Cardinality(Entries(j)) \in Nat
  BY <1>1, EntriesAreFinite, FS_CardinalityType
<1>7. k.step = 3 + 2 * Cardinality(Entries(j))
  BY <1>2, <1>4, <1>5, <1>6
<1> HIDE DEF k
<1>8. Entries(k) = Entries(j) /\ InPhase(k, "verified") = Entries(k)
  BY <1>2, <1>3 DEF Entries, InPhase
<1>9. Sound(k)
  BY <1>1, <1>2, <1>7, <1>8 DEF Sound, validate
<1> QED
  BY <1>9 DEF k

(* begin_rollback: what was done in order can be undone in the reverse. *)
LEMMA RollbackIsSound ==
  ASSUME NEW j, Sound(j), CanRollBack(j)
  PROVE  Sound(begin_rollback(j)) /\ begin_rollback(j).state = "rolling_back"
<1> DEFINE k == begin_rollback(j)
<1>1. IsJournal(j) /\ validate(j) /\ Entries(j) # {}
  BY DEF Sound, validate
<1>2. /\ IsJournal(k) /\ k.state = "rolling_back" /\ k.step = j.step + 1 /\ k.phase = j.phase
      /\ j.step \in Nat
  BY <1>1, AdvanceFields, JournalFields DEF begin_rollback, States
<1> HIDE DEF k
<1>3. RollbackShape(k) /\ k.step >= 3
  <2>1. CASE j.state = "applying"
    <3>1. ForwardPrefix(j) /\ j.step = 2 + Progress(j)
      BY <1>1, <2>1 DEF validate
    <3>2. Progress(j) \in Nat
      BY <1>1, EntriesAreFinite, FS_CardinalityType DEF Progress
    <3>3. RollbackShape(k)
      BY <1>2, <3>1, <1>1, JournalFields DEF RollbackShape, ForwardPrefix, Entries, Phases
    <3> QED
      BY <1>2, <3>1, <3>2, <3>3
  <2>2. CASE j.state = "installed"
    <3>1. InPhase(j, "verified") = Entries(j) /\ j.step = 3 + 2 * Cardinality(Entries(j))
      BY <1>1, <2>2 DEF validate
    <3>2. Cardinality(Entries(j)) \in Nat
      BY <1>1, EntriesAreFinite, FS_CardinalityType
    <3>3. \A r \in Entries(j) : j.phase[r] = "verified"
      BY <3>1 DEF InPhase
    <3>4. RollbackShape(k)
      BY <1>2, <3>3 DEF RollbackShape, Entries
    <3> QED
      BY <1>2, <3>1, <3>2, <3>4
  <2> QED
    BY <2>1, <2>2 DEF CanRollBack
<1>4. Sound(k)
  BY <1>1, <1>2, <1>3 DEF Sound, validate, Entries
<1> QED
  BY <1>2, <1>4 DEF k

(* record_rollback_completed: the last entry that is still done. *)
LEMMA UndoneIsSound ==
  ASSUME NEW j, Sound(j), NEW r, IsNextRollback(j, r)
  PROVE  Sound(record_rollback_completed(j, r))
<1> DEFINE k == record_rollback_completed(j, r)
<1>1. IsJournal(j) /\ validate(j) /\ r \in Done(j) /\ j.state = "rolling_back"
  BY DEF Sound, IsNextRollback
<1>2. r \in Entries(j) /\ j.phase[r] \in {"applied", "verified"}
  BY <1>1 DEF Done, InPhase
<1>3. /\ IsJournal(k) /\ k.state = j.state /\ k.step = j.step + 1 /\ Entries(k) = Entries(j)
      /\ \A s \in Entries(j) : k.phase[s] = IF s = r THEN "rolled_back" ELSE j.phase[s]
  BY <1>1, <1>2, SetPhaseFields DEF record_rollback_completed, Phases
<1>4. RollbackShape(j) /\ j.step >= 3 /\ Entries(j) # {} /\ j.step \in Nat
  BY <1>1, JournalFields DEF validate
<1> HIDE DEF k
<1>5. \A s \in Entries(j) : s > r => j.phase[s] \notin {"applied", "verified"}
  BY <1>1, <1>2, JournalFields DEF IsNextRollback, Done, InPhase, Role
<1>6. RollbackShape(k)
  BY <1>1, <1>2, <1>3, <1>4, <1>5, JournalFields DEF RollbackShape, Role
<1>7. Sound(k)
  BY <1>1, <1>3, <1>4, <1>6 DEF Sound, validate
<1> QED
  BY <1>7 DEF k

(* mark_rolled_back: no entry is done any more. *)
LEMMA RolledBackIsSound ==
  ASSUME NEW j, Sound(j), CanFinishRollback(j)
  PROVE  Sound(mark_rolled_back(j))
<1> DEFINE k == mark_rolled_back(j)
<1>1. IsJournal(j) /\ validate(j) /\ j.state = "rolling_back" /\ Done(j) = {}
  BY DEF Sound, CanFinishRollback
<1>2. IsJournal(k) /\ k.state = "rolled_back" /\ k.step = j.step + 1 /\ k.phase = j.phase
  BY <1>1, AdvanceFields DEF mark_rolled_back, States
<1>3. RollbackShape(j) /\ j.step >= 3 /\ Entries(j) # {} /\ j.step \in Nat
  BY <1>1, JournalFields DEF validate
<1> HIDE DEF k
<1>4. RollbackShape(k) /\ Done(k) = {} /\ k.step >= 4 /\ Entries(k) # {}
  BY <1>1, <1>2, <1>3 DEF RollbackShape, Done, InPhase, Entries
<1>5. Sound(k)
  BY <1>2, <1>4 DEF Sound, validate
<1> QED
  BY <1>5 DEF k

(* Advancing the state leaves done what was done. *)
LEMMA DoneAfterAdvance ==
  ASSUME NEW j, IsJournal(j), NEW s \in States
  PROVE  Done(Advance(j, s)) = Done(j) /\ Advance(j, s).state = s
BY AdvanceFields DEF Done, InPhase, Entries

(* Moving an entry to another phase makes at most that entry done. *)
LEMMA DoneAfterSetPhase ==
  ASSUME NEW j, IsJournal(j), NEW r \in Entries(j), NEW p \in Phases
  PROVE  /\ Done(SetPhase(j, r, p)) \subseteq Done(j) \cup {r}
         /\ SetPhase(j, r, p).state = j.state
BY SetPhaseFields DEF Done, InPhase

(* A prepared journal has nothing done, and an installed one everything. *)
LEMMA DoneInState ==
  ASSUME NEW j, Sound(j)
  PROVE  /\ CanStart(j) => Done(j) = {}
         /\ j.state = "installed" => Done(j) = Entries(j)
BY DEF Sound, validate, CanStart, Done, InPhase
===============================================================================
