---------------------------- MODULE InstallJournal ----------------------------
(***************************************************************************)
(* The journal of one installation transaction (core install_journal.rs):  *)
(* its state machine as operators on a journal value, and the validation a *)
(* journal passes when it is read back from the disk.                      *)
(*                                                                         *)
(* A role of the fixed layout is its install_order, a number.  Bindings,   *)
(* digests, modes and basenames are left out: they never change after the  *)
(* journal is made.  The identity an entry records is the object that its  *)
(* own transaction made, so it is not kept apart.  record_failure is left  *)
(* out: nothing calls it.                                                  *)
(***************************************************************************)
EXTENDS Naturals, FiniteSets

CONSTANTS
  Roles,         \* how many roles the layout has (32)
  Directories,   \* the roles below this bound (20) are directories
  Retention,     \* the directories that hold the journals
  Transactions,  \* transaction identifiers; also the objects they make
  None           \* no object

ASSUME JournalAssumption ==
  /\ Roles \in Nat /\ Directories \in 0 .. Roles
  /\ Retention \subseteq 1 .. Directories
  /\ None \notin Transactions

Role == 1 .. Roles

is_directory(r) == r <= Directories

States == {"prepared", "applying", "installed", "rolling_back", "rolled_back"}
Phases == {"pending", "applied", "verified", "rolled_back"}

(* InstallJournalV1: the entries are the roles the transaction changes.  The *)
(* prior state of an entry is the object an upgrade replaces, or None.       *)
IsJournal(j) ==
  LET E == DOMAIN j.phase IN
  /\ E \subseteq Role
  /\ j \in [state: States, step: Nat, phase: [E -> Phases], prior: [E -> Transactions \cup {None}]]

Entries(j) == DOMAIN j.phase
InPhase(j, p) == {r \in Entries(j) : j.phase[r] = p}
Done(j) == InPhase(j, "applied") \cup InPhase(j, "verified")

Advance(j, s) ==
  [state |-> s, step |-> j.step + 1, phase |-> j.phase, prior |-> j.prior]
SetPhase(j, r, p) ==
  [state |-> j.state, step |-> j.step + 1, phase |-> [j.phase EXCEPT ![r] = p], prior |-> j.prior]

(* InstallJournalV1::new and prepare, whose entries must not be empty. *)
Prepare(prior) ==
  [state |-> "prepared", step |-> 1, phase |-> [r \in DOMAIN prior |-> "pending"], prior |-> prior]

(* start_applying, mark_installed, begin_rollback and mark_rolled_back, each *)
(* with the condition it returns InvalidTransition without.                  *)
CanStart(j) == j.state = "prepared"
start_applying(j) == Advance(j, "applying")

(* next_forward_action: the first entry that is not verified. *)
IsNextForward(j, r) ==
  /\ j.state = "applying" /\ r \in Entries(j) /\ j.phase[r] # "verified"
  /\ \A s \in Entries(j) : s < r => j.phase[s] = "verified"

record_applied(j, r)  == SetPhase(j, r, "applied")
record_verified(j, r) == SetPhase(j, r, "verified")

CanInstall(j) ==
  /\ j.state = "applying" /\ Entries(j) # {}
  /\ \A r \in Entries(j) : j.phase[r] = "verified"
mark_installed(j) == Advance(j, "installed")

CanRollBack(j) == j.state \in {"applying", "installed"}
begin_rollback(j) == Advance(j, "rolling_back")

(* Mutant: the entries are undone in the order they were made. *)
IsFirstRollback(j, r) ==
  /\ j.state = "rolling_back" /\ r \in Done(j)
  /\ \A s \in Done(j) : s >= r

(* next_rollback_action: the last entry that is applied or verified. *)
IsNextRollback(j, r) ==
  /\ j.state = "rolling_back" /\ r \in Done(j)
  /\ \A s \in Done(j) : s <= r

record_rollback_completed(j, r) == SetPhase(j, r, "rolled_back")

CanFinishRollback(j) == j.state = "rolling_back" /\ Done(j) = {}
mark_rolled_back(j) == Advance(j, "rolled_back")

-----------------------------------------------------------------------------
(* validate_forward_prefix: verified entries, then at most one applied, then *)
(* pending ones; and the number of steps they took.                          *)
ForwardPrefix(j) ==
  \A s \in Entries(j) :
    /\ j.phase[s] # "rolled_back"
    /\ j.phase[s] # "pending" => \A r \in Entries(j) : r < s => j.phase[r] = "verified"
Progress(j) == 2 * Cardinality(InPhase(j, "verified")) + Cardinality(InPhase(j, "applied"))

(* validate_rollback_shape: entries to undo, then undone, then never done. *)
RollbackShape(j) ==
  \A r, s \in Entries(j) : r < s =>
    /\ j.phase[r] = "pending" => j.phase[s] = "pending"
    /\ j.phase[r] = "rolled_back" => j.phase[s] \notin {"applied", "verified"}

(* validate_entries_for_state: what Deserialize demands of a journal. *)
validate(j) ==
  /\ Entries(j) # {}
  /\ \/ /\ j.state = "prepared" /\ j.step = 1
        /\ InPhase(j, "pending") = Entries(j)
     \/ j.state = "applying" /\ ForwardPrefix(j) /\ j.step = 2 + Progress(j)
     \/ /\ j.state = "installed" /\ j.step = 3 + 2 * Cardinality(Entries(j))
        /\ InPhase(j, "verified") = Entries(j)
     \/ j.state = "rolling_back" /\ RollbackShape(j) /\ j.step >= 3
     \/ j.state = "rolled_back" /\ RollbackShape(j) /\ Done(j) = {} /\ j.step >= 4
===============================================================================
