---------------------------- MODULE IsolatedDriver ----------------------------
(***************************************************************************)
(* What an isolated attachment driver promises the daemon that calls it    *)
(* (attach.rs, trait IsolatedAttachmentDriver): which session the caller   *)
(* holds, and which ownership journals exist while and after a call runs.  *)
(* AttachmentTransaction implements this specification; DaemonControl is   *)
(* written against it.                                                     *)
(***************************************************************************)
EXTENDS Naturals

CONSTANTS
  RunIds,         \* run identifiers
  NoRun,          \* no run identifier
  MaxGeneration   \* bound: attach is not started at this generation

VARIABLES
  journal,     \* generation in the journal committed for a run, 0 if none
  held,        \* [run, generation] of the session the caller holds
  generation,  \* generation of the last successful attach
  call,        \* the call that runs: "idle", "attach" or "detach"
  target,      \* its run
  mark,        \* its generation
  stuck        \* TRUE iff an object nobody holds a session for stays loaded

driverVars == <<journal, held, generation, call, target, mark, stuck>>

NoneHeld == [run |-> NoRun, generation |-> 0]

Init ==
  /\ journal = [r \in RunIds |-> 0]
  /\ held = NoneHeld
  /\ generation = 0
  /\ call = "idle" /\ target = NoRun /\ mark = 0
  /\ stuck = FALSE

BeginAttach(r) ==
  /\ call = "idle" /\ held = NoneHeld /\ generation < MaxGeneration
  /\ call' = "attach" /\ target' = r /\ mark' = generation + 1
  /\ UNCHANGED <<journal, held, generation, stuck>>

BeginDetach ==
  /\ call = "idle" /\ held # NoneHeld
  /\ call' = "detach" /\ target' = held.run /\ mark' = held.generation
  /\ UNCHANGED <<journal, held, generation, stuck>>

\* An attach commits its journal.
Record ==
  /\ call = "attach"
  /\ journal' = [journal EXCEPT ![target] = mark]
  /\ UNCHANGED <<held, generation, call, target, mark, stuck>>

\* A call removes the journal that holds its own record, and no other.
Erase ==
  /\ call # "idle" /\ journal[target] = mark
  /\ journal' = [journal EXCEPT ![target] = 0]
  /\ UNCHANGED <<held, generation, call, target, mark, stuck>>

Idle == call' = "idle" /\ target' = NoRun /\ mark' = 0

\* A session is handed out only with its journal committed.
AttachOk ==
  /\ call = "attach" /\ ~stuck /\ journal[target] = mark
  /\ held' = [run |-> target, generation |-> mark]
  /\ generation' = mark
  /\ Idle /\ UNCHANGED <<journal, stuck>>

\* A failed attach hands out nothing; its journal and its object may stay.
AttachErr ==
  /\ call = "attach"
  /\ stuck' \in {stuck, TRUE}
  /\ Idle /\ UNCHANGED <<journal, held, generation>>

\* The session is given up only when its journal is gone.
DetachOk ==
  /\ call = "detach" /\ journal[target] # mark
  /\ held' = NoneHeld
  /\ Idle /\ UNCHANGED <<journal, generation, stuck>>

\* A failed detach keeps the session; its journal may be gone already.
DetachErr == call = "detach" /\ Idle /\ UNCHANGED <<journal, held, generation, stuck>>

\* The caller drops the session it was handed: no attach succeeds any more.
Forget ==
  /\ call = "idle" /\ held # NoneHeld
  /\ held' = NoneHeld /\ stuck' = TRUE
  /\ UNCHANGED <<journal, generation, call, target, mark>>

\* The process is started again, or an operator removes the journals.
Restart ==
  /\ held' = NoneHeld /\ generation' = 0 /\ stuck' = FALSE
  /\ Idle /\ UNCHANGED journal

Recover ==
  /\ call = "idle" /\ held = NoneHeld
  /\ journal' = [r \in RunIds |-> 0]
  /\ UNCHANGED <<held, generation, call, target, mark, stuck>>

Next ==
  \/ \E r \in RunIds : BeginAttach(r)
  \/ BeginDetach \/ Record \/ Erase
  \/ AttachOk \/ AttachErr \/ DetachOk \/ DetachErr \/ Forget
  \/ Restart \/ Recover

Spec == Init /\ [][Next]_driverVars

=============================================================================
