------------------------ MODULE AttachmentTransaction ------------------------
(***************************************************************************)
(* The isolated attachment transaction of the agent (attach.rs) together   *)
(* with the adapters it drives: the Aya object loader and its pin tree     *)
(* (linux/bpf_object.rs), the XDP and TC netlink adapters (linux/xdp.rs,   *)
(* linux/tc.rs), the map publisher (linux/maps.rs) and the ephemeral       *)
(* ownership journal (ownership.rs).                                       *)
(*                                                                         *)
(* One action is one call that reads or writes the kernel or the           *)
(* filesystem.  Every such call may fail while the fault budget lasts, the *)
(* process may crash between any two of them, and somebody else may        *)
(* administer the same interface between any two of them.                  *)
(***************************************************************************)
EXTENDS Naturals, FiniteSets

CONSTANTS
  RunIds,         \* run identifiers; each names one journal file and one pin root
  NoRun,          \* no run identifier
  MaxGeneration,  \* bound: attach is not started at this generation
  MaxFaults,      \* bound: I/O calls that may fail in one transaction
  MaxCrashes,     \* bound: crashes of the process
  Interference    \* TRUE iff somebody else administers the interface

ASSUME RunIdsAssumption == NoRun \notin RunIds
ASSUME BoundsAssumption ==
  /\ MaxGeneration \in Nat \ {0}
  /\ MaxFaults \in Nat
  /\ MaxCrashes \in Nat
  /\ Interference \in BOOLEAN

VARIABLES
  xdp,        \* generic XDP slot of the interface
  clsact,     \* the clsact qdisc
  filter,     \* egress filter under the agent's reserved handle
  others,     \* TRUE iff clsact carries a filter under another handle
  gate,       \* TRUE iff IFACE_CONFIG has an entry for the interface
  stats,      \* HOOK_STATS entries of the generation
  pins,       \* pin tree below /sys/fs/bpf/l2-loop
  journal,    \* generation in the journal committed for a run, 0 if none
  temp,       \* runs whose temporary journal file exists
  object,     \* the active Aya object of the process
  generation, \* AttachmentTransaction::generation
  session,    \* the AttachmentSession handed to the caller
  phase,      \* which function of the transaction is running
  op,         \* the call that function makes next
  mode,       \* "observe": execute, "pass": execute_acceptance_pass_through
  run,        \* run identifier of the running function
  gen,        \* generation the running function works on
  own,        \* RollbackState, or the resources the session records; written
              \* is TRUE iff the running function renamed its journal into place
  evidence,   \* TRUE iff the running or last function reports cleanup evidence
  result,     \* result of the last function
  faulted,    \* silent calls of the running or last function that failed
  budget,     \* faults the running function may still meet
  crashes,    \* crashes so far
  left        \* own resources that still existed when the last function returned

kernelVars  == <<xdp, clsact, filter, others>>
mapVars     == <<gate, stats>>
fileVars    == <<pins, journal, temp>>
callVars    == <<mode, run, gen>>
faultVars   == <<faulted, budget>>
resultVars  == <<session, generation, result, left>>
vars == <<kernelVars, mapVars, fileVars, object, generation, session, phase, op,
          callVars, own, evidence, result, faultVars, crashes, left>>

Slots == {"empty", "ours", "stale", "foreign"}
Modes == {"observe", "pass"}
Amounts == {"none", "some", "all"}
AttachOps ==
  {"load", "xdp_query", "xdp_set", "xdp_check", "xdp_verify",
   "tc_query", "tc_clsact", "tc_raced", "tc_add", "tc_undo_find", "tc_undo_del",
   "tc_check", "tc_verify", "maps_init", "save_temp", "save_rename", "save_sync",
   "publish", "publish_check"}
CleanupOps ==
  {"journal", "maps_gate", "maps_stats", "tc_find", "tc_recheck", "tc_del",
   "cls_find", "cls_del", "xdp_find", "xdp_del", "unload"}
\* Calls whose failure an adapter returns without naming what it leaves behind.
SilentOps ==
  {"load_inspect", "load_undo", "xdp_check", "tc_undo_find", "tc_undo_del", "tc_check",
   "save_sync"}
Resources == {"xdp", "tc", "clsact", "pins", "journal", "object"}

NoObject  == [active |-> FALSE, initialized |-> FALSE, published |-> FALSE]
Nothing   == [xdp |-> FALSE, tc |-> FALSE, cls |-> FALSE, maps |-> FALSE, journal |-> FALSE,
              written |-> FALSE]
NoSession == [run |-> NoRun, generation |-> 0, mode |-> "observe", cls |-> FALSE]

TypeOK ==
  /\ xdp \in Slots /\ clsact \in Slots /\ filter \in Slots /\ others \in BOOLEAN
  /\ gate \in BOOLEAN /\ stats \in Amounts /\ pins \in Amounts
  /\ journal \in [RunIds -> 0 .. MaxGeneration]
  /\ temp \subseteq RunIds
  /\ object \in [active: BOOLEAN, initialized: BOOLEAN, published: BOOLEAN]
  /\ generation \in 0 .. MaxGeneration
  /\ session \in [run: RunIds \cup {NoRun}, generation: 0 .. MaxGeneration,
                  mode: Modes, cls: BOOLEAN]
  /\ phase \in {"idle", "attach", "rollback", "detach"}
  /\ op \in AttachOps \cup CleanupOps \cup {"none"}
  /\ mode \in Modes
  /\ run \in RunIds \cup {NoRun}
  /\ gen \in 0 .. MaxGeneration
  /\ own \in [xdp: BOOLEAN, tc: BOOLEAN, cls: BOOLEAN, maps: BOOLEAN, journal: BOOLEAN,
              written: BOOLEAN]
  /\ evidence \in BOOLEAN
  /\ result \in {"none", "attached", "attach_failed", "detached", "detach_failed"}
  /\ faulted \subseteq SilentOps
  /\ budget \in 0 .. MaxFaults
  /\ crashes \in 0 .. MaxCrashes
  /\ left \subseteq Resources

Init ==
  /\ xdp = "empty" /\ clsact = "empty" /\ filter = "empty" /\ others = FALSE
  /\ gate = FALSE /\ stats = "none" /\ pins = "none"
  /\ journal = [r \in RunIds |-> 0]
  /\ temp = {}
  /\ object = NoObject
  /\ generation = 0
  /\ session = NoSession
  /\ phase = "idle" /\ op = "none" /\ mode = "observe" /\ run = NoRun /\ gen = 0
  /\ own = Nothing
  /\ evidence = FALSE /\ result = "none"
  /\ faulted = {} /\ budget = MaxFaults
  /\ crashes = 0
  /\ left = {}

-----------------------------------------------------------------------------
(* Faults and the order of the calls.                                       *)

NoFault == UNCHANGED faultVars

Fault(o) ==
  /\ budget > 0
  /\ budget' = budget - 1
  /\ faulted' = faulted \cup ({o} \cap SilentOps)

\* The call fails and so does the undo the adapter attempts inside the call.
DoubleFault(o, undo) ==
  /\ budget > 1
  /\ budget' = budget - 2
  /\ faulted' = faulted \cup ({o, undo} \cap SilentOps)

\* The order of execute and of execute_acceptance_pass_through.
AfterLoad     == IF mode = "observe" THEN "xdp_query" ELSE "maps_init"
AfterTcVerify == IF mode = "observe" THEN "maps_init" ELSE "save_temp"
\* Mutant: the gate is published before the journal is saved.
AfterMapsInitPublishing == IF mode = "observe" THEN "publish" ELSE "xdp_query"

AfterMapsInit == IF mode = "observe" THEN "save_temp" ELSE "xdp_query"

\* The order of rollback and detach_exact, and of their pass-through variants.
AfterJournal == IF mode = "observe" THEN "maps_gate" ELSE "tc_find"
AfterMaps    == IF mode = "observe" THEN "tc_find" ELSE "unload"
AfterTc      == "xdp_find"
AfterXdp     == IF mode = "observe" THEN "unload" ELSE "maps_gate"

\* A call of the attach functions that succeeds and is followed by call o.
Goto(o) ==
  /\ op' = o
  /\ UNCHANGED <<phase, callVars, evidence, resultVars, crashes>>

\* A call of the attach functions that fails: every failure after the load
\* calls rollback, which keeps the RollbackState collected so far.
RollBack ==
  /\ phase' = "rollback"
  /\ op' = "journal"
  /\ UNCHANGED <<callVars, evidence, resultVars, crashes>>

\* A cleanup call, followed by call o; bad iff collect_cleanup records an error.
Cleaned(o, bad) ==
  /\ op' = o
  /\ evidence' = (evidence \/ bad)
  /\ UNCHANGED <<phase, callVars, own, resultVars, crashes>>

\* The locals of a function are gone once it returns.
Ended ==
  /\ phase' = "idle" /\ op' = "none"
  /\ mode' = "observe" /\ run' = NoRun /\ gen' = 0 /\ own' = Nothing

Attaching(o) == phase = "attach" /\ op = o
Cleaning(o)  == phase \in {"rollback", "detach"} /\ op = o

-----------------------------------------------------------------------------
(* execute and execute_acceptance_pass_through.                             *)

\* The target validation, the preflight report or the memlock call refuses.
AttachRefused ==
  /\ phase = "idle" /\ session = NoSession
  /\ evidence' = FALSE /\ result' = "attach_failed" /\ left' = {}
  /\ faulted' = {} /\ budget' = MaxFaults
  /\ UNCHANGED <<kernelVars, mapVars, fileVars, object, generation, session, phase, op,
                 callVars, own, crashes>>

\* Preflight and memlock pass.  The generation is computed later in the code,
\* from a field only a successful attach writes, so its value is the same here.
AttachStart(r, m) ==
  /\ phase = "idle" /\ session = NoSession /\ generation < MaxGeneration
  /\ phase' = "attach" /\ op' = "load"
  /\ run' = r /\ mode' = m /\ gen' = generation + 1
  /\ own' = Nothing /\ evidence' = FALSE
  /\ faulted' = {} /\ budget' = MaxFaults
  /\ UNCHANGED <<kernelVars, mapVars, fileVars, object, resultVars, crashes>>

\* load_and_validate_abi: the object is loaded, the two pin parents and the pin
\* root are created, which must not exist, and the six maps are pinned.
LoadOk ==
  /\ Attaching("load") /\ ~object.active /\ pins = "none"
  /\ object' = [active |-> TRUE, initialized |-> FALSE, published |-> FALSE]
  /\ pins' = "all" /\ gate' = FALSE /\ stats' = "none"
  /\ Goto(AfterLoad) /\ NoFault
  /\ UNCHANGED <<kernelVars, journal, temp, own>>

\* A failed load returns without_cleanup: the adapter undoes its own pins.  The
\* undo may fail, and a parent directory that cannot be inspected right after
\* its creation is not undone.
LoadFails ==
  /\ Attaching("load")
  /\ \/ (object.active \/ pins # "none") /\ NoFault /\ UNCHANGED pins
     \/ Fault("load") /\ UNCHANGED pins
     \/ ~object.active /\ pins = "none" /\ pins' = "some"
        /\ (Fault("load_inspect") \/ DoubleFault("load", "load_undo"))
  /\ Ended /\ result' = "attach_failed"
  /\ left' = IF pins' # pins THEN {"pins"} ELSE {}
  /\ UNCHANGED <<kernelVars, mapVars, journal, temp, object, generation, session,
                 evidence, crashes>>

\* SafeXdp::attach, first query: the slot must be empty.
XdpQuery ==
  /\ Attaching("xdp_query")
  /\ \/ xdp = "empty" /\ Goto("xdp_set") /\ NoFault
     \/ xdp # "empty" /\ RollBack /\ NoFault
     \/ Fault("xdp_query") /\ RollBack
  /\ UNCHANGED <<kernelVars, mapVars, fileVars, object, own>>

\* attach_no_replace: the kernel refuses an occupied slot atomically.
XdpSet ==
  /\ Attaching("xdp_set")
  /\ \/ xdp = "empty" /\ xdp' = "ours" /\ Goto("xdp_check") /\ NoFault
     \/ xdp # "empty" /\ RollBack /\ NoFault /\ UNCHANGED xdp
     \/ Fault("xdp_set") /\ RollBack /\ UNCHANGED xdp
  /\ UNCHANGED <<clsact, filter, others, mapVars, fileVars, object, own>>

\* Mutant: the RollbackState does not learn of the link.
XdpCheckUnrecorded ==
  /\ Attaching("xdp_check")
  /\ \/ xdp = "ours" /\ Goto("xdp_verify") /\ NoFault
     \/ xdp # "ours" /\ RollBack /\ NoFault
     \/ Fault("xdp_check") /\ RollBack
  /\ UNCHANGED <<kernelVars, mapVars, fileVars, object, own>>

\* The query after the attach.  When it fails, or finds another program, the
\* adapter returns an error and the RollbackState does not list the link.
XdpCheck ==
  /\ Attaching("xdp_check")
  /\ \/ xdp = "ours" /\ own' = [own EXCEPT !.xdp = TRUE] /\ Goto("xdp_verify") /\ NoFault
     \/ xdp # "ours" /\ RollBack /\ NoFault /\ UNCHANGED own
     \/ Fault("xdp_check") /\ RollBack /\ UNCHANGED own
  /\ UNCHANGED <<kernelVars, mapVars, fileVars, object>>

XdpVerify ==
  /\ Attaching("xdp_verify")
  /\ \/ xdp = "ours" /\ Goto("tc_query") /\ NoFault
     \/ xdp # "ours" /\ RollBack /\ NoFault
     \/ Fault("xdp_verify") /\ RollBack
  /\ UNCHANGED <<kernelVars, mapVars, fileVars, object, own>>

\* SafeTc::attach, first query: the reserved handle must be free.
TcQuery ==
  /\ Attaching("tc_query")
  /\ \/ filter = "empty" /\ NoFault
        /\ Goto(IF clsact = "empty" THEN "tc_clsact" ELSE "tc_add")
     \/ filter # "empty" /\ RollBack /\ NoFault
     \/ Fault("tc_query") /\ RollBack
  /\ UNCHANGED <<kernelVars, mapVars, fileVars, object, own>>

\* ensure_clsact_exclusive: creates the qdisc unless somebody else just did.
TcClsact ==
  /\ Attaching("tc_clsact")
  /\ \/ /\ clsact = "empty" /\ clsact' = "ours"
        /\ own' = [own EXCEPT !.cls = TRUE] /\ Goto("tc_add") /\ NoFault
     \/ clsact # "empty" /\ Goto("tc_raced") /\ NoFault /\ UNCHANGED <<clsact, own>>
     \/ Fault("tc_clsact") /\ RollBack /\ UNCHANGED <<clsact, own>>
  /\ UNCHANGED <<xdp, filter, others, mapVars, fileVars, object>>

\* Mutant: a qdisc that vanished again is created once more.
TcRacedRetries ==
  /\ Attaching("tc_raced")
  /\ \/ clsact # "empty" /\ filter = "empty" /\ Goto("tc_add") /\ NoFault
     \/ clsact = "empty" /\ Goto("tc_clsact") /\ NoFault
     \/ clsact # "empty" /\ filter # "empty" /\ RollBack /\ NoFault
     \/ Fault("tc_raced") /\ RollBack
  /\ UNCHANGED <<kernelVars, mapVars, fileVars, object, own>>

\* The query after a raced qdisc creation.
TcRaced ==
  /\ Attaching("tc_raced")
  /\ \/ clsact # "empty" /\ filter = "empty" /\ Goto("tc_add") /\ NoFault
     \/ (clsact = "empty" \/ filter # "empty") /\ RollBack /\ NoFault
     \/ Fault("tc_raced") /\ RollBack
  /\ UNCHANGED <<kernelVars, mapVars, fileVars, object, own>>

\* attach_exclusive.  When it fails attach_failure removes a created clsact.
TcAdd ==
  /\ Attaching("tc_add")
  /\ \/ /\ clsact # "empty" /\ filter = "empty"
        /\ filter' = "ours" /\ Goto("tc_check") /\ NoFault
     \/ /\ \/ (clsact = "empty" \/ filter # "empty") /\ NoFault
           \/ Fault("tc_add")
        /\ IF own.cls THEN Goto("tc_undo_find") ELSE RollBack
        /\ UNCHANGED filter
  /\ UNCHANGED <<xdp, clsact, others, mapVars, fileVars, object, own>>

\* remove_clsact_if_empty_exact, its query: the qdisc must carry no filter.
TcUndoFind ==
  /\ Attaching("tc_undo_find")
  /\ \/ clsact # "empty" /\ filter = "empty" /\ ~others /\ Goto("tc_undo_del") /\ NoFault
     \/ (clsact = "empty" \/ filter # "empty" \/ others) /\ RollBack /\ NoFault
     \/ Fault("tc_undo_find") /\ RollBack
  /\ UNCHANGED <<kernelVars, mapVars, fileVars, object, own>>

\* remove_clsact_if_empty_exact, its deletion: the kernel removes the qdisc with
\* every filter it carries by then.
DeleteQdisc ==
  /\ clsact # "empty"
  /\ clsact' = "empty" /\ filter' = "empty" /\ others' = FALSE

TcUndoDel ==
  /\ Attaching("tc_undo_del") /\ RollBack
  /\ \/ DeleteQdisc /\ NoFault
     \/ clsact = "empty" /\ NoFault /\ UNCHANGED <<clsact, filter, others>>
     \/ Fault("tc_undo_del") /\ UNCHANGED <<clsact, filter, others>>
  /\ UNCHANGED <<xdp, mapVars, fileVars, object, own>>

\* The query after the filter was added.
TcCheck ==
  /\ Attaching("tc_check")
  /\ \/ filter = "ours" /\ own' = [own EXCEPT !.tc = TRUE] /\ Goto("tc_verify") /\ NoFault
     \/ filter # "ours" /\ RollBack /\ NoFault /\ UNCHANGED own
     \/ Fault("tc_check") /\ RollBack /\ UNCHANGED own
  /\ UNCHANGED <<kernelVars, mapVars, fileVars, object>>

TcVerify ==
  /\ Attaching("tc_verify")
  /\ \/ filter = "ours" /\ Goto(AfterTcVerify) /\ NoFault
     \/ filter # "ours" /\ RollBack /\ NoFault
     \/ Fault("tc_verify") /\ RollBack
  /\ UNCHANGED <<kernelVars, mapVars, fileVars, object, own>>

\* initialize_dependent: sixteen HOOK_STATS entries, undone when one fails.
MapsInit ==
  /\ Attaching("maps_init")
  /\ \/ /\ object.active /\ ~object.initialized
        /\ stats' = "all" /\ object' = [object EXCEPT !.initialized = TRUE]
        /\ own' = [own EXCEPT !.maps = TRUE] /\ Goto(AfterMapsInit) /\ NoFault
     \/ /\ \/ Fault("maps_init") /\ UNCHANGED stats
           \/ DoubleFault("maps_init", "maps_undo") /\ stats' = "some"
        /\ RollBack /\ UNCHANGED <<object, own>>
  /\ UNCHANGED <<kernelVars, gate, fileVars>>

\* save, first part: the record and the pins are validated and the temporary
\* file, which must not exist, is written.  A failed write leaves the file.
SaveTemp ==
  /\ Attaching("save_temp")
  /\ \/ /\ pins = "all" /\ run \notin temp
        /\ temp' = temp \cup {run} /\ Goto("save_rename") /\ NoFault
     \/ (pins # "all" \/ run \in temp) /\ RollBack /\ NoFault /\ UNCHANGED temp
     \/ Fault("save_temp") /\ RollBack /\ temp' \in {temp, temp \cup {run}}
  /\ UNCHANGED <<kernelVars, mapVars, pins, journal, object, own>>

\* save, second part: the temporary file replaces the journal.
SaveRename ==
  /\ Attaching("save_rename")
  /\ \/ /\ journal' = [journal EXCEPT ![run] = gen]
        /\ temp' = temp \ {run} /\ own' = [own EXCEPT !.written = TRUE]
        /\ Goto("save_sync") /\ NoFault
     \/ Fault("save_rename") /\ RollBack /\ UNCHANGED <<journal, temp, own>>
  /\ UNCHANGED <<kernelVars, mapVars, pins, object>>

\* Mutant: the generation is not kept.
CommitKeepsGeneration ==
  /\ Ended
  /\ session' = [run |-> run, generation |-> gen, mode |-> mode, cls |-> own.cls]
  /\ result' = "attached" /\ left' = {}
  /\ UNCHANGED <<generation, evidence, crashes>>

\* The attach functions return the session and keep the generation.
Commit ==
  /\ Ended
  /\ session' = [run |-> run, generation |-> gen, mode |-> mode, cls |-> own.cls]
  /\ generation' = gen
  /\ result' = "attached" /\ left' = {}
  /\ UNCHANGED <<evidence, crashes>>

\* save, last part: the directory is synced.  Only now does the RollbackState
\* list the journal.  The pass-through variant publishes nothing and commits.
SaveSync ==
  /\ Attaching("save_sync")
  /\ \/ /\ mode = "observe" /\ own' = [own EXCEPT !.journal = TRUE]
        /\ Goto("publish") /\ NoFault
     \/ mode = "pass" /\ Commit /\ NoFault
     \/ Fault("save_sync") /\ RollBack /\ UNCHANGED own
  /\ UNCHANGED <<kernelVars, mapVars, fileVars, object>>

\* publish_iface_config, insertion of the activation gate.
Publish ==
  /\ Attaching("publish")
  /\ \/ /\ object.initialized /\ ~object.published /\ ~gate
        /\ gate' = TRUE /\ Goto("publish_check") /\ NoFault
     \/ Fault("publish") /\ RollBack /\ UNCHANGED gate
  /\ UNCHANGED <<kernelVars, stats, fileVars, object, own>>

\* publish_iface_config, read back: a mismatch removes the entry and ignores
\* the result of the removal.
PublishCheck ==
  /\ Attaching("publish_check")
  /\ \/ object' = [object EXCEPT !.published = TRUE] /\ Commit /\ NoFault /\ UNCHANGED gate
     \/ /\ \/ Fault("publish_check") /\ gate' = FALSE
           \/ DoubleFault("publish_check", "publish_undo") /\ UNCHANGED gate
        /\ RollBack /\ UNCHANGED <<object, own>>
  /\ UNCHANGED <<kernelVars, stats, fileVars>>

-----------------------------------------------------------------------------
(* rollback, detach_exact and their pass-through variants.  Every step runs *)
(* whatever the earlier steps reported; a step of rollback whose resource    *)
(* the RollbackState does not list is skipped.                               *)

DetachStart ==
  /\ phase = "idle" /\ session # NoSession
  /\ phase' = "detach" /\ op' = "journal"
  /\ run' = session.run /\ gen' = session.generation /\ mode' = session.mode
  /\ own' = [xdp |-> TRUE, tc |-> TRUE, cls |-> session.cls, maps |-> TRUE, journal |-> TRUE,
             written |-> TRUE]
  /\ evidence' = FALSE /\ faulted' = {} /\ budget' = MaxFaults
  /\ UNCHANGED <<kernelVars, mapVars, fileVars, object, resultVars, crashes>>

\* The daemon drops a session it was just handed, when sampling cannot start.
SessionDropped ==
  /\ phase = "idle" /\ result = "attached"
  /\ session' = NoSession /\ result' = "none"
  /\ UNCHANGED <<kernelVars, mapVars, fileVars, object, generation, phase, op,
                 callVars, own, evidence, faultVars, crashes, left>>

\* remove_exact: the journal must hold this record and its pins must exist.  A
\* failed directory sync is reported after the file is gone.
RemoveJournal ==
  /\ Cleaning("journal")
  /\ \/ ~own.journal /\ Cleaned(AfterJournal, FALSE) /\ NoFault /\ UNCHANGED journal
     \/ /\ own.journal /\ journal[run] = gen /\ pins = "all"
        /\ journal' = [journal EXCEPT ![run] = 0]
        /\ \/ Cleaned(AfterJournal, FALSE) /\ NoFault
           \/ Cleaned(AfterJournal, TRUE) /\ Fault("journal")
     \/ /\ own.journal /\ Cleaned(AfterJournal, TRUE) /\ UNCHANGED journal
        /\ \/ (journal[run] # gen \/ pins # "all") /\ NoFault
           \/ Fault("journal")
  /\ UNCHANGED <<kernelVars, mapVars, pins, temp, object>>

\* rollback_initialized_exact, first part: the gate goes before the entries.
MapsGate ==
  /\ Cleaning("maps_gate")
  /\ \/ ~own.maps /\ Cleaned(AfterMaps, FALSE) /\ NoFault /\ UNCHANGED <<gate, object>>
     \/ /\ own.maps /\ ~(object.active /\ object.initialized)
        /\ Cleaned(AfterMaps, TRUE) /\ NoFault /\ UNCHANGED <<gate, object>>
     \/ /\ own.maps /\ object.initialized /\ ~object.published
        /\ Cleaned("maps_stats", FALSE) /\ NoFault /\ UNCHANGED <<gate, object>>
     \/ /\ own.maps /\ object.initialized /\ object.published
        /\ \/ /\ gate' = FALSE /\ object' = [object EXCEPT !.published = FALSE]
              /\ Cleaned("maps_stats", FALSE) /\ NoFault
           \/ Cleaned(AfterMaps, TRUE) /\ Fault("maps_gate") /\ UNCHANGED <<gate, object>>
  /\ UNCHANGED <<kernelVars, stats, fileVars>>

\* rollback_initialized_exact, second part: every entry is read, then removed.
MapsStats ==
  /\ Cleaning("maps_stats")
  /\ \/ /\ stats = "all" /\ stats' = "none"
        /\ object' = [object EXCEPT !.initialized = FALSE]
        /\ Cleaned(AfterMaps, FALSE) /\ NoFault
     \/ stats # "all" /\ Cleaned(AfterMaps, TRUE) /\ NoFault /\ UNCHANGED <<stats, object>>
     \/ /\ Cleaned(AfterMaps, TRUE) /\ Fault("maps_stats")
        /\ stats' \in {stats, "some"} /\ UNCHANGED object
  /\ UNCHANGED <<kernelVars, gate, fileVars>>

\* SafeTc::detach, its query.
TcFind ==
  /\ Cleaning("tc_find")
  /\ \/ ~own.tc /\ Cleaned(AfterTc, FALSE) /\ NoFault
     \/ own.tc /\ filter = "ours" /\ Cleaned("tc_recheck", FALSE) /\ NoFault
     \/ /\ own.tc /\ filter = "empty" /\ NoFault
        /\ Cleaned(IF own.cls THEN "cls_find" ELSE AfterTc, FALSE)
     \/ own.tc /\ filter \in {"stale", "foreign"} /\ Cleaned(AfterTc, TRUE) /\ NoFault
     \/ own.tc /\ Cleaned(AfterTc, TRUE) /\ Fault("tc_find")
  /\ UNCHANGED <<kernelVars, mapVars, fileVars, object>>

\* RtnetlinkTcIo::detach_exact, its query.
TcRecheck ==
  /\ Cleaning("tc_recheck")
  /\ \/ filter = "ours" /\ Cleaned("tc_del", FALSE) /\ NoFault
     \/ filter # "ours" /\ Cleaned(AfterTc, TRUE) /\ NoFault
     \/ Cleaned(AfterTc, TRUE) /\ Fault("tc_recheck")
  /\ UNCHANGED <<kernelVars, mapVars, fileVars, object>>

\* RtnetlinkTcIo::detach_exact, its deletion: the request names the handle and
\* the priority, so it deletes whatever filter is there by then.
TcDel ==
  /\ Cleaning("tc_del")
  /\ \/ /\ filter # "empty" /\ filter' = "empty" /\ NoFault
        /\ Cleaned(IF own.cls THEN "cls_find" ELSE AfterTc, FALSE)
     \/ filter = "empty" /\ Cleaned(AfterTc, TRUE) /\ NoFault /\ UNCHANGED filter
     \/ Cleaned(AfterTc, TRUE) /\ Fault("tc_del") /\ UNCHANGED filter
  /\ UNCHANGED <<xdp, clsact, others, mapVars, fileVars, object>>

\* remove_created_clsact at the end of a detach: query, then deletion.
ClsFind ==
  /\ Cleaning("cls_find")
  /\ \/ /\ clsact # "empty" /\ filter = "empty" /\ ~others
        /\ Cleaned("cls_del", FALSE) /\ NoFault
     \/ /\ clsact = "empty" \/ filter # "empty" \/ others
        /\ Cleaned(AfterTc, TRUE) /\ NoFault
     \/ Cleaned(AfterTc, TRUE) /\ Fault("cls_find")
  /\ UNCHANGED <<kernelVars, mapVars, fileVars, object>>

ClsDel ==
  /\ Cleaning("cls_del")
  /\ \/ DeleteQdisc /\ Cleaned(AfterTc, FALSE) /\ NoFault
     \/ clsact = "empty" /\ Cleaned(AfterTc, TRUE) /\ NoFault /\ UNCHANGED <<clsact, filter, others>>
     \/ Cleaned(AfterTc, TRUE) /\ Fault("cls_del") /\ UNCHANGED <<clsact, filter, others>>
  /\ UNCHANGED <<xdp, mapVars, fileVars, object>>

\* SafeXdp::detach, its query.
XdpFind ==
  /\ Cleaning("xdp_find")
  /\ \/ ~own.xdp /\ Cleaned(AfterXdp, FALSE) /\ NoFault
     \/ own.xdp /\ xdp = "ours" /\ Cleaned("xdp_del", FALSE) /\ NoFault
     \/ own.xdp /\ xdp = "empty" /\ Cleaned(AfterXdp, FALSE) /\ NoFault
     \/ own.xdp /\ xdp \in {"stale", "foreign"} /\ Cleaned(AfterXdp, TRUE) /\ NoFault
     \/ own.xdp /\ Cleaned(AfterXdp, TRUE) /\ Fault("xdp_find")
  /\ UNCHANGED <<kernelVars, mapVars, fileVars, object>>

\* Mutant: the request does not carry the expected program.
XdpDelUnconditional ==
  /\ Cleaning("xdp_del")
  /\ \/ xdp # "empty" /\ xdp' = "empty" /\ Cleaned(AfterXdp, FALSE) /\ NoFault
     \/ xdp = "empty" /\ Cleaned(AfterXdp, TRUE) /\ NoFault /\ UNCHANGED xdp
     \/ Cleaned(AfterXdp, TRUE) /\ Fault("xdp_del") /\ UNCHANGED xdp
  /\ UNCHANGED <<clsact, filter, others, mapVars, fileVars, object>>

\* detach_if_matches: the request carries the expected program.  That the kernel
\* compares it and detaches in one step is an assumption on the kernel.
XdpDel ==
  /\ Cleaning("xdp_del")
  /\ \/ xdp = "ours" /\ xdp' = "empty" /\ Cleaned(AfterXdp, FALSE) /\ NoFault
     \/ xdp # "ours" /\ Cleaned(AfterXdp, TRUE) /\ NoFault /\ UNCHANGED xdp
     \/ Cleaned(AfterXdp, TRUE) /\ Fault("xdp_del") /\ UNCHANGED xdp
  /\ UNCHANGED <<clsact, filter, others, mapVars, fileVars, object>>

\* A hook or qdisc that outlives the object it was created with.
Orphan(slot) == IF slot = "ours" THEN "stale" ELSE slot

\* The object is dropped.  Its maps live on only while a pin or a hook holds
\* them, and nobody writes them any more.
DropObject ==
  /\ object' = NoObject /\ gate' = FALSE /\ stats' = "none"
  /\ xdp' = Orphan(xdp) /\ clsact' = Orphan(clsact) /\ filter' = Orphan(filter)
  /\ UNCHANGED others

\* What the function that returns now created and did not remove.
Residue ==
  {r \in Resources :
     \/ r = "xdp" /\ xdp = "ours"
     \/ r = "tc" /\ filter = "ours"
     \/ r = "clsact" /\ clsact = "ours" /\ filter # "foreign" /\ ~others
     \/ r = "pins" /\ pins' # "none"
     \/ r = "journal" /\ own.written /\ journal[run] = gen
     \/ r = "object" /\ object'.active}

\* Mutant: a failed detach gives up its session.
ReturnDropsSession(bad) ==
  /\ Ended
  /\ evidence' = (evidence \/ bad)
  /\ left' = Residue
  /\ IF phase = "rollback"
       THEN result' = "attach_failed" /\ UNCHANGED session
       ELSE /\ result' = IF evidence' THEN "detach_failed" ELSE "detached"
            /\ session' = NoSession
  /\ UNCHANGED <<generation, crashes>>

\* rollback and detach_exact return; a detach keeps its session on any evidence.
Return(bad) ==
  /\ Ended
  /\ evidence' = (evidence \/ bad)
  /\ left' = Residue
  /\ IF phase = "rollback"
       THEN result' = "attach_failed" /\ UNCHANGED session
       ELSE IF evidence'
         THEN result' = "detach_failed" /\ UNCHANGED session
         ELSE result' = "detached" /\ session' = NoSession
  /\ UNCHANGED <<generation, crashes>>

\* unload_exact: refused without an object or while map entries remain; then the
\* object is dropped whether or not the pins could be removed.
Unload ==
  /\ Cleaning("unload")
  /\ \/ /\ object.active /\ ~object.initialized /\ ~object.published
        /\ DropObject
        /\ \/ pins' = "none" /\ Return(FALSE) /\ NoFault
           \/ pins' = "some" /\ Return(TRUE) /\ Fault("unload")
     \/ /\ ~object.active \/ object.initialized \/ object.published
        /\ UNCHANGED <<kernelVars, mapVars, pins, object>>
        /\ Return(TRUE) /\ NoFault
  /\ UNCHANGED <<journal, temp>>

-----------------------------------------------------------------------------
(* The environment.                                                         *)

\* The process dies and is started again: hooks, pins and files survive it.
Crash ==
  /\ crashes < MaxCrashes /\ crashes' = crashes + 1
  /\ DropObject
  /\ Ended
  /\ generation' = 0 /\ session' = NoSession /\ result' = "none"
  /\ evidence' = FALSE /\ faulted' = {} /\ budget' = MaxFaults /\ left' = {}
  /\ UNCHANGED fileVars

\* Somebody else attaches, replaces or removes an XDP program.
ForeignXdp ==
  /\ Interference
  /\ xdp' \in {"empty", "foreign"} \ {xdp}
  /\ UNCHANGED <<clsact, filter, others, mapVars, fileVars, object, resultVars, phase, op,
                 callVars, own, evidence, faultVars, crashes>>

\* Somebody else adds, replaces or removes a qdisc or a filter.
ForeignTc ==
  /\ Interference
  /\ \/ clsact = "empty" /\ clsact' = "foreign" /\ UNCHANGED <<filter, others>>
     \/ clsact # "empty" /\ filter' \in {"empty", "foreign"} \ {filter}
        /\ UNCHANGED <<clsact, others>>
     \/ clsact # "empty" /\ others' = ~others /\ UNCHANGED <<clsact, filter>>
     \/ DeleteQdisc
  /\ UNCHANGED <<xdp, mapVars, fileVars, object, resultVars, phase, op,
                 callVars, own, evidence, faultVars, crashes>>

\* An operator removes what earlier runs left behind, between transactions.
OperatorRecovers ==
  /\ phase = "idle" /\ session = NoSession /\ ~object.active
  /\ \/ pins # "none" \/ temp # {} \/ \E r \in RunIds : journal[r] # 0
     \/ "stale" \in {xdp, clsact, filter}
  /\ pins' = "none" /\ temp' = {} /\ journal' = [r \in RunIds |-> 0]
  /\ xdp' = (IF xdp = "stale" THEN "empty" ELSE xdp)
  /\ filter' = (IF filter = "stale" THEN "empty" ELSE filter)
  /\ clsact' = (IF clsact = "stale" /\ filter' = "empty" /\ ~others THEN "empty" ELSE clsact)
  /\ result' = "none" /\ left' = {}
  /\ UNCHANGED <<others, mapVars, object, generation, session, phase, op, callVars, own,
                 evidence, faultVars, crashes>>

AgentStep ==
  \/ AttachRefused
  \/ \E r \in RunIds, m \in Modes : AttachStart(r, m)
  \/ LoadOk \/ LoadFails \/ XdpQuery \/ XdpSet \/ XdpCheck \/ XdpVerify
  \/ TcQuery \/ TcClsact \/ TcRaced \/ TcAdd \/ TcUndoFind \/ TcUndoDel \/ TcCheck \/ TcVerify
  \/ MapsInit \/ SaveTemp \/ SaveRename \/ SaveSync \/ Publish \/ PublishCheck
  \/ SessionDropped \/ DetachStart \/ RemoveJournal \/ MapsGate \/ MapsStats
  \/ TcFind \/ TcRecheck \/ TcDel \/ ClsFind \/ ClsDel \/ XdpFind \/ XdpDel \/ Unload

Next == AgentStep \/ Crash \/ ForeignXdp \/ ForeignTc \/ OperatorRecovers

Spec == Init /\ [][Next]_vars

\* The transaction runs on a blocking thread that nothing interrupts: once
\* started, its next call is eventually made and answered.
Running == phase # "idle" /\ AgentStep
FairSpec == Spec /\ WF_vars(Running)

-----------------------------------------------------------------------------
(* Properties.                                                              *)

\* A session that attach handed out, and that no detach was tried on, is
\* complete: the entries, the pins and the committed journal exist, the gate is
\* open exactly for an observing session, and the hooks are the agent's unless
\* somebody else took them (attach.rs execute: everything is attached, verified
\* and journalled before the activation gate is published).
AttachedIsComplete ==
  phase = "idle" /\ result = "attached" =>
    /\ stats = "all" /\ pins = "all"
    /\ object.active /\ object.initialized
    /\ journal[session.run] = session.generation
    /\ gate = (session.mode = "observe") /\ object.published = gate
    /\ ~Interference => xdp = "ours" /\ filter = "ours" /\ clsact # "empty"

\* The gate is open only while the entries it depends on and the journal that
\* records the attachment exist, until a cleanup removes the journal.  The one
\* exception is a publication whose read back and removal both failed
\* (maps.rs publish_iface_config, attach.rs execute and detach_exact).
GateIsJournalled ==
  gate /\ object.published /\ phase # "detach" /\ result # "detach_failed" =>
    stats = "all" /\ \E r \in RunIds : journal[r] = generation

\* A detach that reports success leaves nothing of the session behind: no hook,
\* no created qdisc, no pin, no journal and no loaded object, whatever somebody
\* else did to the interface meanwhile (attach.rs detach_exact, cleanup_result).
DetachedIsClean == result = "detached" => left = {}

\* An attach that fails without cleanup evidence leaves something behind only
\* when a silent call failed: the query after an XDP or TC attach, the removal of
\* a created qdisc, the sync after the journal rename, or the undo of the pins.
\* A created qdisc may also stay when somebody else removed the filter
\* (attach.rs rollback and the error paths of its adapters).
FailedAttachIsClean ==
  phase = "idle" /\ result = "attach_failed" /\ ~evidence =>
    /\ "xdp" \in left => "xdp_check" \in faulted
    /\ "tc" \in left => "tc_check" \in faulted
    /\ "clsact" \in left =>
         Interference \/ faulted \cap {"tc_check", "tc_undo_find", "tc_undo_del"} # {}
    /\ "journal" \in left => "save_sync" \in faulted
    /\ "pins" \in left => faulted \cap {"load_inspect", "load_undo"} # {}
    /\ "object" \notin left

\* However a transaction ends, with success or not, what it leaves behind is what
\* it reports: both of the above (attach.rs execute, rollback and detach_exact).
EndsClean == DetachedIsClean /\ FailedAttachIsClean

\* The agent never removes or replaces an XDP program of somebody else, nor a
\* hook that outlived an earlier process or a failed cleanup (xdp.rs attach with
\* no-replace, detach with the expected program; tc.rs classify_inventory).
KeepsWhatItDoesNotOwn ==
  [][AgentStep => /\ xdp \in {"stale", "foreign"} => xdp' = xdp
                  /\ filter = "stale" => filter' = filter]_vars

\* Every transaction ends, whatever fails and whatever somebody else does to
\* the interface meanwhile (attach.rs: straight-line calls, no retry loop).
TransactionEnds == phase # "idle" ~> phase = "idle"

\* The transaction is an isolated attachment driver: its caller sees only the
\* session and the journals, and rollback is part of a failing attach.
Driver == INSTANCE IsolatedDriver WITH
  held   <- [run |-> session.run, generation |-> session.generation],
  call   <- (IF phase = "rollback" THEN "attach" ELSE phase),
  target <- run,
  mark   <- gen,
  stuck  <- object.active /\ session = NoSession /\ (phase = "idle" \/ op = "load")

\* attach.rs implements what trait IsolatedAttachmentDriver promises the daemon:
\* a session is handed out only with its journal committed and given up only
\* when the journal is gone, and no call touches the journal of another run.
ImplementsDriver == Driver!Spec

=============================================================================
