---------------------------- MODULE DaemonControl ----------------------------
(***************************************************************************)
(* The daemon's concurrent control plane (daemon.rs): the bounded Unix     *)
(* server with its connection deadline, the blocking tasks the dispatcher  *)
(* spawns, the control mutex they share with the one-second sampler, the   *)
(* isolated session, and the coordinator that shuts everything down.       *)
(*                                                                         *)
(* The attachment driver is the one IsolatedDriver promises.  A blocking   *)
(* task that was spawned runs to its end: neither the deadline nor the end *)
(* of its connection cancels it.                                           *)
(***************************************************************************)
EXTENDS Naturals, FiniteSets

CONSTANTS
  Requests,       \* client connections, each carrying one request
  RunIds, NoRun,  \* run identifiers
  MaxGeneration,  \* bound on successful attaches
  MaxHandlers,    \* MAX_ACTIVE_HANDLERS
  None            \* no task holds the control mutex

ASSUME RequestsAssumption ==
  /\ NoRun \notin RunIds
  /\ Requests \cap {None, "sampler", "cleanup"} = {} /\ None \notin {"sampler", "cleanup"}
ASSUME HandlersAssumption == MaxHandlers \in Nat \ {0} /\ MaxGeneration \in Nat \ {0}

VARIABLES
  journal, held, generation, call, target, mark, stuck,  \* see IsolatedDriver
  active,    \* [run, generation] of TransactionIsolatedControl::active
  paused,    \* its sampling_paused
  lock,      \* task holding the control mutex
  asked,     \* command each connection carries
  conn,      \* state of each connection task
  task,      \* state of each blocking task
  server,    \* BoundedUnixServer::serve
  sampler,   \* run_sampling_loop
  coord,     \* coordinate_daemon
  shutdown,  \* the watch channel
  first,     \* FirstExit
  exit       \* result of coordinate_daemon

D == INSTANCE IsolatedDriver

driver  == <<journal, held, generation, call, target, mark, stuck>>
session == <<active, paused>>
process == <<server, sampler, coord, shutdown, first, exit>>
vars == <<driver, session, lock, asked, conn, task, process>>

Commands == [kind: {"attach", "detach"}, run: RunIds] \cup [kind: {"observe"}, run: {NoRun}]
NoCommand == [kind |-> "none", run |-> NoRun]
Tasks == Requests \cup {"sampler", "cleanup"}
NoSession == [run |-> NoRun, generation |-> 0]

TypeOK ==
  /\ journal \in [RunIds -> 0 .. MaxGeneration]
  /\ held \in [run: RunIds \cup {NoRun}, generation: 0 .. MaxGeneration]
  /\ generation \in 0 .. MaxGeneration
  /\ call \in {"idle", "attach", "detach"}
  /\ target \in RunIds \cup {NoRun} /\ mark \in 0 .. MaxGeneration
  /\ stuck \in BOOLEAN
  /\ active \in [run: RunIds \cup {NoRun}, generation: 0 .. MaxGeneration]
  /\ paused \in BOOLEAN
  /\ lock \in Tasks \cup {None}
  /\ asked \in [Requests -> Commands \cup {NoCommand}]
  /\ conn \in [Requests -> {"new", "waiting", "replied", "dropped"}]
  /\ task \in [Tasks -> {"none", "queued", "running", "ok", "failed"}]
  /\ server \in {"serving", "draining", "done", "failed"}
  /\ sampler \in {"waiting", "sampling", "done", "failed"}
  /\ coord \in {"running", "joining", "cleanup", "exited"}
  /\ shutdown \in BOOLEAN
  /\ first \in {"none", "signal", "server", "sampler"}
  /\ exit \in {"none", "ok", "sampler", "server", "cleanup"}

Init ==
  /\ D!Init
  /\ active = NoSession /\ paused = FALSE
  /\ lock = None
  /\ asked = [q \in Requests |-> NoCommand]
  /\ conn = [q \in Requests |-> "new"]
  /\ task = [t \in Tasks |-> "none"]
  /\ server = "serving" /\ sampler = "waiting" /\ coord = "running"
  /\ shutdown = FALSE /\ first = "none" /\ exit = "none"

-----------------------------------------------------------------------------
(* The server.                                                              *)

Waiting == {q \in Requests : conn[q] = "waiting"}

\* A permit is free and a connection is accepted; its request is read and
\* dispatched to a blocking task.  The select that accepts is not biased, so a
\* connection may still be accepted after the shutdown flag is raised.
Accept(q, c) ==
  /\ server = "serving" /\ conn[q] = "new"
  /\ Cardinality(Waiting) < MaxHandlers
  /\ conn' = [conn EXCEPT ![q] = "waiting"]
  /\ asked' = [asked EXCEPT ![q] = c]
  /\ task' = [task EXCEPT ![q] = "queued"]
  /\ UNCHANGED <<driver, session, lock, process>>

\* The blocking task has finished and its response is written.
Reply(q) ==
  /\ conn[q] = "waiting" /\ task[q] \in {"ok", "failed"}
  /\ conn' = [conn EXCEPT ![q] = "replied"]
  /\ UNCHANGED <<driver, session, lock, asked, task, process>>

\* REQUEST_TIMEOUT expires: the connection ends, the blocking task does not.
Timeout(q) ==
  /\ conn[q] = "waiting" /\ task[q] \in {"queued", "running"}
  /\ conn' = [conn EXCEPT ![q] = "dropped"]
  /\ UNCHANGED <<driver, session, lock, asked, task, process>>

\* The accept loop sees the shutdown flag, then joins the connection tasks.
ServerStops ==
  /\ server = "serving" /\ shutdown
  /\ server' = "draining"
  /\ UNCHANGED <<driver, session, lock, asked, conn, task, sampler, coord, shutdown, first, exit>>

ServerJoined ==
  /\ server = "draining" /\ Waiting = {}
  /\ server' = "done"
  /\ UNCHANGED <<driver, session, lock, asked, conn, task, sampler, coord, shutdown, first, exit>>

\* accept fails: serve returns at once and dropping the task set aborts the
\* connection tasks.
ServerFails ==
  /\ server = "serving"
  /\ server' = "failed"
  /\ conn' = [q \in Requests |-> IF conn[q] = "waiting" THEN "dropped" ELSE conn[q]]
  /\ UNCHANGED <<driver, session, lock, asked, task, sampler, coord, shutdown, first, exit>>

-----------------------------------------------------------------------------
(* The sampler.                                                             *)

Tick ==
  /\ sampler = "waiting" /\ ~shutdown
  /\ sampler' = "sampling"
  /\ task' = [task EXCEPT !["sampler"] = "queued"]
  /\ UNCHANGED <<driver, session, lock, asked, conn, server, coord, shutdown, first, exit>>

\* The tick's result is awaited; an error ends the loop.
TickDone ==
  /\ sampler = "sampling" /\ task["sampler"] \in {"ok", "failed"}
  /\ sampler' = IF task["sampler"] = "ok" THEN "waiting" ELSE "failed"
  /\ task' = [task EXCEPT !["sampler"] = "none"]
  /\ UNCHANGED <<driver, session, lock, asked, conn, server, coord, shutdown, first, exit>>

SamplerStops ==
  /\ sampler = "waiting" /\ shutdown
  /\ sampler' = "done"
  /\ UNCHANGED <<driver, session, lock, asked, conn, task, server, coord, shutdown, first, exit>>

-----------------------------------------------------------------------------
(* The control mutex and the operations of TransactionIsolatedControl.      *)

Kind(t) ==
  CASE t = "sampler" -> "sample"
    [] t = "cleanup" -> "shutdown"
    [] OTHER -> asked[t].kind

\* Task t holds the mutex and the driver is not running.
Holds(t, kinds) == lock = t /\ Kind(t) \in kinds /\ call = "idle"

Acquire(t) ==
  /\ task[t] = "queued" /\ lock = None
  /\ lock' = t /\ task' = [task EXCEPT ![t] = "running"]
  /\ UNCHANGED <<driver, session, asked, conn, process>>

\* Mutant: an operation that fails leaves the mutex locked.
FinishKeepsLock(t, outcome) ==
  /\ task' = [task EXCEPT ![t] = outcome]
  /\ lock' = IF outcome = "failed" THEN lock ELSE None
  /\ UNCHANGED <<asked, conn, process>>

\* The operation returns and the mutex guard is dropped.
Finish(t, outcome) ==
  /\ task' = [task EXCEPT ![t] = outcome]
  /\ lock' = None
  /\ UNCHANGED <<asked, conn, process>>

Continue == UNCHANGED <<lock, asked, conn, task, process>>

\* attach is blocked by the active session, or refused by the clock, the target
\* validation or the preflight.
AttachRefused(t) ==
  /\ Holds(t, {"attach"}) /\ (active # NoSession \/ held = NoSession)
  /\ Finish(t, "failed")
  /\ UNCHANGED <<driver, session>>

AttachBegins(t) ==
  /\ Holds(t, {"attach"}) /\ active = NoSession /\ held = NoSession
  /\ D!BeginAttach(asked[t].run)
  /\ Continue /\ UNCHANGED session

\* The driver commits or removes the journal of its call.
DriverWrites ==
  /\ D!Record \/ D!Erase
  /\ Continue /\ UNCHANGED session

AttachReturns ==
  /\ D!AttachOk
  /\ Continue /\ UNCHANGED session

AttachFails(t) ==
  /\ lock = t /\ D!AttachErr
  /\ Finish(t, "failed")
  /\ UNCHANGED session

\* sampling.start and start_incident_generation, then the session is active.
SamplingStarts(t) ==
  /\ Holds(t, {"attach"}) /\ active = NoSession /\ held # NoSession
  /\ active' = held /\ paused' = FALSE
  /\ Finish(t, "ok")
  /\ UNCHANGED driver

\* One of them fails: attach returns the error and the session is dropped.
SamplingFails(t) ==
  /\ Holds(t, {"attach"}) /\ active = NoSession
  /\ D!Forget
  /\ Finish(t, "failed")
  /\ UNCHANGED session

\* detach and shutdown: the run must be the active one.
Wanted(t) == IF Kind(t) = "shutdown" THEN active.run ELSE asked[t].run

\* The committed journal must equal the record of the session.
JournalMatches ==
  active # NoSession /\ journal[active.run] = active.generation

\* shutdown without a session, or a detach that is blocked: no session, another
\* run, a journal that differs or cannot be read.
ShutdownIdle(t) ==
  /\ Holds(t, {"shutdown"}) /\ active = NoSession
  /\ Finish(t, "ok")
  /\ UNCHANGED <<driver, session>>

DetachBlocked(t) ==
  /\ Holds(t, {"detach", "shutdown"})
  /\ Kind(t) = "shutdown" => active # NoSession
  /\ Finish(t, "failed")
  /\ UNCHANGED <<driver, session>>

\* Mutant: the sampler is not paused.
DetachBeginsSampling(t) ==
  /\ Holds(t, {"detach", "shutdown"})
  /\ active.run = Wanted(t) /\ JournalMatches
  /\ D!BeginDetach
  /\ Continue /\ UNCHANGED session

\* The sampler is paused before the driver is called.
DetachBegins(t) ==
  /\ Holds(t, {"detach", "shutdown"})
  /\ active.run = Wanted(t) /\ JournalMatches
  /\ paused' = TRUE
  /\ D!BeginDetach
  /\ Continue /\ UNCHANGED active

DetachReturns(t) ==
  /\ lock = t /\ D!DetachOk
  /\ active' = NoSession /\ paused' = FALSE
  /\ Finish(t, "ok")

\* Mutant: a failed detach clears the session.
DetachFailsClearing(t) ==
  /\ lock = t /\ D!DetachErr
  /\ active' = NoSession /\ paused' = FALSE
  /\ Finish(t, "failed")

\* A failed detach keeps the session, paused.
DetachFails(t) ==
  /\ lock = t /\ D!DetachErr
  /\ Finish(t, "failed")
  /\ UNCHANGED session

\* sample_tick: idle without a session, rejected while paused, else the journal
\* is read and must match.  Reading it may fail.
Sample(t) ==
  /\ Holds(t, {"sample"})
  /\ \/ (active = NoSession \/ paused \/ JournalMatches) /\ Finish(t, "ok")
     \/ active # NoSession /\ ~paused /\ Finish(t, "failed")
  /\ UNCHANGED <<driver, session>>

\* observe and status read the session and the journal; a status without a
\* session is an empty list.
Observe(t) ==
  /\ Holds(t, {"observe"})
  /\ \/ (active = NoSession \/ JournalMatches) /\ Finish(t, "ok")
     \/ Finish(t, "failed")
  /\ UNCHANGED <<driver, session>>

-----------------------------------------------------------------------------
(* The coordinator.                                                         *)

\* The first of signal, server and sampler that ends raises the flag.
FirstExit ==
  /\ coord = "running"
  /\ \/ first' = "signal"
     \/ server = "failed" /\ first' = "server"
     \/ sampler = "failed" /\ first' = "sampler"
  /\ shutdown' = TRUE /\ coord' = "joining"
  /\ UNCHANGED <<driver, session, lock, asked, conn, task, server, sampler, exit>>

\* Mutant: the cleanup does not wait for the server.
JoinedSamplerOnly ==
  /\ coord = "joining" /\ sampler \in {"done", "failed"}
  /\ coord' = "cleanup"
  /\ task' = [task EXCEPT !["cleanup"] = "queued"]
  /\ UNCHANGED <<driver, session, lock, asked, conn, server, sampler, shutdown, first, exit>>

Joined ==
  /\ coord = "joining"
  /\ server \in {"done", "failed"} /\ sampler \in {"done", "failed"}
  /\ coord' = "cleanup"
  /\ task' = [task EXCEPT !["cleanup"] = "queued"]
  /\ UNCHANGED <<driver, session, lock, asked, conn, server, sampler, shutdown, first, exit>>

Exit ==
  /\ coord = "cleanup" /\ task["cleanup"] \in {"ok", "failed"}
  /\ coord' = "exited"
  /\ exit' = CASE sampler = "failed" \/ first = "sampler" -> "sampler"
               [] server = "failed" -> "server"
               [] task["cleanup"] = "failed" -> "cleanup"
               [] OTHER -> "ok"
  /\ UNCHANGED <<driver, session, lock, asked, conn, task, server, sampler, shutdown, first>>

DriverReturns ==
  AttachReturns \/ \E t \in Tasks : AttachFails(t) \/ DetachReturns(t) \/ DetachFails(t)

Operation(t) ==
  \/ AttachRefused(t) \/ AttachBegins(t) \/ SamplingStarts(t) \/ SamplingFails(t)
  \/ ShutdownIdle(t) \/ DetachBlocked(t) \/ DetachBegins(t) \/ Sample(t) \/ Observe(t)

Connection(q) == Reply(q) \/ Timeout(q)

Orderly ==
  ServerStops \/ ServerJoined \/ TickDone \/ SamplerStops \/ Joined \/ Exit

Next ==
  \/ \E q \in Requests, c \in Commands : Accept(q, c)
  \/ \E q \in Requests : Connection(q)
  \/ \E t \in Tasks : Acquire(t) \/ Operation(t)
  \/ DriverWrites \/ DriverReturns
  \/ ServerFails \/ Tick \/ FirstExit \/ Orderly

Spec == Init /\ [][Next]_vars

\* Timers fire, spawned tasks are scheduled, and a driver call returns
\* (AttachmentTransaction!TransactionEnds).  The server need not fail and the
\* signal need not come.
FairSpec ==
  /\ Spec
  /\ WF_vars(Orderly) /\ WF_vars(DriverReturns)
  /\ \A q \in Requests : WF_vars(Connection(q))
  /\ \A t \in Tasks : WF_vars(Acquire(t)) /\ WF_vars(Operation(t))

-----------------------------------------------------------------------------
(* Properties.                                                              *)

\* Blocking tasks whose connection is gone.
Abandoned(q) == conn[q] = "dropped" /\ asked[q].kind = "attach" /\ task[q] = "ok"

\* Everything the daemon started has ended.
Terminated == coord = "exited" /\ \A t \in Tasks : task[t] \notin {"queued", "running"}

\* Whenever no operation runs, the control and the driver agree on the session:
\* an active session is the one the driver attached, and a session the driver
\* attached is active (daemon.rs attach and detach keep both in step through
\* every error path).
ControlMatchesDriver == lock = None => active = held

\* While no detach was tried, the active session's journal is the committed one,
\* so the sampler, observe, status and detach accept it (daemon.rs
\* canonical_ownership, detach).
ActiveIsJournalled ==
  active # NoSession /\ ~paused => JournalMatches

\* A daemon that ends with success has no session left, except one that an
\* attach committed whose client had already been given up on (daemon.rs
\* coordinate_daemon: shutdown_isolated runs after server and sampler ended).
SuccessfulExitIsClean ==
  Terminated /\ exit = "ok" /\ held # NoSession => \E q \in Requests : Abandoned(q)

\* Once the shutdown flag is raised the daemon exits, whatever requests, ticks
\* and driver calls are in flight (daemon.rs coordinate_daemon).
ShutdownCompletes == shutdown ~> coord = "exited"

\* Rate-window design: a signal shutdown waits for the current serialized request
\* and then performs the exact isolated detach, so nothing is attached once the
\* daemon has ended successfully.
NothingAttachedAfterExit == Terminated /\ exit = "ok" => held = NoSession

\* Rate-window design: "Failed detach clears history, leaves the canonical
\* ownership evidence intact, and keeps the session paused for an exact retry."
PausedSessionIsRetryable ==
  active # NoSession /\ paused /\ lock = None => JournalMatches

=============================================================================
