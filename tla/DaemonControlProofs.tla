------------------------- MODULE DaemonControlProofs -------------------------
(***************************************************************************)
(* Proofs about DaemonControl, for any sets of requests and runs and any   *)
(* bounds.  The invariant says who holds the control mutex, what its       *)
(* holder may have left half done, and what the end of the server and the  *)
(* cleanup exclude.                                                        *)
(***************************************************************************)
EXTENDS DaemonControl, TLAPS

\* The mutex is held by the one task that runs.
LockIsHeld == \A t \in Tasks : task[t] = "running" <=> lock = t

\* Tasks that were not spawned, or whose result was taken.
Unstarted ==
  /\ \A q \in Requests : conn[q] = "new" => task[q] = "none"
  /\ sampler # "sampling" => task["sampler"] = "none"
  /\ coord \in {"running", "joining"} => task["cleanup"] = "none"

\* The task that holds the mutex carries an attach.
Attaching == lock \in Requests /\ asked[lock].kind = "attach"

\* A driver call runs under the mutex, on behalf of the session it concerns.
CallIsLocked ==
  /\ call = "attach" =>
       Attaching /\ active = NoSession /\ held = NoSession /\ target \in RunIds
  /\ call = "detach" =>
       /\ lock # None /\ active = held /\ held # NoSession /\ paused
       /\ target = held.run /\ mark = held.generation

\* Control and driver differ only inside an attach whose driver call returned.
SessionsAgree ==
  active = held \/ (active = NoSession /\ Attaching /\ call = "idle")

HeldIsJournalled ==
  /\ paused => active # NoSession
  /\ held # NoSession =>
       /\ held.run \in RunIds
       /\ ~paused => journal[held.run] = held.generation

\* A task that has not ended has a connection that waits or was dropped; none
\* waits once the server has ended, which the cleanup waits for.
ConnectionsEnd ==
  /\ \A q \in Requests : task[q] \in {"queued", "running"} => conn[q] \in {"waiting", "dropped"}
  /\ server \in {"done", "failed"} => \A q \in Requests : conn[q] # "waiting"
  /\ coord \in {"cleanup", "exited"} => server \in {"done", "failed"}

\* What is attached after the cleanup is the work of an abandoned attach.
LateSession ==
  /\ exit = "ok" => task["cleanup"] = "ok"
  /\ task["cleanup"] = "ok" /\ held # NoSession =>
       (\E q \in Requests : Abandoned(q)) \/ (Attaching /\ active = NoSession)

IInv ==
  /\ TypeOK /\ LockIsHeld /\ Unstarted /\ CallIsLocked /\ SessionsAgree
  /\ HeldIsJournalled /\ ConnectionsEnd /\ LateSession

-----------------------------------------------------------------------------
(* The tasks and their operations.                                          *)

\* The operation a task performs: a request's is the command it carries.
LEMMA KindShape ==
  ASSUME NEW t \in Tasks
  PROVE  /\ t \in Requests => Kind(t) = asked[t].kind
         /\ Kind(t) \in {"attach", "detach", "observe"} => t \in Requests
         /\ t \notin Requests => t \in {"sampler", "cleanup"}
         /\ Kind("sampler") = "sample" /\ Kind("cleanup") = "shutdown"
BY RequestsAssumption DEF Tasks, Kind

\* The invariant holds initially (TransactionIsolatedControl::new).
LEMMA InitInv == Init => IInv
<1>. SUFFICES ASSUME Init PROVE IInv
  OBVIOUS
<1>. USE DEF Init, D!Init, D!NoneHeld, NoSession
<1>1. TypeOK
  <2>1. 0 \in 0 .. MaxGeneration
    BY HandlersAssumption
  <2>2. stuck \in BOOLEAN /\ paused \in BOOLEAN /\ shutdown \in BOOLEAN
    BY Zenon
  <2>3. QED
    BY <2>1, <2>2 DEF TypeOK
<1>2. LockIsHeld /\ Unstarted
  BY RequestsAssumption DEF LockIsHeld, Unstarted, Tasks
<1>3. CallIsLocked /\ SessionsAgree /\ HeldIsJournalled
  BY DEF CallIsLocked, SessionsAgree, HeldIsJournalled
<1>4. ConnectionsEnd /\ LateSession
  BY DEF ConnectionsEnd, LateSession, Tasks
<1>5. QED
  BY <1>1, <1>2, <1>3, <1>4 DEF IInv

-----------------------------------------------------------------------------
(* The server and the sampler.                                              *)

\* Accepting, answering, timing out and ending keep the invariant.
LEMMA ServerInv ==
  ASSUME IInv,
         \/ \E q \in Requests, c \in Commands : Accept(q, c)
         \/ \E q \in Requests : Connection(q)
         \/ ServerStops \/ ServerJoined \/ ServerFails
  PROVE  IInv'
<1>. USE RequestsAssumption
     DEF IInv, TypeOK, LockIsHeld, Unstarted, Attaching, CallIsLocked, SessionsAgree,
         HeldIsJournalled, ConnectionsEnd, LateSession, Tasks, Abandoned,
         driver, session, process
<1>1. ASSUME NEW q \in Requests, NEW c \in Commands, Accept(q, c) PROVE IInv'
  BY <1>1 DEF Accept
<1>2. ASSUME NEW q \in Requests, Reply(q) PROVE IInv'
  BY <1>2 DEF Reply
<1>3. ASSUME NEW q \in Requests, Timeout(q) PROVE IInv'
  BY <1>3 DEF Timeout
<1>4. CASE ServerStops
  BY <1>4 DEF ServerStops
<1>5. CASE ServerJoined
  BY <1>5 DEF ServerJoined, Waiting
<1>6. CASE ServerFails
  BY <1>6 DEF ServerFails
<1>7. QED
  BY <1>1, <1>2, <1>3, <1>4, <1>5, <1>6 DEF Connection

\* The sampler and the coordinator keep the invariant.
LEMMA LoopInv ==
  ASSUME IInv, Tick \/ TickDone \/ SamplerStops \/ FirstExit \/ Joined \/ Exit
  PROVE  IInv'
<1>. USE RequestsAssumption
     DEF IInv, TypeOK, LockIsHeld, Unstarted, Attaching, CallIsLocked, SessionsAgree,
         HeldIsJournalled, ConnectionsEnd, LateSession, Tasks, Abandoned,
         driver, session, process
<1>1. CASE Tick
  BY <1>1 DEF Tick
<1>2. CASE TickDone
  BY <1>2 DEF TickDone
<1>3. CASE SamplerStops
  BY <1>3 DEF SamplerStops
<1>4. CASE FirstExit
  BY <1>4 DEF FirstExit
<1>5. CASE Joined
  BY <1>5 DEF Joined
<1>6. CASE Exit
  BY <1>6 DEF Exit
<1>7. QED
  BY <1>1, <1>2, <1>3, <1>4, <1>5, <1>6

-----------------------------------------------------------------------------
(* The operations under the mutex.                                          *)

\* Taking the mutex, and the attach operation, keep the invariant.
LEMMA AttachInv ==
  ASSUME IInv, NEW t \in Tasks,
         \/ Acquire(t) \/ AttachRefused(t) \/ AttachBegins(t) \/ AttachReturns
         \/ AttachFails(t) \/ SamplingStarts(t) \/ SamplingFails(t)
  PROVE  IInv'
<1>. USE RequestsAssumption, KindShape
     DEF IInv, TypeOK, LockIsHeld, Unstarted, Attaching, CallIsLocked, SessionsAgree,
         HeldIsJournalled, ConnectionsEnd, LateSession, Tasks, Abandoned,
         driver, session, process, Holds, Finish, Continue, NoSession, D!NoneHeld, D!Idle
<1>1. CASE Acquire(t)
  BY <1>1 DEF Acquire
<1>2. CASE AttachRefused(t)
  BY <1>2 DEF AttachRefused
<1>3. CASE AttachBegins(t)
  BY <1>3, HandlersAssumption DEF AttachBegins, D!BeginAttach, Commands, NoCommand
<1>4. CASE AttachReturns
  BY <1>4 DEF AttachReturns, D!AttachOk
<1>5. CASE AttachFails(t)
  <2>. USE <1>5 DEF AttachFails, D!AttachErr
  <2>1. TypeOK'
    <3>1. 0 \in 0 .. MaxGeneration
      BY HandlersAssumption
    <3>2. paused' \in BOOLEAN /\ stuck' \in BOOLEAN /\ shutdown' \in BOOLEAN
      BY Zenon
    <3>3. task' \in [Tasks -> {"none", "queued", "running", "ok", "failed"}]
      OBVIOUS
    <3>4. QED
      BY <3>1, <3>2, <3>3
  <2>2. LockIsHeld' /\ Unstarted'
    OBVIOUS
  <2>3. CallIsLocked'
    OBVIOUS
  <2>4. SessionsAgree'
    OBVIOUS
  <2>5. HeldIsJournalled'
    OBVIOUS
  <2>6. ConnectionsEnd'
    OBVIOUS
  <2>7. LateSession'
    OBVIOUS
  <2>8. QED
    BY <2>1, <2>2, <2>3, <2>4, <2>5, <2>6, <2>7
<1>6. CASE SamplingStarts(t)
  <2>. USE <1>6 DEF SamplingStarts
  <2>1. TypeOK'
    <3>1. 0 \in 0 .. MaxGeneration
      BY HandlersAssumption
    <3>2. paused' \in BOOLEAN /\ stuck' \in BOOLEAN /\ shutdown' \in BOOLEAN
      BY Zenon
    <3>3. task' \in [Tasks -> {"none", "queued", "running", "ok", "failed"}]
      OBVIOUS
    <3>4. QED
      BY <3>1, <3>2, <3>3
  <2>2. LockIsHeld' /\ Unstarted'
    OBVIOUS
  <2>3. CallIsLocked'
    OBVIOUS
  <2>4. SessionsAgree'
    OBVIOUS
  <2>5. HeldIsJournalled'
    OBVIOUS
  <2>6. ConnectionsEnd'
    OBVIOUS
  <2>7. LateSession'
    OBVIOUS
  <2>8. QED
    BY <2>1, <2>2, <2>3, <2>4, <2>5, <2>6, <2>7
<1>7. CASE SamplingFails(t)
  BY <1>7 DEF SamplingFails, D!Forget
<1>8. QED
  BY <1>1, <1>2, <1>3, <1>4, <1>5, <1>6, <1>7

\* The driver's journal writes, detach, shutdown, sampling and observation keep
\* the invariant.
LEMMA DetachInv ==
  ASSUME IInv, NEW t \in Tasks,
         \/ DriverWrites \/ ShutdownIdle(t) \/ DetachBlocked(t) \/ DetachBegins(t)
         \/ DetachReturns(t) \/ DetachFails(t) \/ Sample(t) \/ Observe(t)
  PROVE  IInv'
<1>. USE RequestsAssumption, KindShape
     DEF IInv, TypeOK, LockIsHeld, Unstarted, Attaching, CallIsLocked, SessionsAgree,
         HeldIsJournalled, ConnectionsEnd, LateSession, Tasks, Abandoned,
         driver, session, process, Holds, Finish, Continue, NoSession, D!NoneHeld, D!Idle
<1>1. CASE DriverWrites
  <2>. USE <1>1 DEF DriverWrites, D!Record, D!Erase
  <2>1. TypeOK'
    <3>1. 0 \in 0 .. MaxGeneration
      BY HandlersAssumption
    <3>2. paused' \in BOOLEAN /\ stuck' \in BOOLEAN /\ shutdown' \in BOOLEAN
      BY Zenon
    <3>3. journal' \in [RunIds -> 0 .. MaxGeneration]
      <4>1. CASE D!Record
        BY <4>1
      <4>2. CASE D!Erase
        BY <4>2, <3>1
      <4>3. QED
        BY <4>1, <4>2
    <3>4. QED
      BY <3>1, <3>2, <3>3
  <2>2. LockIsHeld' /\ Unstarted'
    OBVIOUS
  <2>3. CallIsLocked'
    OBVIOUS
  <2>4. SessionsAgree'
    OBVIOUS
  <2>5. HeldIsJournalled'
    OBVIOUS
  <2>6. ConnectionsEnd'
    OBVIOUS
  <2>7. LateSession'
    OBVIOUS
  <2>8. QED
    BY <2>1, <2>2, <2>3, <2>4, <2>5, <2>6, <2>7
<1>2. CASE ShutdownIdle(t)
  BY <1>2 DEF ShutdownIdle
<1>3. CASE DetachBlocked(t)
  BY <1>3 DEF DetachBlocked
<1>4. CASE DetachBegins(t)
  BY <1>4 DEF DetachBegins, JournalMatches, D!BeginDetach
<1>5. CASE DetachReturns(t)
  <2>. USE <1>5 DEF DetachReturns, D!DetachOk
  <2>1. TypeOK'
    <3>1. 0 \in 0 .. MaxGeneration
      BY HandlersAssumption
    <3>2. paused' \in BOOLEAN /\ stuck' \in BOOLEAN /\ shutdown' \in BOOLEAN
      BY Zenon
    <3>3. task' \in [Tasks -> {"none", "queued", "running", "ok", "failed"}]
      OBVIOUS
    <3>4. QED
      BY <3>1, <3>2, <3>3
  <2>2. LockIsHeld' /\ Unstarted'
    OBVIOUS
  <2>3. CallIsLocked'
    OBVIOUS
  <2>4. SessionsAgree'
    OBVIOUS
  <2>5. HeldIsJournalled'
    OBVIOUS
  <2>6. ConnectionsEnd'
    OBVIOUS
  <2>7. LateSession'
    OBVIOUS
  <2>8. QED
    BY <2>1, <2>2, <2>3, <2>4, <2>5, <2>6, <2>7
<1>6. CASE DetachFails(t)
  <2>. USE <1>6 DEF DetachFails, D!DetachErr
  <2>1. TypeOK'
    <3>1. 0 \in 0 .. MaxGeneration
      BY HandlersAssumption
    <3>2. paused' \in BOOLEAN /\ stuck' \in BOOLEAN /\ shutdown' \in BOOLEAN
      BY Zenon
    <3>3. task' \in [Tasks -> {"none", "queued", "running", "ok", "failed"}]
      OBVIOUS
    <3>4. QED
      BY <3>1, <3>2, <3>3
  <2>2. LockIsHeld' /\ Unstarted'
    OBVIOUS
  <2>3. CallIsLocked'
    OBVIOUS
  <2>4. SessionsAgree'
    OBVIOUS
  <2>5. HeldIsJournalled'
    OBVIOUS
  <2>6. ConnectionsEnd'
    OBVIOUS
  <2>7. LateSession'
    OBVIOUS
  <2>8. QED
    BY <2>1, <2>2, <2>3, <2>4, <2>5, <2>6, <2>7
<1>7. CASE Sample(t)
  BY <1>7 DEF Sample
<1>8. CASE Observe(t)
  BY <1>8 DEF Observe
<1>9. QED
  BY <1>1, <1>2, <1>3, <1>4, <1>5, <1>6, <1>7, <1>8

-----------------------------------------------------------------------------
(* The theorems.                                                            *)

\* Every step keeps the invariant.
LEMMA NextInv ==
  ASSUME IInv, [Next]_vars
  PROVE  IInv'
<1>1. CASE Next
  BY <1>1, ServerInv, LoopInv, AttachInv, DetachInv
     DEF Next, Operation, DriverReturns, Orderly, Tasks
<1>2. CASE UNCHANGED vars
  BY <1>2
     DEF vars, driver, session, process, IInv, TypeOK, LockIsHeld, Unstarted, Attaching,
         CallIsLocked, SessionsAgree, HeldIsJournalled, ConnectionsEnd, LateSession, Abandoned
<1>3. QED
  BY <1>1, <1>2

\* The invariant holds in every reachable state.
LEMMA Invariance == Spec => []IInv
<1>1. Init => IInv
  BY InitInv
<1>2. IInv /\ [Next]_vars => IInv'
  BY NextInv
<1>3. QED
  BY <1>1, <1>2, PTL DEF Spec

\* The control plane's state keeps its type: the generation stays within its
\* bound and every task, connection and loop in one of its states (daemon.rs).
THEOREM TypeCorrect == Spec => []TypeOK
<1>1. IInv => TypeOK
  BY DEF IInv
<1>2. QED
  BY <1>1, Invariance, PTL

\* Between operations the daemon's session is the driver's, through every error
\* path of attach and detach (daemon.rs TransactionIsolatedControl).
THEOREM ControlAgrees == Spec => []ControlMatchesDriver
<1>1. IInv => ControlMatchesDriver
  BY RequestsAssumption DEF IInv, SessionsAgree, Attaching, ControlMatchesDriver
<1>2. QED
  BY <1>1, Invariance, PTL

\* A session no detach was tried on has the journal that canonical_ownership
\* requires (daemon.rs).
THEOREM ActiveJournalled == Spec => []ActiveIsJournalled
<1>1. IInv => ActiveIsJournalled
  BY DEF IInv, SessionsAgree, HeldIsJournalled, ActiveIsJournalled, JournalMatches
<1>2. QED
  BY <1>1, Invariance, PTL

\* A daemon that ends with success leaves a session only through an attach whose
\* client had been given up on (daemon.rs coordinate_daemon).
THEOREM ExitClean == Spec => []SuccessfulExitIsClean
<1>1. IInv => SuccessfulExitIsClean
  BY DEF IInv, LateSession, LockIsHeld, Attaching, Tasks, Terminated, SuccessfulExitIsClean
<1>2. QED
  BY <1>1, Invariance, PTL

=============================================================================
