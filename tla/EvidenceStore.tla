----------------------------- MODULE EvidenceStore -----------------------------
(***************************************************************************)
(* Incident output: the bounded queue, the one worker that persists a      *)
(* revision and then alerts (agent incident_output.rs), and the evidence   *)
(* store with its in-memory index, its retention and its recovery (agent   *)
(* evidence_store.rs), through I/O errors, process crashes and power loss. *)
(*                                                                         *)
(* The submitted jobs are those IncidentRecorder emits: contiguous         *)
(* revisions, a closing one last, one active incident.  A revision is one  *)
(* unit of space.  The store mutex is held for a whole persist, so queries *)
(* see the index only between jobs.                                        *)
(***************************************************************************)
EXTENDS Naturals, Sequences, FiniteSets, FiniteSetsExt

CONSTANTS
  Events,         \* event identifiers, ordered as the store orders them
  MaxRevisions,   \* EVIDENCE_MAX_REVISIONS_PER_EVENT
  MaxEvents,      \* EVIDENCE_MAX_EVENTS
  MaxStore,       \* EVIDENCE_MAX_STORE_BYTES
  MaxAge,         \* EVIDENCE_MAX_CLOSED_AGE_MS
  QueueCapacity,  \* INCIDENT_OUTPUT_QUEUE_CAPACITY
  Times,          \* wall-clock times
  FreeSpace,      \* space above the reserve the filesystem may report
  MaxFaults,      \* bound: operations that fail
  MaxCrashes      \* bound: crashes and power losses

ASSUME StoreAssumption ==
  /\ Events \subseteq Nat \ {0} /\ IsFiniteSet(Events)
  /\ MaxRevisions \in Nat \ {0} /\ MaxEvents \in Nat \ {0} /\ MaxStore \in Nat
  /\ MaxAge \in Nat /\ QueueCapacity \in Nat \ {0} /\ Times \subseteq Nat
  /\ FreeSpace \subseteq Nat /\ MaxFaults \in Nat /\ MaxCrashes \in Nat

Revisions == 1 .. MaxRevisions
Jobs == [event: Events, revision: Revisions]
NoJob == [event |-> 0, revision |-> 0]

VARIABLES
  disk,      \* each event directory as the running system sees it
  media,     \* each event directory as it survives a power loss
  store,     \* "open", or "failed": LinuxEvidenceStore::open failed
  index,     \* LinuxEvidenceStore::index; latest 0 is no entry
  total,     \* EvidenceStoreHealth::total_bytes
  count,     \* EvidenceStoreHealth::event_count
  queue,     \* the worker's channel
  phase,     \* "up", "stopping", "aborted" or "down"
  pc, job,   \* the worker: its next step and its job
  pass,      \* locals of enforce_retention
  degraded,  \* OutputHealth::state
  incident,  \* the recorder: the active event and its latest revision
  final,     \* of each event, its closing revision or 0, and its close time
  faults, crashes,
  issued,    \* event identifiers drawn so far
  sent,      \* history: unsettled jobs, while the output health is good
  stored,    \* history: jobs whose alert said "Stored"
  retired    \* history: events whose removal has begun

onDisk  == <<disk, media>>
indexed == <<store, index, total, count>>
source  == <<incident, final, issued, sent>>
worker  == <<pc, job, pass>>
vars == <<onDisk, indexed, queue, phase, worker, degraded, source, faults, crashes, stored, retired>>

NoDir == [dir |-> FALSE, revs |-> {}, tmp |-> FALSE]
NoEntry == [latest |-> 0, bytes |-> 0]
NoPass == [now |-> 0, free |-> 0, reclaimed |-> 0, deleted |-> 0, victim |-> 0]

Steps == {"idle", "retain", "remove", "sync_root", "put", "mkdir", "sync_dir",
          "create", "rename", "sync_event", "stored", "unavailable"}

TypeOK ==
  /\ disk \in [Events -> [dir: BOOLEAN, revs: SUBSET Revisions, tmp: BOOLEAN]]
  /\ media \in [Events -> [dir: BOOLEAN, revs: SUBSET Revisions, tmp: BOOLEAN]]
  /\ store \in {"open", "failed"}
  /\ index \in [Events -> [latest: 0 .. MaxRevisions, bytes: 0 .. MaxRevisions]]
  /\ total \in Nat /\ count \in Nat
  /\ queue \in Seq(Jobs) /\ Len(queue) <= QueueCapacity
  /\ phase \in {"up", "stopping", "aborted", "down"}
  /\ pc \in Steps /\ job \in Jobs \cup {NoJob}
  /\ pass \in [now: Times \cup {0}, free: FreeSpace \cup {0}, reclaimed: Nat, deleted: Nat,
               victim: Events \cup {0}]
  /\ degraded \in BOOLEAN
  /\ incident \in [event: Events \cup {0}, revision: 0 .. MaxRevisions]
  /\ final \in [Events -> [revision: 0 .. MaxRevisions, at: Times \cup {0}]]
  /\ faults \in 0 .. MaxFaults /\ crashes \in 0 .. MaxCrashes
  /\ issued \subseteq Events /\ sent \subseteq Jobs
  /\ stored \subseteq Jobs
  /\ retired \subseteq Events

Init ==
  /\ disk = [e \in Events |-> NoDir] /\ media = disk
  /\ store = "open" /\ index = [e \in Events |-> NoEntry] /\ total = 0 /\ count = 0
  /\ queue = <<>> /\ phase = "up"
  /\ pc = "idle" /\ job = NoJob /\ pass = NoPass
  /\ degraded = FALSE
  /\ incident = NoJob /\ final = [e \in Events |-> [revision |-> 0, at |-> 0]]
  /\ faults = 0 /\ crashes = 0 /\ issued = {} /\ sent = {} /\ stored = {} /\ retired = {}

-----------------------------------------------------------------------------
(* The index.                                                               *)

Entries == {e \in Events : index[e].latest > 0}
Closed(e) == index[e].latest > 0 /\ index[e].latest = final[e].revision

\* Older, as enforce_retention sorts its candidates.
Older(d, e) ==
  final[d].at < final[e].at \/ (final[d].at = final[e].at /\ d < e)

\* Mutant: the candidates are taken from the other end.
IsNewest(e) == Closed(e) /\ \A d \in Events \ {e} : Closed(d) => Older(d, e)

IsOldest(e) == Closed(e) /\ \A d \in Events \ {e} : Closed(d) => Older(e, d)

Bytes == MapThenSumSet(LAMBDA e : index[e].bytes, Entries)

Monus(a, b) == IF a > b THEN a - b ELSE 0

-----------------------------------------------------------------------------
(* The control thread: try_submit, for each job of the recorder.            *)

\* Mutant: a full queue drops the job and nobody is told.
SubmitSilently(e, closing, at) ==
  LET next == [event |-> e, revision |-> IF e = incident.event THEN incident.revision + 1 ELSE 1]
  IN /\ phase = "up"
     /\ \/ e = incident.event /\ incident.revision < MaxRevisions
        \/ incident = NoJob /\ e \notin issued /\ ~closing
     /\ issued' = issued \cup {e}
     /\ incident' = IF closing THEN NoJob ELSE next
     /\ final' = IF closing THEN [final EXCEPT ![e] = [revision |-> next.revision, at |-> at]]
                 ELSE final
     /\ queue' = IF Len(queue) = QueueCapacity THEN queue ELSE Append(queue, next)
     /\ sent' = IF degraded THEN {} ELSE sent \cup {next}
     /\ UNCHANGED <<onDisk, indexed, phase, worker, degraded, faults, crashes, stored, retired>>

Submit(e, closing, at) ==
  LET next == [event |-> e, revision |-> IF e = incident.event THEN incident.revision + 1 ELSE 1]
      full == Len(queue) = QueueCapacity
  IN /\ phase = "up"
     /\ \/ e = incident.event /\ incident.revision < MaxRevisions
        \/ incident = NoJob /\ e \notin issued /\ ~closing
     /\ issued' = issued \cup {e}
     /\ incident' = IF closing THEN NoJob ELSE next
     /\ final' = IF closing THEN [final EXCEPT ![e] = [revision |-> next.revision, at |-> at]]
                 ELSE final
     /\ queue' = IF full THEN queue ELSE Append(queue, next)
     /\ degraded' = (degraded \/ full)
     /\ sent' = IF degraded' THEN {} ELSE sent \cup {next}
     /\ UNCHANGED <<onDisk, indexed, phase, worker, faults, crashes, stored, retired>>

-----------------------------------------------------------------------------
(* The worker: process_job.                                                 *)

Working == phase # "down"
NoFault == UNCHANGED faults
Fault == faults < MaxFaults /\ faults' = faults + 1

Unavailable == pc' = "unavailable" /\ pass' = NoPass

\* Mutant: a stopping worker does not drain its queue.
TakeWhileUp(now, free) ==
  /\ phase = "up" /\ pc = "idle" /\ queue # <<>>
  /\ job' = Head(queue) /\ queue' = Tail(queue)
  /\ \/ /\ NoFault /\ store = "open"
        /\ pc' = "retain" /\ pass' = [NoPass EXCEPT !.now = now, !.free = free]
     \/ NoFault /\ store = "failed" /\ Unavailable
     \/ Fault /\ Unavailable
  /\ UNCHANGED <<onDisk, indexed, phase, degraded, source, crashes, stored, retired>>

\* enforce_retention begins with the root, the clock and the filesystem's capacity.
Take(now, free) ==
  /\ Working /\ pc = "idle" /\ queue # <<>>
  /\ job' = Head(queue) /\ queue' = Tail(queue)
  /\ \/ /\ NoFault /\ store = "open"
        /\ pc' = "retain" /\ pass' = [NoPass EXCEPT !.now = now, !.free = free]
     \/ NoFault /\ store = "failed" /\ Unavailable
     \/ Fault /\ Unavailable
  /\ UNCHANGED <<onDisk, indexed, phase, degraded, source, crashes, stored, retired>>

\* The three limits, for one more revision once `reclaimed` is given back.
Fits(used, events) ==
  /\ used + 1 <= MaxStore
  /\ pass.free + pass.reclaimed >= 1
  /\ events < MaxEvents

Expired(e) == pass.now >= final[e].at /\ pass.now - final[e].at > MaxAge

MustRemove(e) ==
  /\ IsOldest(e)
  /\ Expired(e) \/ ~Fits(Monus(total, pass.reclaimed), Monus(count, pass.deleted))

\* enforce_retention, one candidate: its directory must still be there.
RetainRemove(e) ==
  /\ Working /\ pc = "retain" /\ MustRemove(e)
  /\ IF disk[e].dir
       THEN /\ pc' = "remove" /\ pass' = [pass EXCEPT !.victim = e]
            /\ retired' = retired \cup {e}
       ELSE Unavailable /\ UNCHANGED retired
  /\ UNCHANGED <<onDisk, indexed, queue, phase, job, degraded, source, faults, crashes, stored>>

\* remove_event_directory is remove_dir_all: one revision after the other, in no
\* particular order, then the directory.
RemoveRevision(r) ==
  /\ Working /\ pc = "remove" /\ r \in disk[pass.victim].revs
  /\ \/ NoFault /\ disk' = [disk EXCEPT ![pass.victim].revs = @ \ {r}] /\ UNCHANGED <<pc, pass>>
     \/ Fault /\ Unavailable /\ UNCHANGED disk
  /\ UNCHANGED <<media, indexed, queue, phase, job, degraded, source, crashes, stored, retired>>

RemoveDirectory ==
  /\ Working /\ pc = "remove" /\ disk[pass.victim].revs = {}
  /\ \/ NoFault /\ disk' = [disk EXCEPT ![pass.victim] = NoDir]
        /\ pc' = "sync_root" /\ UNCHANGED pass
     \/ Fault /\ Unavailable /\ UNCHANGED disk
  /\ UNCHANGED <<media, indexed, queue, phase, job, degraded, source, crashes, stored, retired>>

\* The root's entries reach the media; the contents of a new directory do not.
RootSynced ==
  media' = [e \in Events |-> IF ~disk[e].dir THEN NoDir ELSE [media[e] EXCEPT !.dir = TRUE]]

\* Mutant: the bytes are given back here and again at the end of the pass.
SyncRemovalTwice ==
  /\ Working /\ pc = "sync_root"
  /\ \/ /\ NoFault /\ RootSynced
        /\ index' = [index EXCEPT ![pass.victim] = NoEntry]
        /\ total' = Monus(total, index[pass.victim].bytes)
        /\ pass' = [pass EXCEPT !.reclaimed = @ + index[pass.victim].bytes,
                                !.deleted = @ + 1, !.victim = 0]
        /\ pc' = "retain"
     \/ Fault /\ Unavailable /\ UNCHANGED <<media, index, total>>
  /\ UNCHANGED <<disk, store, count, queue, phase, job, degraded, source, crashes, stored, retired>>

SyncRemoval ==
  /\ Working /\ pc = "sync_root"
  /\ \/ /\ NoFault /\ RootSynced
        /\ index' = [index EXCEPT ![pass.victim] = NoEntry]
        /\ pass' = [pass EXCEPT !.reclaimed = @ + index[pass.victim].bytes,
                                !.deleted = @ + 1, !.victim = 0]
        /\ pc' = "retain"
     \/ Fault /\ Unavailable /\ UNCHANGED <<media, index>>
  /\ UNCHANGED <<disk, store, total, count, queue, phase, job, degraded, source, crashes, stored,
                 retired>>

\* enforce_retention, after its loop: the totals, and the limits once more.
Settle ==
  /\ Working /\ pc = "retain" /\ ~\E e \in Events : MustRemove(e)
  /\ total' = Monus(total, pass.reclaimed)
  /\ count' = Cardinality(Entries)
  /\ pc' = IF Fits(total', count') THEN "put" ELSE "unavailable"
  /\ pass' = NoPass
  /\ UNCHANGED <<onDisk, store, index, queue, phase, job, degraded, source, faults, crashes,
                 stored, retired>>

\* Mutant: a later revision is accepted too.
AcceptsLater ==
  /\ job.revision >= index[job.event].latest + 1
  /\ total + 1 <= MaxStore
  /\ index[job.event].latest = 0 => Cardinality(Entries) < MaxEvents

\* put, up to its first write.
Accepts ==
  /\ job.revision = index[job.event].latest + 1
  /\ total + 1 <= MaxStore
  /\ index[job.event].latest = 0 => Cardinality(Entries) < MaxEvents

Put ==
  /\ Working /\ pc = "put"
  /\ \/ NoFault /\ Accepts /\ pc' = (IF disk[job.event].dir THEN "create" ELSE "mkdir")
     \/ NoFault /\ ~Accepts /\ pc' = "unavailable"
     \/ Fault /\ pc' = "unavailable"
  /\ UNCHANGED <<onDisk, indexed, queue, phase, job, pass, degraded, source, crashes, stored,
                 retired>>

\* Mutant: the root is not synced after the directory is made.
MakeDirectoryUnsynced ==
  /\ Working /\ pc = "mkdir"
  /\ \/ NoFault /\ disk' = [disk EXCEPT ![job.event].dir = TRUE] /\ pc' = "create"
     \/ Fault /\ pc' = "unavailable" /\ UNCHANGED disk
  /\ UNCHANGED <<media, indexed, queue, phase, job, pass, degraded, source, crashes, stored, retired>>

\* ensure_event_directory.
MakeDirectory ==
  /\ Working /\ pc = "mkdir"
  /\ \/ NoFault /\ disk' = [disk EXCEPT ![job.event].dir = TRUE] /\ pc' = "sync_dir"
     \/ Fault /\ pc' = "unavailable" /\ UNCHANGED disk
  /\ UNCHANGED <<media, indexed, queue, phase, job, pass, degraded, source, crashes, stored, retired>>

SyncDirectory ==
  /\ Working /\ pc = "sync_dir"
  /\ \/ NoFault /\ RootSynced /\ pc' = "create"
     \/ Fault /\ pc' = "unavailable" /\ UNCHANGED media
  /\ UNCHANGED <<disk, indexed, queue, phase, job, pass, degraded, source, crashes, stored, retired>>

\* commit_revision.
CreateTemporary ==
  /\ Working /\ pc = "create"
  /\ \/ /\ NoFault /\ job.revision \notin disk[job.event].revs
        /\ disk' = [disk EXCEPT ![job.event].tmp = TRUE] /\ pc' = "rename"
     \/ NoFault /\ job.revision \in disk[job.event].revs /\ pc' = "unavailable" /\ UNCHANGED disk
     \/ Fault /\ pc' = "unavailable" /\ UNCHANGED disk
  /\ UNCHANGED <<media, indexed, queue, phase, job, pass, degraded, source, crashes, stored, retired>>

\* Mutant: the event directory is removed with the temporary one.
DiscardEvent == disk' = [disk EXCEPT ![job.event] = NoDir]

\* The temporary directory is removed if it can be.
Discard == disk' \in {[disk EXCEPT ![job.event].tmp = b] : b \in BOOLEAN}

\* Both files and the temporary directory are synced before the rename.
RenameNoReplace ==
  /\ Working /\ pc = "rename"
  /\ \/ /\ NoFault
        /\ disk' = [disk EXCEPT ![job.event].tmp = FALSE, ![job.event].revs = @ \cup {job.revision}]
        /\ pc' = "sync_event"
     \/ Fault /\ pc' = "unavailable" /\ Discard
  /\ UNCHANGED <<media, indexed, queue, phase, job, pass, degraded, source, crashes, stored, retired>>

\* The last step of commit_revision, and the rest of put.
SyncEvent ==
  /\ Working /\ pc = "sync_event"
  /\ \/ /\ NoFault
        /\ media' = [media EXCEPT ![job.event] = [disk[job.event] EXCEPT !.dir = media[job.event].dir]]
        /\ index' = [index EXCEPT ![job.event] = [latest |-> job.revision, bytes |-> @.bytes + 1]]
        /\ total' = total + 1
        /\ count' = IF index[job.event].latest = 0 THEN count + 1 ELSE count
        /\ pc' = "stored"
     \/ Fault /\ pc' = "unavailable" /\ UNCHANGED <<media, index, total, count>>
  /\ UNCHANGED <<disk, store, queue, phase, job, pass, degraded, source, crashes, stored, retired>>

\* The alert follows the attempt; after an abort nobody records the health.
Alert ==
  /\ Working /\ pc \in {"stored", "unavailable"}
  /\ stored' = IF pc = "stored" THEN stored \cup {job} ELSE stored
  /\ degraded' = (degraded \/ (pc = "unavailable" /\ phase # "aborted"))
  /\ sent' = IF degraded' THEN {} ELSE IF pc = "stored" THEN sent \ {job} ELSE sent
  /\ pc' = "idle" /\ job' = NoJob
  /\ UNCHANGED <<onDisk, indexed, queue, phase, pass, incident, final, issued, faults, crashes,
                 retired>>

-----------------------------------------------------------------------------
(* The process.                                                             *)

\* IncidentOutputWorker::shutdown: the channel closes and the worker drains it.
BeginStop ==
  /\ phase = "up" /\ phase' = "stopping"
  /\ UNCHANGED <<onDisk, indexed, queue, worker, degraded, source, faults, crashes, stored, retired>>

\* Its timeout drops the queue; a running persist is not interrupted.
TimedOut ==
  /\ phase = "stopping" /\ (queue # <<>> \/ pc # "idle")
  /\ phase' = "aborted" /\ queue' = <<>> /\ degraded' = TRUE /\ sent' = {}
  /\ UNCHANGED <<onDisk, indexed, worker, incident, final, issued, faults, crashes, stored, retired>>

\* What ends with the process.
Ends ==
  /\ phase' = "down" /\ queue' = <<>> /\ degraded' = FALSE
  /\ store' = "failed" /\ index' = [e \in Events |-> NoEntry] /\ total' = 0 /\ count' = 0
  /\ pc' = "idle" /\ job' = NoJob /\ pass' = NoPass
  /\ incident' = NoJob /\ sent' = {}
  /\ UNCHANGED <<final, issued, faults, stored, retired>>

\* Mutant: an aborted worker is not waited for.
ExitDrained ==
  /\ phase = "stopping" /\ queue = <<>> /\ pc = "idle"
  /\ Ends /\ UNCHANGED <<onDisk, crashes>>

Exit ==
  /\ phase \in {"stopping", "aborted"} /\ queue = <<>> /\ pc = "idle"
  /\ Ends /\ UNCHANGED <<onDisk, crashes>>

MayCrash == Working /\ crashes < MaxCrashes /\ crashes' = crashes + 1

Crash == MayCrash /\ Ends /\ UNCHANGED onDisk

\* Whatever was not synced may be as before or as after.
Survives(e) ==
  LET before == media[e]
      after  == disk[e]
  IN {d \in [dir: {before.dir, after.dir},
             revs: {x \in SUBSET (before.revs \cup after.revs) : before.revs \cap after.revs \subseteq x},
             tmp: {before.tmp, after.tmp}] :
        ~d.dir => d = NoDir}

PowerLoss ==
  /\ MayCrash /\ Ends
  /\ disk' \in {d \in [Events -> UNION {Survives(e) : e \in Events}] :
                  \A e \in Events : d[e] \in Survives(e)}
  /\ media' = disk'

\* recover_event: the highest valid revision and the bytes of all of them.
RecoverEvent(e) ==
  IF disk[e].revs = {} THEN NoEntry
  ELSE [latest |-> Max(disk[e].revs), bytes |-> Cardinality(disk[e].revs)]

\* recover: at most MaxEvents directories, in the order of their names.
Recover(e) ==
  IF disk[e].dir /\ Cardinality({d \in Events : d < e /\ disk[d].dir}) < MaxEvents
    THEN RecoverEvent(e) ELSE NoEntry

\* Temporary directories, half-removed revisions and excess directories are
\* counted and left alone; a removal that was interrupted may have left one.
RecoveryIssues ==
  LET dirs == {e \in Events : disk[e].dir}
  IN CASE Cardinality(dirs) > MaxEvents \/ \E e \in dirs : disk[e].tmp -> {TRUE}
       [] OTHER -> IF dirs \cap retired # {} THEN BOOLEAN ELSE {FALSE}

Start ==
  /\ phase = "down" /\ phase' = "up"
  /\ \/ /\ NoFault /\ store' = "open"
        /\ index' = [e \in Events |-> Recover(e)]
        /\ total' = MapThenSumSet(LAMBDA e : Recover(e).bytes, Events)
        /\ count' = Cardinality({e \in Events : Recover(e).latest > 0})
        /\ degraded' \in RecoveryIssues
     \/ Fault /\ degraded' = TRUE /\ UNCHANGED indexed
  /\ UNCHANGED <<onDisk, queue, worker, source, crashes, stored, retired>>

-----------------------------------------------------------------------------

WorkerStep ==
  \/ \E now \in Times, free \in FreeSpace : Take(now, free)
  \/ Alert
  \/ \E e \in Events : RetainRemove(e)
  \/ \E r \in Revisions : RemoveRevision(r)
  \/ RemoveDirectory \/ SyncRemoval \/ Settle
  \/ Put \/ MakeDirectory \/ SyncDirectory
  \/ CreateTemporary \/ RenameNoReplace \/ SyncEvent

Next ==
  \/ \E e \in Events, closing \in BOOLEAN, at \in Times : Submit(e, closing, at)
  \/ WorkerStep
  \/ BeginStop \/ TimedOut \/ Exit \/ Crash \/ PowerLoss \/ Start

Spec == Init /\ [][Next]_vars

\* The runtime schedules the worker; every file operation returns.
FairSpec == Spec /\ WF_vars(WorkerStep) /\ WF_vars(Exit)

-----------------------------------------------------------------------------
(* Properties.                                                              *)

\* An alert that says "Stored" is about a revision that survives a power loss,
\* from the alert on and until retention removes the closed event: persistence
\* precedes the alert, and every sync precedes the index (evidence_store.rs put,
\* commit_revision; incident_output.rs process_job).
StoredIsDurable ==
  \A j \in Jobs :
    j \in stored =>
      j.event \in retired \/ (media[j.event].dir /\ j.revision \in media[j.event].revs)

\* An indexed event that retention has not touched has every revision up to the
\* indexed one on disk, so a failed, dropped or conflicting revision never leaves
\* a gap below a later one (put's expected revision, commit_revision).
EvidenceIsContiguous ==
  \A e \in Events \ retired :
    index[e].latest > 0 => 1 .. index[e].latest \subseteq disk[e].revs

\* The accounted bytes and events are at least the indexed ones at every step of
\* a persist, also after a retention pass that failed half-way; so the limits
\* hold for the index (enforce_retention, put).
UsageIsNotUnderstated ==
  /\ Bytes <= total
  /\ Cardinality(Entries) <= MaxEvents

Queued(j) == \E i \in DOMAIN queue : queue[i] = j

\* Every job this process was given is still to be persisted, was stored, or has
\* left the output health degraded: a full queue, a failed persist and a timed-out
\* shutdown are all visible (try_submit, process_job, shutdown).
NothingIsLostSilently ==
  ~degraded => \A j \in sent : j = job \/ Queued(j)

\* Retention never starts on an event that is open, nor on a closed one while an
\* older closed one is indexed (enforce_retention's candidates and their order).
RetentionTakesOldestClosed ==
  [][\A e \in retired' \ retired :
       Closed(e) /\ \A d \in Entries : Closed(d) /\ Older(d, e) => d \in retired]_vars

\* Evidence on the media goes only with the removal of its event: no commit, no
\* clean-up of a temporary directory, no recovery and no power loss takes it.
EvidenceIsKept ==
  [][\A e \in Events : media[e].revs \subseteq media'[e].revs \/ e \in retired']_vars

\* Every accepted job is answered by an alert unless the process dies or its
\* shutdown times out first (start_with_health's loop and its drain).
AcceptedIsAlerted ==
  \A j \in Jobs :
    Queued(j)
      ~> (phase \in {"aborted", "down"} \/ (job = j /\ pc \in {"stored", "unavailable"}))

\* Stopping the worker ends (IncidentOutputWorker::shutdown).
StopEnds == phase = "stopping" ~> phase = "down"

\* development.md: "`unavailable` means it was not" committed.
UnavailableIsNotCommitted ==
  pc = "unavailable" => job.revision \notin disk[job.event].revs

\* development.md: "Recovery indexes only complete validated contiguous evidence".
RecoveryIsContiguous ==
  phase = "up" /\ pc = "idle" =>
    \A e \in Entries : 1 .. index[e].latest \subseteq disk[e].revs

=============================================================================
