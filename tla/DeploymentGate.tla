----------------------------- MODULE DeploymentGate -----------------------------
(***************************************************************************)
(* l2-loop-deploycheck, the independent checker (agent deployment.rs with  *)
(* linux/deployment_fs.rs and linux/deployment_platform.rs), on the host   *)
(* that InstallTransaction changes.  `installed` and `inspect` read the    *)
(* journals, the layout, the documents and the link one after the other    *)
(* while an operator's installer, the service and the link go on; nothing  *)
(* locks them out.  `staging` reads a generated tree nothing else writes.  *)
(*                                                                         *)
(* A payload is known by the artifact its transaction installed, a         *)
(* document by the transaction it came with: the installer compares its    *)
(* digest and never looks inside.  A file of another program has other     *)
(* bytes and never passes.  One read of a file with its identity taken     *)
(* before and after is one step.  What the kernel's tables, hooks and      *)
(* limits say is up to the host at each read.                              *)
(***************************************************************************)
EXTENDS InstallTransaction, DeploymentDocuments, PlatformInspection

CONSTANTS
  Artifact,         \* the artifact a transaction installs
  AuthorizationId,  \* the authorization_id in its journal
  AuthorizationOf, EvidenceOf,  \* the two documents it installs
  Expected,         \* expected_artifact, compiled into the checker
  Unchecked,        \* the roles that are not in LAYOUT_ENTRIES
  Exact,            \* the directories whose inventory is exact
  Payloads,         \* CHECKSUM_PAYLOADS: roles in the order of SHA256SUMS
  Stable,           \* the payloads whose bytes every artifact has in common
  Bound,            \* the payloads whose digests the manifest has
  Manifest, Sums, Service, Authorization, Performance,  \* roles of files
  LinkOf,           \* the link each incarnation is; its ifindex is its number
  Host,             \* architecture, kernel release and processors of this host
  HookReadings, HostReadings, RowReadings, Capabilities,  \* what it may read of it
  Units,            \* the service unit of an artifact
  Trees,            \* staged trees
  Times,            \* the times at which a check may start
  MaxLinks,         \* bound: incarnations of the link
  MaxServices,      \* bound: starts of the service
  MaxChecks         \* bound: checks

ASSUME GateAssumption ==
  /\ {Artifact, AuthorizationId} \subseteq [Transactions -> STRING]
  /\ DOMAIN AuthorizationOf = Transactions /\ DOMAIN EvidenceOf = Transactions
  /\ \A l \in 1 .. MaxLinks : LinkOf[l].ifindex = l /\ LinkOf[l].name = LinkOf[1].name
  /\ Unchecked \cup Exact \subseteq 1 .. Directories
  /\ \A i \in DOMAIN Payloads : Payloads[i] \in Role
  /\ Stable \cup Bound \subseteq Range(Payloads)
  /\ {Manifest, Sums, Service, Authorization, Performance} \subseteq Role
  /\ Times \subseteq Nat \ {0} /\ MaxLinks > 0 /\ {MaxServices, MaxChecks} \subseteq Nat

VARIABLES
  check,     \* the running or last check
  runtime,   \* /run/l2-loop exists
  link,      \* the incarnation of the link with the authorized name
  services, checks  \* history: the bounds used up

host  == <<runtime, link, services>>
gvars == <<vars, check, host, checks>>

(* The check: where it is (at, i), the time it started, which of its two       *)
(* inspections of the layout it is in (pass), the journals still to load (ids),*)
(* the transaction that owns the installation, what it has read (the checksums,*)
(* the documents, the link as of its first and its last message, the preflight,*)
(* the consumers), and its result.  History: read, the transactions whose      *)
(* documents it read; seen, the links there were when hooks, consumers and     *)
(* queues were read; whole, the artifacts that were installed in full since    *)
(* the second inspection began.                                                *)
Resting ==
  [command |-> "none", now |-> 0, at |-> "idle", i |-> 0, pass |-> 0, ids |-> {}, owner |-> None,
   sums |-> None, authorization |-> None, evidence |-> None, link |-> 0, before |-> {},
   message |-> 0, preflight |-> {}, consumers |-> {}, ready |-> FALSE, read |-> {}, seen |-> {},
   whole |-> {}, decision |-> "none"]

GateInit ==
  /\ Init /\ check = Resting
  /\ runtime = FALSE /\ link = 1 /\ services = 0 /\ checks = 0

Reading(s) == check.at = s
Reach(s)   == check' = [check EXCEPT !.at = s, !.i = 1]
Proceed    == check' = [check EXCEPT !.i = @ + 1]

(* blocked_report: derive with one gate blocked, and its blocker.  Only the *)
(* decision of the report is kept.                                           *)
BlockedReport(c, slot, code) ==
  [Resting EXCEPT !.decision = DecisionOf(c, Expected, {}, BlockedGates(slot, code), {code}, {})]

Blocked(slot, code) == check' = BlockedReport(check.command, slot, code)

(* The layout inspection is the layout gate, and later the prerequisites. *)
LayoutFails ==
  IF check.pass = 1 THEN Blocked("layout", "DG_LAYOUT_TYPE") ELSE Blocked("evidence", "DG_EVIDENCE_ROOT")

-----------------------------------------------------------------------------
Begin(c, now) ==
  /\ Reading("idle") /\ checks < MaxChecks /\ checks' = checks + 1
  /\ check' = [Resting EXCEPT !.command = c, !.now = now, !.at = "list"]
  /\ UNCHANGED <<vars, host>>

(* staging: the gates in their order, on a tree that stays as it is.  Its    *)
(* evidence is assessed for the host it names itself.                        *)
StagingFailure(tree, now) ==
  LET auth == authorization_failure(tree.authorization, tree.bundle, now)
      perf == performance_failure(tree.evidence, tree.bundle, tree.evidence.host, now)
  IN CASE ~tree.root -> <<"layout", "DG_STAGING_ROOT">>
       [] tree.bundle = "none" -> <<"bundle", "DG_ARTIFACT_INVENTORY">>
       [] tree.layout = "none" -> <<"layout", "DG_LAYOUT_TYPE">>
       [] tree.layout # tree.bundle -> <<"layout", "DG_ARTIFACT_MANIFEST">>
       [] ~UnitIsValid(tree.unit) -> <<"service", "DG_SYSTEMD_CONTRACT">>
       [] auth # "none" -> <<"authorization", auth>>
       [] perf # "none" -> <<"performance", perf>>
       [] ~tree.ready -> <<"evidence", "DG_EVIDENCE_ROOT">>
       [] OTHER -> <<"none", "none">>

StagingReport(tree, now) ==
  LET failure == StagingFailure(tree, now)
  IN IF failure[1] # "none" THEN BlockedReport("staging", failure[1], failure[2])
     ELSE [Resting EXCEPT !.decision = DecisionOf("staging", tree.bundle, {}, StagingPassed, {}, {})]

StagingReports == {StagingReport(tree, now) : tree \in Trees, now \in Times}

Staging ==
  /\ Reading("idle") /\ checks < MaxChecks /\ checks' = checks + 1
  /\ check' \in StagingReports
  /\ UNCHANGED <<vars, host>>

(* inspect_installed_ownership: the published journals are listed and loaded *)
(* one by one.  Those that were rolled back are passed over; the installed   *)
(* one must be the only one, and of the checker's own artifact.              *)
ListJournals ==
  /\ Reading("list")
  /\ check' = [check EXCEPT !.at = "journals", !.ids = Published]
  /\ UNCHANGED <<vars, host, checks>>

LoadJournal(t) ==
  /\ Reading("journals") /\ t \in check.ids
  /\ LET state == IF file[t] = None THEN "none" ELSE file[t].state
         owned == state = "installed" /\ Artifact[t] = Expected /\ check.owner = None
     IN \/ /\ state = "rolled_back"
           /\ check' = [check EXCEPT !.ids = @ \ {t}]
        \/ /\ owned
           /\ check' = [check EXCEPT !.ids = @ \ {t}, !.owner = t, !.at = "entries", !.i = 1]
        \/ state # "rolled_back" /\ ~owned /\ Blocked("layout", "DG_LAYOUT_TYPE")
  /\ UNCHANGED <<vars, host, checks>>

(* Each object of the journal is still the one it recorded. *)
CheckEntry ==
  /\ Reading("entries")
  /\ LET left == {r \in Entries(file[check.owner]) : r >= check.i} IN
     \/ left = {} /\ Reach("journals")
     \/ /\ left # {}
        /\ LET r == Min(left) IN
           \/ disk[r] = check.owner /\ check' = [check EXCEPT !.i = r + 1]
           \/ disk[r] # check.owner /\ Blocked("layout", "DG_LAYOUT_TYPE")
  /\ UNCHANGED <<vars, host, checks>>

EndOwnership ==
  /\ Reading("journals") /\ check.ids = {}
  /\ \/ /\ check.owner # None
        /\ check' = [check EXCEPT !.at = "layout", !.i = 1, !.pass = 1]
     \/ check.owner = None /\ Blocked("layout", "DG_LAYOUT_TYPE")
  /\ UNCHANGED <<vars, host, checks>>

-----------------------------------------------------------------------------
(* inspect_layout: the entries, the runtime directory, the manifest, the     *)
(* inventories, and the payloads against SHA256SUMS.                         *)
LayoutRoles == Role \ Unchecked

InspectEntry ==
  /\ Reading("layout")
  /\ LET left == {r \in LayoutRoles : r >= check.i} IN
     \/ left = {} /\ Reach("runtime")
     \/ /\ left # {}
        /\ LET r == Min(left) IN
           \/ disk[r] # None /\ check' = [check EXCEPT !.i = r + 1]
           \/ disk[r] = None /\ LayoutFails
  /\ UNCHANGED <<vars, host, checks>>

(* validate_installed_runtime: /run/l2-loop exists, and is empty or holds *)
(* the daemon's socket.                                                   *)
InspectRuntime ==
  /\ Reading("runtime")
  /\ IF runtime THEN Reach("manifest") ELSE LayoutFails
  /\ UNCHANGED <<vars, host, checks>>

ArtifactAt(r) == IF disk[r] \in Transactions THEN Artifact[disk[r]] ELSE None

InspectManifest ==
  /\ Reading("manifest")
  /\ IF ArtifactAt(Manifest) = Expected THEN Reach("inventory") ELSE LayoutFails
  /\ UNCHANGED <<vars, host, checks>>

(* Mutant: the backups of an upgrade are not looked for. *)
InventoryIsExactButBackups(d) ==
  \A r \in Role : Parent[r] = d =>
    disk[r] # None /\ \A t \in Transactions : <<t, r>> \notin sibling

(* validate_layout_inventories: a directory of the product holds its entries *)
(* and nothing else, no sibling and no backup of the installer.              *)
InventoryIsExact(d) ==
  \A r \in Role : Parent[r] = d =>
    /\ disk[r] # None
    /\ \A t \in Transactions : <<t, r>> \notin sibling /\ backup[t, r] = None

InspectInventory ==
  /\ Reading("inventory")
  /\ LET left == {d \in Exact : d >= check.i} IN
     \/ left = {} /\ Reach("sums")
     \/ /\ left # {}
        /\ \/ InventoryIsExact(Min(left)) /\ check' = [check EXCEPT !.i = Min(left) + 1]
           \/ ~InventoryIsExact(Min(left)) /\ LayoutFails
  /\ UNCHANGED <<vars, host, checks>>

ReadSums ==
  /\ Reading("sums")
  /\ \/ /\ ArtifactAt(Sums) # None
        /\ check' = [check EXCEPT !.at = "payloads", !.i = 1, !.sums = ArtifactAt(Sums)]
     \/ ArtifactAt(Sums) = None /\ LayoutFails
  /\ UNCHANGED <<vars, host, checks>>

(* The digest of a payload: as it is, and as an artifact has it. *)
DigestIn(a, r) == IF r \in Stable /\ a # None THEN "common" ELSE a
Digest(r) == DigestIn(ArtifactAt(r), r)

(* validate_installed_checksums: each payload against its line of SHA256SUMS, *)
(* two of them also against the manifest; then the gates after the layout, or *)
(* the end.                                                                   *)
PayloadPasses(r) ==
  Digest(r) = DigestIn(check.sums, r) /\ (r \in Bound => Digest(r) = DigestIn(Expected, r))

InspectPayload ==
  /\ Reading("payloads")
  /\ \/ /\ check.i > Len(Payloads)
        /\ Reach(IF check.pass = 1 THEN "service" ELSE "derive")
     \/ check.i <= Len(Payloads) /\ PayloadPasses(Payloads[check.i]) /\ Proceed
     \/ check.i <= Len(Payloads) /\ ~PayloadPasses(Payloads[check.i]) /\ LayoutFails
  /\ UNCHANGED <<vars, host, checks>>

-----------------------------------------------------------------------------
Relies(r) == check.read \cup {disk[r]}

(* inspect_service: the unit is the contract's, and no override of it was found *)
(* before or after it was read.                                                 *)
InspectService ==
  /\ Reading("service")
  /\ \/ /\ ArtifactAt(Service) # None /\ UnitIsValid(Units[ArtifactAt(Service)])
        /\ Reach("authorization")
     \/ Blocked("service", "DG_SYSTEMD_CONTRACT")
  /\ UNCHANGED <<vars, host, checks>>

(* load_installed_authorization, its identifier against the journal's, and *)
(* authorization_failure.                                                  *)
AuthorizationFailure(a) ==
  IF a \notin Transactions THEN "DG_AUTH_SCHEMA"
  ELSE IF AuthorizationOf[a].id # AuthorizationId[check.owner] THEN "DG_AUTH_IDENTITY"
  ELSE authorization_failure(AuthorizationOf[a], Expected, check.now)

LoadAuthorization ==
  /\ Reading("authorization")
  /\ \E code \in {AuthorizationFailure(disk[Authorization])} :
       \/ code # "none" /\ Blocked("authorization", code)
       \/ /\ code = "none"
          /\ check' = [check EXCEPT !.at = "performance", !.authorization = disk[Authorization],
                                    !.read = Relies(Authorization)]
  /\ UNCHANGED <<vars, host, checks>>

(* `installed` assesses the evidence at once for the host it names, `inspect` *)
(* after the platform, for this host.                                         *)
EvidenceFailure ==
  [e \in Transactions, here \in BOOLEAN, now \in Times |->
     performance_failure(EvidenceOf[e], Expected, IF here THEN Host ELSE EvidenceOf[e].host, now)]

LoadPerformance ==
  /\ Reading("performance")
  /\ LET e == disk[Performance]
         failure == IF e \notin Transactions THEN "DG_PERFORMANCE_UNAVAILABLE"
                    ELSE IF check.command = "inspect" THEN "none"
                    ELSE EvidenceFailure[e, FALSE, check.now]
     IN \/ failure # "none" /\ Blocked("performance", failure)
        \/ /\ failure = "none"
           /\ check' = [check EXCEPT !.at = IF check.command = "inspect" THEN "before" ELSE "reinspect",
                                     !.i = 1, !.evidence = e, !.read = Relies(Performance)]
  /\ UNCHANGED <<vars, host, checks>>

-----------------------------------------------------------------------------
(* inspect_authorized_interface: the identity of the link with the authorized *)
(* name, the preflight of the link with that name, the consumers of the first *)
(* one's ifindex, the queues of the name, and the identity again.  A read     *)
(* that fails blocks.                                                         *)
Unavailable == Blocked("platform", "DG_PLATFORM_BLOCKED")

(* The link of a message, with what sysfs says a moment later of the name. *)
Snapshot(message, sysfs) ==
  [LinkOf[message] EXCEPT !.driver = LinkOf[sysfs].driver, !.device = LinkOf[sysfs].device]

(* query_exact_link *)
ReadMessage ==
  /\ check.at \in {"before", "preflight", "after"} /\ check.i = 1
  /\ check' = [check EXCEPT !.i = 2, !.message = link]
  /\ UNCHANGED <<vars, host, checks>>

PlatformBefore ==
  /\ Reading("before") /\ check.i = 2
  /\ LET l == Snapshot(check.message, link)
         a == AuthorizationOf[check.authorization]
     IN \/ l.ifindex = a.ifindex /\ l.device = a.device
           /\ check' = [check EXCEPT !.at = "preflight", !.i = 1, !.link = l.ifindex, !.before = {l}]
        \/ ~(l.ifindex = a.ifindex /\ l.device = a.device) /\ Unavailable
  /\ UNCHANGED <<vars, host, checks>>

(* The preflight of this gate reads that one link: no master, no slaves. *)
PreflightLink ==
  /\ Reading("preflight") /\ check.i = 2
  /\ LET l == Snapshot(check.message, link) IN
     check' = [check EXCEPT !.at = "hooks", !.preflight = {InspectInterface(l.name, {l}, {}, {})}]
  /\ UNCHANGED <<vars, host, checks>>

(* Its files and the hooks of the targets' indices, then the comparison with *)
(* the link of before.                                                       *)
PreflightHooks(x, h) ==
  /\ Reading("hooks")
  /\ \E i \in check.preflight, l \in check.before :
       LET result == PreflightReport(i, h, [n \in {link} |-> x]) IN
       \/ PreflightMatches(i, l)
          /\ check' = [check EXCEPT !.at = "consumers", !.preflight = {result}, !.seen = @ \cup {link}]
       \/ ~PreflightMatches(i, l) /\ Unavailable
  /\ UNCHANGED <<vars, host, checks>>

InspectConsumers(tables) ==
  /\ Reading("consumers")
  /\ check' = [check EXCEPT !.at = "queues", !.seen = @ \cup {link},
                            !.consumers = Consumers(tables \X {link}, check.link)]
  /\ UNCHANGED <<vars, host, checks>>

InspectQueues ==
  /\ Reading("queues")
  /\ \/ LinkOf[link].queues > MaxQueues /\ Unavailable
     \/ /\ LinkOf[link].queues <= MaxQueues
        /\ check' = [check EXCEPT !.at = "after", !.i = 1, !.seen = @ \cup {link},
                                  !.ready = QueuesAreReady(LinkOf[link])]
  /\ UNCHANGED <<vars, host, checks>>

(* The second identity, platform_failure, and the evidence for this host. *)
PlatformFailure(l, capabilities) ==
  LET platform == [link |-> l, preflight |-> CHOOSE r \in check.preflight : TRUE,
                   consumers |-> check.consumers, capabilities |-> capabilities, ready |-> check.ready]
  IN platform_failure(platform, AuthorizationOf[check.authorization])

PlatformAfter(capabilities) ==
  /\ Reading("after") /\ check.i = 2
  /\ \E l \in {Snapshot(check.message, link)} :
       \/ check.before # {l} /\ Unavailable
       \/ /\ check.before = {l}
          /\ LET platform == PlatformFailure(l, capabilities)
                 evidence == EvidenceFailure[check.evidence, TRUE, check.now]
             IN \/ platform # "none" /\ Blocked("platform", platform)
                \/ platform = "none" /\ evidence # "none" /\ Blocked("performance", evidence)
                \/ /\ platform = "none" /\ evidence = "none"
                   /\ check' = [check EXCEPT !.at = "reinspect", !.message = 0,
                                             !.preflight = {}, !.consumers = {}, !.ready = FALSE]
  /\ UNCHANGED <<vars, host, checks>>

-----------------------------------------------------------------------------
(* The artifacts that are installed in full: every entry is there, and every *)
(* payload is the artifact's.                                                *)
Whole ==
  {a \in Range(Artifact) : /\ \A r \in LayoutRoles : disk[r] # None
                           /\ \A r \in Range(Payloads) : Digest(r) = DigestIn(a, r)}

(* Mutant: the layout that was inspected at the start counts. *)
StartPrerequisitesCached ==
  /\ Reading("reinspect")
  /\ check' = [check EXCEPT !.at = "derive", !.pass = 2, !.whole = Whole]
  /\ UNCHANGED <<vars, host, checks>>

(* inspect_installed_prerequisites: inspect_layout once more. *)
StartPrerequisites ==
  /\ Reading("reinspect")
  /\ check' = [check EXCEPT !.at = "layout", !.i = 1, !.pass = 2, !.whole = Whole]
  /\ UNCHANGED <<vars, host, checks>>

(* derive, when no gate has blocked. *)
Derive ==
  /\ Reading("derive")
  /\ LET interface == UNION {InterfaceSummary([ifindex |-> l.ifindex, kind |-> KindOf(l),
                                               admin |-> l.admin, oper |-> l.oper]) : l \in check.before}
         decision ==
           IF check.command = "inspect"
           THEN DecisionOf("inspect", Expected, interface, InspectPassed, {},
                           CanaryPlan(AuthorizationOf[check.authorization], interface))
           ELSE DecisionOf("installed", Expected, {}, StagingPassed, {}, {})
     IN check' = [check EXCEPT !.at = "idle", !.decision = decision]
  /\ UNCHANGED <<vars, host, checks>>

CheckStep ==
  \/ ListJournals \/ CheckEntry \/ EndOwnership
  \/ \E t \in Transactions : LoadJournal(t)
  \/ InspectEntry \/ InspectRuntime \/ InspectManifest \/ InspectInventory
  \/ ReadSums \/ InspectPayload
  \/ InspectService \/ LoadAuthorization \/ LoadPerformance
  \/ ReadMessage \/ PlatformBefore \/ PreflightLink
  \/ \E x \in HookReadings, h \in HostReadings : PreflightHooks(x, h)
  \/ \E tables \in RowReadings : InspectConsumers(tables)
  \/ InspectQueues
  \/ \E c \in Capabilities : PlatformAfter(c)
  \/ StartPrerequisites \/ Derive

-----------------------------------------------------------------------------
(* systemd makes /run/l2-loop when the service starts and removes it when it *)
(* ends (RuntimeDirectory of the unit).  The socket the daemon binds in it   *)
(* passes validate_installed_runtime like an empty directory.                *)
StartService ==
  /\ ~runtime /\ services < MaxServices
  /\ runtime' = TRUE /\ services' = services + 1
  /\ UNCHANGED <<vars, check, link, checks>>

StopService ==
  /\ runtime /\ runtime' = FALSE
  /\ UNCHANGED <<vars, check, link, services, checks>>

(* The device is removed and found again: another ifindex, the same name. *)
ReplaceLink ==
  /\ link < MaxLinks /\ link' = link + 1
  /\ UNCHANGED <<vars, check, runtime, services, checks>>

Installer ==
  /\ Next
  /\ check' = [check EXCEPT !.whole = IF check.pass = 2 THEN @ \cup Whole' ELSE @]
  /\ UNCHANGED <<host, checks>>

GateNext ==
  \/ \E c \in {"installed", "inspect"}, now \in Times : Begin(c, now)
  \/ Staging
  \/ CheckStep
  \/ StartService \/ StopService \/ ReplaceLink
  \/ Installer

GateSpec == GateInit /\ [][GateNext]_gvars

-----------------------------------------------------------------------------
Verified == check.decision \in {"installed_verified", "physical_canary_ready"}

(* PROPERTY.  A positive report of `installed` or `inspect` is about a whole  *)
(* installation, whatever the installer did meanwhile: after the last gate    *)
(* began there was a moment when every entry of the layout was in place and   *)
(* every payload was of one artifact, the one whose checksums were read,      *)
(* although the check reads them one by one.  That artifact is the checker's, *)
(* or one with the same unit that an upgrade puts in place after the manifest *)
(* was read.                                                                  *)
VerifiedIsWhole ==
  Verified => check.sums \in check.whole /\ (Stable = {} => check.sums = Expected)

(* The documents the check has read came with the transaction whose journal *)
(* it started from.  Only an upgrade that came and was undone again during  *)
(* the check can have shown it others: the backups of one that stays are    *)
(* found in the inventories.                                                *)
FromOneInstallation ==
  \A t \in check.read : t = check.owner \/ file[t].state \in {"rolling_back", "rolled_back"}

(* PROPERTY.  The parts of a positive report belong together, although they   *)
(* were read one after the other: the authorization and the evidence are of   *)
(* the installation whose journal it started from; `inspect` saw the hooks,   *)
(* the consumers and the queues of the link the authorization names, and of   *)
(* no other that took its name; and the service had been started, because the *)
(* layout includes /run/l2-loop, which no installation makes.                 *)
VerifiedIsOneHost ==
  Verified => /\ FromOneInstallation
              /\ check.command = "inspect" => check.seen = {AuthorizationOf[check.authorization].ifindex}
              /\ services > 0
===============================================================================
