--------------------------- MODULE DeploymentDocuments ---------------------------
(***************************************************************************)
(* The documents that l2-loop-deploycheck judges (core deployment.rs, the  *)
(* judgements of agent deployment.rs, linux/deployment_unit.rs): the       *)
(* authorization, the performance evidence, the service unit, and the      *)
(* report derived from them.  Pure: no state.                              *)
(*                                                                         *)
(* An authorization is a record [formed, id, commit, issued, expires,      *)
(* ifindex, device, kind, master, clsact, filters]; formed says that schema*)
(* and the texts (identifiers, digests, names) have their form.            *)
(* A trial is [number, mode, fixed, duration, packets, bytes, cpu, rss,    *)
(* drops, errors]; evidence is [formed, commit, host, issued, expires,     *)
(* trials, claims, complete, clean, result], where claims are the figures  *)
(* it states about its trials, complete joins the four conditions of the   *)
(* measurement and clean the counts and flags taken around it.             *)
(* A unit is a sequence of lines.                                          *)
(***************************************************************************)
EXTENDS Integers, Sequences, FiniteSetsExt, Functions

CONSTANTS
  MaxLifetime,        \* AUTHORIZATION_MAX_LIFETIME_MS
  FrameSizes,         \* PERFORMANCE_FIXED_FRAME_SIZES
  FramesPerSize,      \* PERFORMANCE_FRAMES_PER_SIZE
  Second,             \* a second, in the unit of a trial's duration
  MaxRss, MaxGrowth,  \* PERFORMANCE_MAX_DAEMON_RSS_BYTES, _MAX_RSS_GROWTH_BYTES
  UnitDirectives, ServiceDirectives

ASSUME DocumentsAssumption ==
  /\ {MaxLifetime, FramesPerSize, Second, MaxRss, MaxGrowth} \subseteq Nat \ {0}
  /\ FrameSizes \in Seq(Nat)

(* Documents live from the instant they are issued to the one they expire, both included. *)
Lives(d, now) == now \in d.issued .. d.expires
LifetimeIsBounded(d) == d.issued > 0 /\ d.expires - d.issued \in 1 .. MaxLifetime

-----------------------------------------------------------------------------
(* DeploymentAuthorizedInterfaceV1::validate *)
AuthorizedInterfaceIsValid(a) ==
  a.ifindex # 0 /\ a.kind = "physical" /\ a.master = 0 /\ ~a.clsact /\ a.filters = {}

AuthorizationIsValid(a) ==
  a.formed /\ LifetimeIsBounded(a) /\ AuthorizedInterfaceIsValid(a)

(* authorization_failure: a document that is not valid is expired first of all. *)
authorization_failure(a, commit, now) ==
  CASE ~(AuthorizationIsValid(a) /\ Lives(a, now)) ->
         IF Lives(a, now) THEN "DG_AUTH_SCHEMA" ELSE "DG_AUTH_EXPIRED"
    [] a.commit # commit -> "DG_AUTH_ARTIFACT"
    [] OTHER -> "none"

-----------------------------------------------------------------------------
Modes == {"baseline", "pass_through", "observe"}
TrialModes ==
  <<"baseline", "pass_through", "observe", "pass_through", "observe", "baseline",
    "observe", "baseline", "pass_through", "baseline", "observe", "pass_through",
    "pass_through", "baseline", "observe">>

Total(f) == FoldFunction(+, 0, f)

(* PerformanceTrialV1::validate: the rates are the fixed load over the duration. *)
TrialIsValid(t) ==
  /\ t.fixed /\ t.duration > 0 /\ t.packets > 0 /\ t.bytes > 0
  /\ t.packets = (FramesPerSize * Len(FrameSizes) * Second) \div t.duration
  /\ t.bytes = (FramesPerSize * Total(FrameSizes) * Second) \div t.duration

TrialsAreValid(trials) ==
  /\ Len(trials) = Len(TrialModes)
  /\ \A i \in DOMAIN trials : /\ TrialIsValid(trials[i])
                              /\ trials[i].number = (i - 1) \div 3 + 1
                              /\ trials[i].mode = TrialModes[i]

InMode(trials, mode) == {i \in DOMAIN trials : trials[i].mode = mode}

(* The middle of the values f takes on an odd number of indices, sorted. *)
Middle(f) ==
  LET half == Cardinality(DOMAIN f) \div 2
  IN CHOOSE v \in Range(f) : /\ Cardinality({i \in DOMAIN f : f[i] < v}) <= half
                             /\ Cardinality({i \in DOMAIN f : f[i] > v}) <= half

median_for(trials, mode) ==
  [packets |-> Middle([i \in InMode(trials, mode) |-> trials[i].packets]),
   bytes |-> Middle([i \in InMode(trials, mode) |-> trials[i].bytes])]

(* The worse of the two ratios counts. *)
conservative_ratio_permille(measured, baseline) ==
  Min({(measured.packets * 1000) \div baseline.packets, (measured.bytes * 1000) \div baseline.bytes})

observe_rss_for_trial(trials, n) ==
  trials[CHOOSE i \in InMode(trials, "observe") : trials[i].number = n].rss

(* The figures assess_structure computes from the trials. *)
Figures(trials) ==
  LET of(f(_)) == Total([i \in DOMAIN trials |-> f(trials[i])])
      cpu(t) == t.cpu      duration(t) == t.duration
      drops(t) == t.drops  errors(t) == t.errors
      first == observe_rss_for_trial(trials, 1)
      fifth == observe_rss_for_trial(trials, 5)
  IN [medians |-> [mode \in Modes |-> median_for(trials, mode)],
      pass_through |-> conservative_ratio_permille(median_for(trials, "pass_through"),
                                                   median_for(trials, "baseline")),
      observe |-> conservative_ratio_permille(median_for(trials, "observe"),
                                              median_for(trials, "baseline")),
      cpu |-> of(cpu), cpu_permille |-> (of(cpu) * 1000) \div of(duration),
      rss |-> Max({trials[i].rss : i \in DOMAIN trials}),
      growth |-> Max({0, fifth - first}),
      drops |-> of(drops), errors |-> of(errors)]

(* The figures fit the u16 fields of the document. *)
FiguresFit(f) == {f.pass_through, f.observe, f.cpu_permille} \subseteq 0 .. 65535

Regressed(e) ==
  \/ e.claims.pass_through < 950 \/ e.claims.observe < 900 \/ e.claims.cpu_permille > 1000
  \/ e.claims.rss > MaxRss \/ e.claims.growth > MaxGrowth
  \/ e.claims.drops # 0 \/ e.claims.errors # 0 \/ ~e.clean

ResultOf(e) ==
  IF ~e.complete THEN "unavailable" ELSE IF Regressed(e) THEN "failed" ELSE "passed"

(* assess_structure: the document is in its form and its time, its figures   *)
(* are those of its trials, and it states the result they give.  "invalid"   *)
(* is the error.                                                             *)
assess_structure(e, now) ==
  IF /\ e.formed /\ LifetimeIsBounded(e) /\ Lives(e, now)
     /\ TrialsAreValid(e.trials)
     /\ FiguresFit(Figures(e.trials)) /\ e.claims = Figures(e.trials)
     /\ e.result = ResultOf(e)
  THEN ResultOf(e) ELSE "invalid"

assess_for(e, commit, host, now) ==
  IF e.commit = commit /\ e.host = host THEN assess_structure(e, now) ELSE "invalid"

(* performance_failure: an invalid document is what it says it is, and one *)
(* that says it passed is unavailable.                                     *)
performance_failure(e, commit, host, now) ==
  LET result == assess_for(e, commit, host, now)
      said == IF result = "invalid" THEN e.result ELSE result
  IN CASE result = "passed" -> "none"
       [] said = "failed" -> "DG_PERFORMANCE_REGRESSION"
       [] OTHER -> "DG_PERFORMANCE_UNAVAILABLE"

-----------------------------------------------------------------------------
IsPermutation(s, S) == Range(s) = S /\ Len(s) = Cardinality(S)

(* validate_service_unit: the two sections in order, each directive exactly *)
(* once with its value, and one empty line before the second section.       *)
UnitIsValid(u) ==
  \E k \in 2 .. Len(u) :
    /\ u[1] = "[Unit]" /\ u[k] = "[Service]"
    /\ IsPermutation(SubSeq(u, 2, k - 1), UnitDirectives \cup {""})
    /\ IsPermutation(SubSeq(u, k + 1, Len(u)), ServiceDirectives)

-----------------------------------------------------------------------------
(* The report.  A gate is [state, codes]. *)
Gates == {"bundle", "layout", "service", "authorization", "platform", "evidence", "performance"}
Passed        == [state |-> "passed", codes |-> {}]
NotApplicable == [state |-> "not_applicable", codes |-> {}]

StagingPassed == [g \in Gates |-> IF g = "platform" THEN NotApplicable ELSE Passed]
InspectPassed == [g \in Gates |-> Passed]
BlockedGates(slot, code) ==
  [g \in Gates |-> IF g = slot THEN [state |-> "blocked", codes |-> {code}] ELSE NotApplicable]

(* What a report may lack (an interface, a plan) is a set of at most one. *)
InterfaceSummary(l) ==
  {i \in {[ifindex |-> l.ifindex, kind |-> l.kind]} : l.admin /\ l.oper /\ l.ifindex # 0}

(* CanaryPlanV1::new: none when the interface is not the authorized one. *)
CanaryPlan(a, interface) ==
  {[commit |-> a.commit, interface |-> i] :
     i \in {i \in interface : /\ AuthorizationIsValid(a) /\ i.kind = "physical"
                              /\ a.kind = i.kind /\ a.ifindex = i.ifindex}}

GateIsValid(g) == (g.codes = {}) = (g.state \in {"passed", "not_applicable"})

(* DeploymentGateReportV1::derive.  "error" is a report that is refused. *)
DecisionOf(command, commit, interface, gates, blockers, plan) ==
  LET stops == blockers # {} \/ \E g \in Gates : gates[g].state \in {"blocked", "unavailable"}
  IN CASE \E g \in Gates : ~GateIsValid(gates[g]) -> "error"
       [] command # "inspect" /\ interface \cup plan # {} -> "error"
       [] stops -> IF plan = {} THEN "blocked" ELSE "error"
       [] command = "staging" /\ gates = StagingPassed -> "staging_ready"
       [] command = "installed" /\ gates = StagingPassed -> "installed_verified"
       [] /\ command = "inspect" /\ gates = InspectPassed
          /\ \E i \in interface : plan = {[commit |-> commit, interface |-> i]}
          -> "physical_canary_ready"
       [] OTHER -> "error"
===============================================================================
