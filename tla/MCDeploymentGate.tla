--------------------------- MODULE MCDeploymentGate ---------------------------
(* A layout of seven roles: the product's directory, the directory of the     *)
(* journals, the command line tool, the manifest, the checksums, the unit,    *)
(* and one file for authorization and evidence.  One transaction installs     *)
(* another artifact than the rest; the artifacts have the unit in common, and *)
(* all documents the authorization identifier.                                *)
EXTENDS DeploymentGate, TLC

MCParent == [r \in Role |-> IF r \in {4, 5, 7} THEN 1 ELSE 0]
MCPayloads == <<6, 3, 4>>
MCOther == CHOOSE t \in Transactions : TRUE
MCArtifact == [t \in Transactions |-> IF t = MCOther THEN "b" ELSE "a"]
MCAuthorizationId == [t \in Transactions |-> "id"]
MCSymmetry == Permutations(Transactions \ {MCOther})

(* The documents: valid from 1 to 3, for the first link and this host; those *)
(* of the other artifact have expired.                                       *)
MCAuthorization(a) ==
  [formed |-> TRUE, id |-> "id", commit |-> a, issued |-> 1, expires |-> 3,
   ifindex |-> 1, device |-> "pci", kind |-> "physical", master |-> 0,
   clsact |-> FALSE, filters |-> {}]
MCAuthorizationOf ==
  [t \in Transactions |-> [MCAuthorization(MCArtifact[t]) EXCEPT !.expires = IF t = MCOther THEN 2 ELSE 3]]

MCFrameSizes == <<64, 512, 1514>>
MCTrial(i, duration, rss, drops) ==
  [number |-> (i - 1) \div 3 + 1, mode |-> TrialModes[i], fixed |-> TRUE, duration |-> duration,
   packets |-> (FramesPerSize * 3 * Second) \div duration,
   bytes |-> (FramesPerSize * 2090 * Second) \div duration,
   cpu |-> 1, rss |-> rss, drops |-> drops, errors |-> 0]

(* Evidence whose observe trials lasted as given, the others their usual time. *)
MCTrials(observe) ==
  [i \in 1 .. 15 |->
     MCTrial(i, CASE TrialModes[i] = "baseline" -> 100 [] TrialModes[i] = "pass_through" -> 104
                  [] OTHER -> observe[(i - 1) \div 3 + 1], 4, 0)]
MCEvidence(a, trials, result) ==
  [formed |-> TRUE, commit |-> a, host |-> "host", issued |-> 1, expires |-> 3, trials |-> trials,
   claims |-> Figures(trials), complete |-> TRUE, clean |-> TRUE, result |-> result]
MCGoodTrials == MCTrials(<<110, 110, 109, 120, 110>>)
MCGoodEvidence == [a \in {"a", "b"} |-> MCEvidence(a, MCGoodTrials, "passed")]
MCEvidenceOf == [t \in Transactions |-> MCGoodEvidence[MCArtifact[t]]]

MCUnitDirectives == {"Description=x"}
MCServiceDirectives == {"Type=simple", "Restart=no"}
MCUnit == <<"[Unit]", "Description=x", "", "[Service]", "Type=simple", "Restart=no">>
MCUnits == [a \in {"a", "b"} |-> MCUnit]

(* The link, and the link that takes its name. *)
MCLink(n) ==
  [name |-> "eth0", ifindex |-> n, kernel |-> "none", tap |-> FALSE, driver |-> TRUE,
   admin |-> TRUE, oper |-> TRUE, master |-> 0, related |-> FALSE, device |-> "pci", queues |-> 1]
MCLinkOf == [n \in 1 .. MaxLinks |-> MCLink(n)]
MCReservedHandle == [ingress |-> 1, egress |-> 2]
MCNoXdp == [attached |-> "none", prog |-> FALSE, drv |-> FALSE, skb |-> FALSE, hw |-> FALSE]
MCHookReadings ==
  {[xdp |-> MCNoXdp, tc |-> {}],
   [xdp |-> [MCNoXdp EXCEPT !.attached = "skb", !.prog = TRUE],
    tc |-> {[hook |-> "egress", handle |-> 2, type |-> "bpf"]}]}
MCHostReadings == {[pins |-> 0, soft |-> 0, hard |-> 1, capable |-> TRUE]}
MCCapabilities == {{"NET_ADMIN", "PERFMON", "BPF"}}

(* Staged trees: one that passes, and one for each way to block. *)
MCTree ==
  [root |-> TRUE, bundle |-> "a", layout |-> "a", unit |-> MCUnit, ready |-> TRUE,
   authorization |-> MCAuthorization("a"), evidence |-> MCGoodEvidence["a"]]
MCSlowTrials == MCTrials(<<110, 113, 112, 109, 115>>)
MCTrees ==
  {MCTree, [MCTree EXCEPT !.root = FALSE], [MCTree EXCEPT !.bundle = "none"],
   [MCTree EXCEPT !.layout = "none"], [MCTree EXCEPT !.layout = "b"],
   [MCTree EXCEPT !.unit = MCUnit \o <<"Restart=no">>], [MCTree EXCEPT !.ready = FALSE],
   [MCTree EXCEPT !.authorization.commit = "b"], [MCTree EXCEPT !.authorization.kind = "bond"],
   [MCTree EXCEPT !.evidence = MCEvidence("a", MCSlowTrials, "passed")],
   [MCTree EXCEPT !.evidence = MCEvidence("a", MCSlowTrials, "failed")],
   [MCTree EXCEPT !.evidence.claims.drops = 1], [MCTree EXCEPT !.evidence.complete = FALSE]}

(* Of the trees only the first is ready, whenever its documents live. *)
ASSUME OnlyTheSoundTreePasses ==
  \A tree \in MCTrees, now \in 1 .. 4 :
    (StagingFailure(tree, now)[1] = "none") <=> (tree = MCTree /\ now <= 3)

(* Evidence that passes has no trial that lost a packet, and most of its     *)
(* trials with observation reach nine tenths of the median without, up to    *)
(* the rounding of the permille: over all ways to spread five durations.     *)
ASSUME PassingEvidenceIsSound ==
  \A observe \in [1 .. 5 -> {109, 110, 112, 130}], result \in {"passed", "failed"} :
    LET trials == MCTrials(observe)
        e == MCEvidence("a", trials, result)
    IN assess_for(e, "a", "host", 2) = "passed" =>
         /\ \A i \in 1 .. 15 : trials[i].drops = 0
         /\ Cardinality({i \in InMode(trials, "observe") :
                           1000 * trials[i].packets >= 900 * median_for(trials, "baseline").packets}) >= 3

(* A report with one gate blocked is always a blocked report. *)
ASSUME BlockedReportsAreBlocked ==
  \A c \in {"staging", "installed", "inspect"}, g \in Gates :
    DecisionOf(c, "a", {}, BlockedGates(g, "DG_INTERNAL"), {"DG_INTERNAL"}, {}) = "blocked"
===============================================================================
