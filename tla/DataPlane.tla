------------------------------- MODULE DataPlane -------------------------------
(***************************************************************************)
(* The packet programs (ebpf programs.rs), the maps they share with the    *)
(* agent, and the reader of those maps (agent linux/observation.rs) with   *)
(* what becomes of a read: a rate sample (core rate.rs) and a fingerprint  *)
(* window (core fingerprint_window.rs).                                    *)
(*                                                                         *)
(* A program runs on every CPU and on both hooks at once, and the reader   *)
(* reads one map entry per system call while they run.  A counter of       *)
(* HOOK_STATS has one cell per CPU, so its sum is exact; an entry of       *)
(* FINGERPRINTS is shared, and its fields are loaded and stored without    *)
(* atomicity.  Looking an entry up marks it as recently used, so it is not *)
(* the next to be evicted while a program still holds it.                  *)
(*                                                                         *)
(* What a program reads out of a frame is in FrameFingerprint.  The bytes  *)
(* of a counter of HOOK_STATS change with its packets and are left out.    *)
(***************************************************************************)
EXTENDS FrameFingerprint, Sequences, Functions

CONSTANTS
  Cpus,
  Frames,       \* the frames that arrive
  Keys,         \* the counters of a hook, in the order of observation_keys
  None,
  Amplification,\* the ratio of ingress to egress that counts as amplified
  MaxPackets,   \* bound: frames that arrive
  MaxEvictions  \* bound: entries the LRU map evicts

Hooks == <<"ingress", "egress">>
Hook == {"ingress", "egress"}
Classes == <<"broadcast", "ipv4_multicast", "ipv6_multicast", "other_multicast",
             "link_local", "unicast">>
Prints == {KeyOf(f) : f \in {f \in Frames : HasKey(f)}}
Entries == Prints \X Hook

ASSUME DataPlaneAssumption ==
  /\ \A f \in Frames : f.present <= f.length
  /\ Head(Keys) = "total" /\ Keys[Len(Keys)] = "error"
  /\ Range(Keys) \subseteq {"total", "error"} \cup Range(Classes)
  /\ Amplification \in Nat /\ MaxPackets \in Nat /\ MaxEvictions \in Nat

VARIABLES
  cpu,       \* the program running on each CPU
  stats,     \* HOOK_STATS: the sum of each counter
  visible,   \* IFACE_CONFIG: vlan_visibility is VERIFIED_VISIBLE
  lru,       \* FINGERPRINTS: an entry, or None
  clock,     \* bpf_ktime_get_ns
  reader,    \* the read in progress
  sample,    \* the last rate sample, or None
  endpoint,  \* the previous scan, or None
  window,    \* the fingerprint window report
  scanned, \* the fingerprint report of the last scan, or None
  packets, evictions,  \* history: the bounds used up
  stored     \* history: the updates made to each fingerprint

kernel == <<cpu, stats, visible, lru, clock>>
agent  == <<reader, sample, endpoint, window, scanned>>
vars == <<kernel, agent, packets, evictions, stored>>

-----------------------------------------------------------------------------
(* The counter a frame adds to, after the total. *)
CounterOf(frame) == IF Truncated(frame) THEN "error" ELSE classify(frame)

(* account_fingerprint: what it returns early for has no fingerprint. *)
PrintOf(frame) == IF HasKey(frame) THEN KeyOf(frame) ELSE None

-----------------------------------------------------------------------------
Ready == [at |-> "ready", hook |-> "ingress", counter |-> "total", print |-> None,
          tagged |-> FALSE, now |-> 0, value |-> 0]
Resting == [at |-> "idle", scans |-> FALSE, passed |-> {}, seen |-> <<>>, twice |-> FALSE,
            lost |-> FALSE, must |-> {}, mark |-> [k \in Entries |-> 0], got |-> <<>>]
NoWindow(s) == [state |-> s, ingress |-> 0, egress |-> 0, dominant |-> 0, repeated |-> 0,
                egress_first |-> 0, amplified |-> FALSE]

Init ==
  /\ cpu = [c \in Cpus |-> Ready]
  /\ stats = [h \in Hook |-> [k \in Range(Keys) |-> 0]]
  /\ visible = FALSE /\ lru = [k \in Entries |-> None] /\ clock = 0
  /\ reader = Resting /\ sample = None /\ endpoint = None /\ window = NoWindow("warming")
  /\ scanned = None
  /\ packets = 0 /\ evictions = 0 /\ stored = [k \in Entries |-> 0]

Running(c, s) == cpu[c].at = s
Go(c, s) == cpu' = [cpu EXCEPT ![c].at = s]
Done(c) == cpu' = [cpu EXCEPT ![c] = Ready]
Key(c) == <<cpu[c].print, cpu[c].hook>>
Count(h, key) == stats' = [stats EXCEPT ![h][key] = @ + 1]

(* account_layer: the total is counted before the frame is parsed. *)
Arrive(c, h, frame) ==
  /\ Running(c, "ready") /\ packets < MaxPackets
  /\ packets' = packets + 1
  /\ Count(h, "total")
  /\ cpu' = [cpu EXCEPT ![c] = [Ready EXCEPT
       !.at = "classify", !.hook = h, !.counter = CounterOf(frame), !.print = PrintOf(frame),
       !.tagged = ~Truncated(frame) /\ Tagged(frame)]]
  /\ UNCHANGED <<visible, lru, clock, agent, evictions, stored>>

(* Mutant: a parse error is not counted. *)
ClassifyNoError(c) ==
  /\ Running(c, "classify")
  /\ IF cpu[c].counter = "error" THEN UNCHANGED stats ELSE Count(cpu[c].hook, cpu[c].counter)
  /\ visible' = (visible \/ cpu[c].tagged)
  /\ IF cpu[c].print = None THEN Done(c) ELSE Go(c, "stamp")
  /\ UNCHANGED <<lru, clock, agent, packets, evictions, stored>>

(* The class or the parse error is counted, and a tag that was seen is *)
(* recorded in the configuration.                                      *)
Classify(c) ==
  /\ Running(c, "classify")
  /\ Count(cpu[c].hook, cpu[c].counter)
  /\ visible' = (visible \/ cpu[c].tagged)
  /\ IF cpu[c].print = None THEN Done(c) ELSE Go(c, "stamp")
  /\ UNCHANGED <<lru, clock, agent, packets, evictions, stored>>

(* The clock is read before the entry is looked up. *)
Stamp(c) ==
  /\ Running(c, "stamp")
  /\ clock' = clock + 1
  /\ cpu' = [cpu EXCEPT ![c].at = "lookup", ![c].now = clock + 1]
  /\ UNCHANGED <<stats, visible, lru, agent, packets, evictions, stored>>

(* An entry that is found gets the time, and its packets are loaded. *)
Lookup(c) ==
  /\ Running(c, "lookup")
  /\ IF lru[Key(c)] = None
     THEN Go(c, "insert") /\ UNCHANGED lru
     ELSE /\ lru' = [lru EXCEPT ![Key(c)].last = cpu[c].now]
          /\ cpu' = [cpu EXCEPT ![c].at = "packets", ![c].value = lru[Key(c)].packets]
  /\ UNCHANGED <<stats, visible, clock, agent, packets, evictions, stored>>

StorePackets(c) ==
  /\ Running(c, "packets")
  /\ lru' = [lru EXCEPT ![Key(c)].packets = cpu[c].value + 1]
  /\ stored' = [stored EXCEPT ![Key(c)] = @ + 1]
  /\ cpu' = [cpu EXCEPT ![c].at = "bytes", ![c].value = lru[Key(c)].bytes]
  /\ UNCHANGED <<stats, visible, clock, agent, packets, evictions>>

StoreBytes(c) ==
  /\ Running(c, "bytes")
  /\ lru' = [lru EXCEPT ![Key(c)].bytes = cpu[c].value + cpu[c].print.length]
  /\ Done(c)
  /\ UNCHANGED <<stats, visible, clock, agent, packets, evictions, stored>>

(* BPF_NOEXIST: an entry another CPU inserted meanwhile is kept, and this *)
(* frame is not counted in it.                                            *)
Insert(c) ==
  /\ Running(c, "insert")
  /\ LET now == cpu[c].now IN
     IF lru[Key(c)] = None
     THEN /\ lru' = [lru EXCEPT ![Key(c)] =
                       [first |-> now, last |-> now, packets |-> 1,
                        bytes |-> cpu[c].print.length]]
          /\ stored' = [stored EXCEPT ![Key(c)] = @ + 1]
     ELSE UNCHANGED <<lru, stored>>
  /\ Done(c)
  /\ UNCHANGED <<stats, visible, clock, agent, packets, evictions>>

(* The LRU map makes room for another entry.  The iteration of a scan that  *)
(* stands at the evicted key, or was about to read it, begins anew.         *)
Evict(k) ==
  /\ evictions < MaxEvictions /\ lru[k] # None
  /\ \A c \in Cpus : Running(c, "packets") \/ Running(c, "bytes") => Key(c) # k
  /\ evictions' = evictions + 1
  /\ lru' = [lru EXCEPT ![k] = None]
  /\ reader' = [reader EXCEPT !.lost = @ \/ reader.at = "scan", !.must = @ \ {k}]
  /\ UNCHANGED <<cpu, stats, visible, clock, sample, endpoint, window, scanned, packets, stored>>

-----------------------------------------------------------------------------
(* read_exact.  A check of the hooks, the pins or the configuration that     *)
(* fails ends a read without a result.                                       *)
Present == {k \in Entries : lru[k] # None}

StartRead(scans) ==
  /\ reader.at = "idle"
  /\ reader' = [Resting EXCEPT !.at = IF scans THEN "scan" ELSE "counters", !.scans = scans,
                               !.must = IF scans THEN Present ELSE {}, !.mark = stored]
  /\ UNCHANGED <<kernel, sample, endpoint, window, scanned, packets, evictions, stored>>

RefuseRead ==
  /\ reader.at # "idle"
  /\ reader' = Resting
  /\ UNCHANGED <<kernel, sample, endpoint, window, scanned, packets, evictions, stored>>

(* One step of the iteration in read_fingerprints.  An entry inserted after *)
(* the scan began may be passed over.                                       *)
ReadEntry(k) ==
  /\ reader.at = "scan" /\ lru[k] # None /\ k \notin reader.passed
  /\ reader' = [reader EXCEPT
       !.passed = @ \cup {k}, !.twice = @ \/ k \in DOMAIN reader.seen,
       !.seen = [x \in DOMAIN @ \cup {k} |-> IF x = k THEN lru[k] ELSE @[x]],
       !.mark[k] = stored[k]]
  /\ UNCHANGED <<kernel, sample, endpoint, window, scanned, packets, evictions, stored>>

(* The next key after one that is gone is the first key. *)
RestartScan ==
  /\ reader.at = "scan" /\ reader.lost
  /\ reader' = [reader EXCEPT !.lost = FALSE, !.passed = {}, !.must = Present]
  /\ UNCHANGED <<kernel, sample, endpoint, window, scanned, packets, evictions, stored>>

EndScan ==
  /\ reader.at = "scan" /\ reader.must \subseteq reader.passed
  /\ reader' = [reader EXCEPT !.at = "counters"]
  /\ UNCHANGED <<kernel, sample, endpoint, window, scanned, packets, evictions, stored>>

(* The counters of a hook, and then those of the other. *)
Wanted == Len(Hooks) * Len(Keys)
HookAt(i) == Hooks[1 + ((i - 1) \div Len(Keys))]
KeyAt(i) == Keys[1 + ((i - 1) % Len(Keys))]

(* read_aggregate *)
ReadCounter ==
  /\ reader.at = "counters" /\ Len(reader.got) < Wanted
  /\ LET i == Len(reader.got) + 1 IN
     reader' = [reader EXCEPT !.got = Append(@, stats[HookAt(i)][KeyAt(i)])]
  /\ UNCHANGED <<kernel, sample, endpoint, window, scanned, packets, evictions, stored>>

-----------------------------------------------------------------------------
(* RateHistory::insert keeps the sample unless a counter went back. *)
hooks_are_monotonic(old, new) == \A i \in 1 .. Wanted : old[i] <= new[i]

RecordSample(got) ==
  sample' = IF sample # None /\ ~hooks_are_monotonic(sample, got) THEN None ELSE got

(* validate_scan: every entry is valid, and none came twice. *)
ValidScan(scan) ==
  ~scan.twice /\ \A k \in DOMAIN scan.seen : EvidenceIsValid(k, scan.seen[k])

(* build_window, first part: an entry that was there before must be the same *)
(* and must not have gone back.                                              *)
Continues(old, new) == old.first = new.first
Advances(old, new) == /\ old.last <= new.last
                      /\ old.packets <= new.packets /\ old.bytes <= new.bytes

Comparable(old, new) ==
  \A k \in DOMAIN old \cap DOMAIN new : Continues(old[k], new[k]) /\ Advances(old[k], new[k])

(* Mutant: what the previous scan had counted is not subtracted. *)
DeltaOfAll(old, new, k) == [packets |-> new[k].packets, bytes |-> new[k].bytes]

Delta(old, new, k) ==
  IF k \in DOMAIN old
  THEN [packets |-> new[k].packets - old[k].packets, bytes |-> new[k].bytes - old[k].bytes]
  ELSE [packets |-> new[k].packets, bytes |-> new[k].bytes]

(* build_window, second part: the sides with a delta, and what they show of  *)
(* each fingerprint.  A ratio to no egress packets is the largest there is.  *)
BuildWindow(old, new) ==
  LET D(k) == Delta(old, new, k)
      sides == {k \in DOMAIN new : D(k).packets > 0 \/ D(k).bytes > 0}
      Packets(p, h) == IF <<p, h>> \in sides THEN D(<<p, h>>).packets ELSE 0
      relations == {k[1] : k \in sides}
      correlated == {p \in relations : {<<p, "ingress">>, <<p, "egress">>} \subseteq sides}
  IN [state |-> "ready",
      ingress |-> MapThenSumSet(LAMBDA p : Packets(p, "ingress"), relations),
      egress |-> MapThenSumSet(LAMBDA p : Packets(p, "egress"), relations),
      dominant |-> Max({0} \cup {Packets(p, "ingress") : p \in relations}),
      repeated |-> Cardinality({p \in relations : \E h \in Hook : Packets(p, h) > 1}),
      egress_first |-> Cardinality({p \in correlated :
                         new[<<p, "egress">>].first < new[<<p, "ingress">>].first}),
      amplified |-> \E p \in correlated :
                      Packets(p, "ingress") >= Amplification * Packets(p, "egress")]

(* record_scan.  The time since the previous scan is short of a window, fits *)
(* one, or is too long; the wall clock may also have gone back.              *)
RecordScan(scan, coverage) ==
  LET current == [entries |-> scan.seen, mark |-> scan.mark] IN
  \/ /\ ~ValidScan(scan) \/ (endpoint # None /\ coverage = "back")
     /\ endpoint' = None /\ window' = NoWindow("unavailable")
  \/ /\ ValidScan(scan) /\ (endpoint = None \/ coverage = "long")
     /\ endpoint' = current /\ window' = NoWindow("warming")
  \/ /\ ValidScan(scan) /\ endpoint # None /\ coverage = "short"
     /\ window' = NoWindow("warming") /\ UNCHANGED endpoint
  \/ /\ ValidScan(scan) /\ endpoint # None /\ coverage = "full"
     /\ IF Comparable(endpoint.entries, scan.seen)
        THEN /\ endpoint' = current
             /\ window' = BuildWindow(endpoint.entries, scan.seen)
        ELSE /\ endpoint' = None /\ window' = NoWindow("unavailable")

EndRead(coverage) ==
  /\ reader.at = "counters" /\ Len(reader.got) = Wanted
  /\ RecordSample(reader.got)
  /\ IF reader.scans THEN RecordScan(reader, coverage) ELSE UNCHANGED <<endpoint, window>>
  /\ scanned' = IF reader.scans /\ ValidScan(reader) THEN FingerprintReport(reader.seen) ELSE None
  /\ reader' = Resting
  /\ UNCHANGED <<kernel, packets, evictions, stored>>

Program(c) ==
  \/ Classify(c) \/ Stamp(c) \/ Lookup(c) \/ StorePackets(c) \/ StoreBytes(c) \/ Insert(c)

Next ==
  \/ \E c \in Cpus : Program(c) \/ \E h \in Hook, f \in Frames : Arrive(c, h, f)
  \/ \E k \in Entries : Evict(k) \/ ReadEntry(k)
  \/ \E scans \in BOOLEAN : StartRead(scans)
  \/ RefuseRead \/ RestartScan \/ EndScan \/ ReadCounter
  \/ \E coverage \in {"short", "full", "long", "back"} : EndRead(coverage)

Spec == Init /\ [][Next]_vars

-----------------------------------------------------------------------------
(* PROPERTY.  A sample is torn by no more than the traffic of its own read:  *)
(* the classes and parse errors read for a hook are at least the total read  *)
(* before them less one frame per CPU, and never more than the frames that   *)
(* had arrived by then.                                                      *)
ClassSum(got, h) == MapThenSumSet(LAMBDA i : got[i],
                      {i \in 1 .. Wanted : HookAt(i) = h /\ KeyAt(i) # "total"})
TotalOf(got, h) == got[CHOOSE i \in 1 .. Wanted : HookAt(i) = h /\ KeyAt(i) = "total"]

TearIsBounded ==
  [][ Len(reader'.got) = Wanted => \A h \in Hook :
        /\ ClassSum(reader'.got, h) + Cardinality(Cpus) >= TotalOf(reader'.got, h)
        /\ ClassSum(reader'.got, h) <= stats[h]["total"] ]_vars

(* PROPERTY.  A fingerprint window never shows more packets of a direction   *)
(* than the programs recorded between the two scans, and the report of a     *)
(* scan never more than they recorded before it, whatever updates were lost, *)
(* entries evicted or keys read twice.                                       *)
WindowIsNotOvercounted ==
  [][ \A h \in Hook :
        LET recorded(mark) == MapThenSumSet(LAMBDA p : mark[<<p, h>>], Prints) IN
        /\ endpoint' # endpoint /\ window'.state = "ready" =>
             window'[h] <= recorded(reader.mark) - recorded(endpoint.mark)
        /\ scanned' \notin {None, scanned} => scanned'[h] <= recorded(reader.mark) ]_vars
===============================================================================
