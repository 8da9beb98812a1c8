------------------------------ MODULE MCDataPlane ------------------------------
(* Two CPUs and one selected fingerprint.  Two frames: a tagged broadcast with *)
(* the fingerprint, and one cut off in its tag, which is a parse error.        *)
EXTENDS DataPlane, TLC

MCKeys == <<"total", "broadcast", "error">>
MCHash(length, prefix) == IF prefix[9] = "selected" THEN 16 ELSE 1

Tag == [length |-> 60, present |-> 60, destination |-> "broadcast", outer |-> "802.1Q",
        inner |-> "arp", vlan |-> 1, version |-> 0, words |-> 0, next |-> 1, code |-> 0,
        payload |-> "selected"]
MCFrames == {Tag, [Tag EXCEPT !.length = 16, !.present = 16]}

(* What the program reads at fixed places of the prefix is what the parser of *)
(* the common crate makes of the prefix, for every frame whose IPv4 header    *)
(* ends in it.  Behind it the program keeps the protocol, the parser does not.*)
Whole == {[Tag EXCEPT !.outer = o, !.inner = i, !.version = v, !.words = w, !.next = n, !.code = 8] :
            o \in {"802.1Q", "ipv4", "ipv6", "arp", "other"},
            i \in {"802.1ad", "ipv4", "ipv6", "arp", "other"},
            v \in {4, 6}, w \in 0 .. 15, n \in {1, 17, 58, 255, 256}}
ASSUME MetadataAgrees ==
  \A f \in {f \in Whole : ~Nested(f)} :
    LET reference == ReferenceProtocolAndSubtype(f, PrefixLength) IN
    IF EtherType(f) = "ipv4" /\ NetworkOffset(f) + 4 * f.words > PrefixLength
    THEN reference = <<0, 0>> /\ Metadata(f).network \in {<<0, 0>>, <<f.next, 0>>}
    ELSE reference = Metadata(f).network

MCSymmetry == Permutations(Cpus)
MCView == <<cpu, stats, lru, clock, reader, endpoint, evictions, stored>>
===============================================================================
