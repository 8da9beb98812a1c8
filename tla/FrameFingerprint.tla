--------------------------- MODULE FrameFingerprint ---------------------------
(***************************************************************************)
(* What the packet programs read out of a frame (common packet.rs and      *)
(* fingerprint.rs, ebpf programs.rs), and what becomes of the entries that *)
(* a scan of FINGERPRINTS returns (core fingerprint.rs).  Pure: no state.  *)
(*                                                                         *)
(* A frame is [length, present, destination, outer, inner, vlan, version,  *)
(* words, next, code, payload]: its length, the bytes of it that a program *)
(* can read, its addresses and types, the version and the header length in *)
(* words that its network header begins with, the protocol (or opcode) in  *)
(* that header, the byte behind that header, and the rest of the prefix.   *)
(* The inner type and the VLAN identifier are those of a tagged frame.     *)
(***************************************************************************)
EXTENDS Naturals, FiniteSets, FiniteSetsExt

CONSTANTS
  Hash(_, _),   \* fingerprint_hash of a length and a prefix, as a number
  NoVlan,       \* NO_VLAN
  Largest       \* u64::MAX

PrefixLength == 60     \* FINGERPRINT_PREFIX_LEN
SampleShift == 4       \* FINGERPRINT_SAMPLE_SHIFT

IsTag(type) == type \in {"802.1Q", "802.1ad"}
Tagged(f) == IsTag(f.outer)
Nested(f) == Tagged(f) /\ IsTag(f.inner)
EtherType(f) == IF Tagged(f) THEN f.inner ELSE f.outer
NetworkOffset(f) == IF Tagged(f) THEN 18 ELSE 14

(* parse_packet: the bytes that must be there. *)
Truncated(f) == f.present < NetworkOffset(f)

(* classify; the destination "group" is any other group address.  A second *)
(* tag hides the network layer.                                            *)
Unrecognised(f) == IF f.destination = "station" THEN "unicast" ELSE "other_multicast"

classify(f) ==
  CASE f.destination = "broadcast" -> "broadcast"
    [] f.destination = "control" -> "link_local"
    [] ~Nested(f) /\ EtherType(f) = "ipv4" /\ f.destination = "ipv4" -> "ipv4_multicast"
    [] ~Nested(f) /\ EtherType(f) = "ipv6" /\ f.destination = "ipv6" -> "ipv6_multicast"
    [] OTHER -> Unrecognised(f)

-----------------------------------------------------------------------------
(* fixed_ipv4_subtype_untagged, _tagged: the lengths of the header for which *)
(* the byte behind it has a fixed place in the prefix.                       *)
IPv4Subtype(f) == IF f.words \in 5 .. (IF Tagged(f) THEN 10 ELSE 11) THEN f.code ELSE 0

(* fixed_protocol_subtype_untagged, _tagged: 1 is ICMP and 58 ICMPv6. *)
ProtocolAndSubtype(f) ==
  CASE EtherType(f) = "ipv4" /\ f.version = 4 /\ f.words >= 5 ->
         <<f.next, IF f.next = 1 THEN IPv4Subtype(f) ELSE 0>>
    [] EtherType(f) = "ipv6" /\ f.version = 6 -> <<f.next, IF f.next = 58 THEN f.code ELSE 0>>
    [] EtherType(f) = "arp" -> <<0, IF f.next <= 255 THEN f.next ELSE 0>>
    [] OTHER -> <<0, 0>>

(* fixed_fingerprint_metadata, without the addresses, which no key has. *)
Metadata(f) ==
  [ether_type |-> EtherType(f), vlan |-> IF Tagged(f) THEN f.vlan ELSE NoVlan,
   depth |-> IF Nested(f) THEN 2 ELSE IF Tagged(f) THEN 1 ELSE 0,
   network |-> IF Nested(f) THEN <<0, 0>> ELSE ProtocolAndSubtype(f)]

(* fixed_fingerprint_hash: of the length and of every byte of the prefix. *)
Prefix(f) ==
  <<f.destination, f.outer, f.inner, f.vlan, f.version, f.words, f.next, f.code, f.payload>>
FingerprintOf(f) == Hash(f.length, Prefix(f))

(* fingerprint_selected *)
Selected(hash) == hash % 2^SampleShift = 0

(* The FingerprintKey of account_fingerprint, without the direction; it has *)
(* one only if the whole prefix can be read.                                *)
HasKey(f) ==
  f.length < 2^16 /\ f.present >= PrefixLength /\ Selected(FingerprintOf(f))
KeyOf(f) ==
  [fingerprint |-> FingerprintOf(f), length |-> f.length, metadata |-> Metadata(f)]

(* parse_fingerprint_metadata, protocol_and_subtype: the same of the first n *)
(* bytes of a frame, with no fixed places.                                   *)
ReferenceProtocolAndSubtype(f, n) ==
  LET end == NetworkOffset(f) + 4 * f.words
      code(offset) == IF offset < n THEN f.code ELSE 0
  IN CASE EtherType(f) = "ipv4" /\ f.version = 4 /\ f.words >= 5 /\ end <= n ->
            <<f.next, IF f.next = 1 THEN code(end) ELSE 0>>
       [] EtherType(f) = "ipv6" /\ f.version = 6 /\ NetworkOffset(f) + 40 <= n ->
            <<f.next, IF f.next = 58 THEN code(NetworkOffset(f) + 40) ELSE 0>>
       [] EtherType(f) = "arp" /\ NetworkOffset(f) + 8 <= n ->
            <<0, IF f.next <= 255 THEN f.next ELSE 0>>
       [] OTHER -> <<0, 0>>

-----------------------------------------------------------------------------
(* An entry of a scan is [first, last, packets, bytes] under its key and its *)
(* direction.  validate_evidence:                                            *)
EvidenceIsValid(k, v) ==
  /\ k[1].metadata.vlan = NoVlan \/ k[1].metadata.vlan <= 4094
  /\ v.packets > 0 /\ v.bytes >= v.packets /\ v.first <= v.last

(* maximize_ratio: in thousandths, of the larger to the smaller; a ratio to  *)
(* nothing is the largest there is.                                          *)
Ratio(a, b) ==
  IF Min({a, b}) = 0 THEN Largest ELSE (Max({a, b}) * 1000) \div Min({a, b})

(* FingerprintReport::build, accumulate_relation: a relation is the two      *)
(* directions of a key.                                                      *)
FingerprintReport(entries) ==
  LET keys(h) == {k[1] : k \in {k \in DOMAIN entries : k[2] = h}}
      both == keys("ingress") \cap keys("egress")
      in(p) == entries[<<p, "ingress">>]
      out(p) == entries[<<p, "egress">>]
      packets(h) == MapThenSumSet(LAMBDA p : entries[<<p, h>>].packets, keys(h))
      most(R) == IF R = {} THEN 0 ELSE Max(R)
  IN [relations |-> Cardinality(keys("ingress") \cup keys("egress")),
      ingress_only |-> Cardinality(keys("ingress") \ both),
      egress_only |-> Cardinality(keys("egress") \ both),
      correlated |-> Cardinality(both),
      ingress_first |-> Cardinality({p \in both : in(p).first < out(p).first}),
      egress_first |-> Cardinality({p \in both : in(p).first > out(p).first}),
      simultaneous |-> Cardinality({p \in both : in(p).first = out(p).first}),
      repeated |-> Cardinality({k[1] : k \in {k \in DOMAIN entries : entries[k].packets > 1}}),
      ingress |-> packets("ingress"), egress |-> packets("egress"),
      packet_ratio |-> most({Ratio(in(p).packets, out(p).packets) : p \in both}),
      byte_ratio |-> most({Ratio(in(p).bytes, out(p).bytes) : p \in both})]
===============================================================================
