--------------------------- MODULE PlatformInspection ---------------------------
(***************************************************************************)
(* What the preflight and the deployment gate make of what they read of    *)
(* the host: linux/inspector.rs, bond.rs, interface.rs, limits.rs,         *)
(* bpf_inventory.rs, the readers of linux/deployment_platform.rs, and      *)
(* platform_failure of agent deployment.rs.  Pure: no state.               *)
(*                                                                         *)
(* A link is [name, ifindex, kernel, tap, driver, admin, oper, master,     *)
(* related, device, queues]; master 0 is none.  What may be absent is a set of at  *)
(* most one.  The warnings of a preflight are left out: nothing reads them.*)
(***************************************************************************)
EXTENDS Integers, Sequences, FiniteSetsExt, Functions

CONSTANTS
  RequiredMemlock,  \* REQUIRED_MEMLOCK_BYTES; an unlimited limit is at least this
  ReservedHandle,   \* the agent's TC handle on each of the two hooks
  MaxQueues         \* MAX_RECEIVE_QUEUES

ASSUME PlatformAssumption ==
  RequiredMemlock \in Nat \ {0} /\ MaxQueues \in Nat /\ DOMAIN ReservedHandle = {"ingress", "egress"}

(* classify_interface of what link_record takes from the kernel and sysfs. *)
KindOf(l) ==
  CASE l.kernel \in {"bond", "veth", "bridge"} -> l.kernel
    [] l.kernel = "openvswitch" -> "ovs_internal"
    [] l.kernel = "tun" /\ l.tap -> "tap"
    [] l.kernel = "none" /\ l.driver -> "physical"
    [] OTHER -> "unsupported"

(* parse_bond_snapshot: the finding of a snapshot [mode, active, slaves]. *)
BondError(b, names) ==
  LET lost == {i \in DOMAIN b.slaves : b.slaves[i] \notin names}
  IN CASE b.mode # "active-backup" -> "PF_INTERFACE_UNSUPPORTED"
       [] b.active = "None" -> "PF_BOND_NO_ACTIVE_SLAVE"
       [] b.slaves = <<>> \/ ~IsInjective(b.slaves) -> "PF_INTERFACE_UNSUPPORTED"
       [] b.active \notin Range(b.slaves) -> "PF_BOND_NO_ACTIVE_SLAVE"
       [] lost = {} -> "none"
       [] b.slaves[Min(lost)] = b.active -> "PF_BOND_NO_ACTIVE_SLAVE"
       [] OTHER -> "PF_INTERFACE_UNSUPPORTED"

BondErrors(bond, names) ==
  IF bond = {} THEN {"PF_BOND_NO_ACTIVE_SLAVE"} ELSE {BondError(b, names) : b \in bond} \ {"none"}

(* resolve_kernel_master: the one link with the master's index. *)
MasterOf(l, links) == {m \in links : l.master # 0 /\ m.ifindex = l.master}

MasterIsAmbiguous(l, links) == l.master # 0 /\ Cardinality(MasterOf(l, links)) # 1

NoInterface ==
  [ifindex |-> 0, kind |-> "unsupported", admin |-> FALSE, oper |-> FALSE, master |-> {},
   bond |-> FALSE, targets |-> {}, blockers |-> {"PF_INTERFACE_MISSING"}]

(* inspect_interface: the link with the name, its master (or the bridge Open *)
(* vSwitch knows), its active slave if it is a bond, and the one target that *)
(* follows.                                                                  *)
InspectLink(l, links, bond, bridge) ==
  LET kind == KindOf(l)
      names == {m.name : m \in links}
      kernel == IF MasterIsAmbiguous(l, links) THEN {} ELSE {m.ifindex : m \in MasterOf(l, links)}
      ovs == IF kind = "ovs_internal" /\ kernel = {}
             THEN {IF b \in names THEN (CHOOSE m \in links : m.name = b).ifindex ELSE 0 : b \in bridge}
             ELSE {}
      errors == IF kind = "bond" THEN BondErrors(bond, names) ELSE {}
      targets == CASE kind = "unsupported" \/ errors # {} -> {}
                   [] kind = "bond" -> {m.ifindex : m \in {m \in links : \E b \in bond : m.name = b.active}}
                   [] OTHER -> {l.ifindex}
      live == \/ l.admin \/ l.oper \/ kernel \cup ovs # {}
              \/ \E m \in links : m.ifindex \in targets /\ (m.admin \/ m.oper)
  IN [ifindex |-> l.ifindex, kind |-> kind, admin |-> l.admin, oper |-> l.oper,
      master |-> kernel \cup ovs, bond |-> kind = "bond", targets |-> targets,
      blockers |-> errors
        \cup {c \in {"PF_INTERFACE_UNSUPPORTED"} : kind = "unsupported" \/ MasterIsAmbiguous(l, links)}
        \cup {c \in {"PF_LIVE_INTERFACE"} : live}]

InspectInterface(requested, links, bond, bridge) ==
  LET found == {l \in links : l.name = requested /\ l.ifindex # 0}
  IN IF found = {} THEN NoInterface ELSE InspectLink(CHOOSE l \in found : TRUE, links, bond, bridge)

-----------------------------------------------------------------------------
(* xdp_states: the attributes of one link, [attached, prog, drv, skb, hw], for  *)
(* one mode; own says that the attribute with the mode's own program is there.  *)
XdpState(m, mode, own) ==
  CASE m.attached = "hardware" -> "unknown"
    [] m.attached = mode /\ ~own -> IF m.prog THEN "occupied" ELSE "unknown"
    [] m.attached = "multiple" /\ ~own -> "unknown"
    [] m.attached = "absent" /\ m.prog /\ ~m.drv /\ ~m.skb -> "unknown"
    [] m.hw -> "unknown"
    [] OTHER -> IF own THEN "occupied" ELSE "empty"

(* merge_attachment_state *)
Merge(states) ==
  IF "unknown" \in states THEN "unknown" ELSE IF "occupied" \in states THEN "occupied" ELSE "empty"

(* query_xdp: hooks has, for every index that exists, the attributes and the *)
(* TC filters of its link.  A link that is gone leaves the state unknown.    *)
QueryXdp(targets, hooks) ==
  IF targets \subseteq DOMAIN hooks
  THEN [known |-> TRUE,
        native |-> Merge({XdpState(hooks[i].xdp, "driver", hooks[i].xdp.drv) : i \in targets}),
        generic |-> Merge({XdpState(hooks[i].xdp, "skb", hooks[i].xdp.skb) : i \in targets})]
  ELSE [known |-> FALSE, native |-> "unknown", generic |-> "unknown"]

(* query_tc: the filters [hook, handle, type] of the targets; those of a link *)
(* that is gone are listed as none.                                           *)
QueryTc(targets, hooks) ==
  LET filters == UNION {hooks[i].tc : i \in targets \cap DOMAIN hooks}
  IN [known |-> \A f \in filters : f.type # "unknown",
      attached |-> {f \in filters : f.type = "bpf"}]

(* has_tc_collision *)
HasTcCollision(attached) == \E f \in attached : f.handle = ReservedHandle[f.hook]

(* ParsedMemlockLimits::can_raise_to; limits that cannot be read count as 0. *)
CanRaise(h) == h.soft >= RequiredMemlock \/ h.hard >= RequiredMemlock

(* inspect_host: the findings on the host, from its files and the two queries. *)
(* The pins below the agent's root are foreign to the inspector, whoever made  *)
(* them.                                                                       *)
HostBlockers(h, xdp, tc) ==
  LET when(code, holds) == IF holds THEN {code} ELSE {}
      states == {xdp.native, xdp.generic}
  IN when("PF_XDP_STATE_UNKNOWN", "unknown" \in states)
     \cup when("PF_XDP_OCCUPIED", "occupied" \in states)
     \cup when("PF_TC_STATE_UNKNOWN", ~tc.known)
     \cup when("PF_TC_HANDLE_COLLISION", HasTcCollision(tc.attached))
     \cup when("PF_PIN_ROOT_FOREIGN", h.pins > 0)
     \cup when("PF_MEMLOCK_TOO_LOW", ~CanRaise(h))
     \cup when("PF_KERNEL_CAPABILITY", ~h.capable \/ ~xdp.known \/ ~tc.known)

(* inspect, with the interface inspected before the hooks of its targets. *)
PreflightReport(interface, h, hooks) ==
  LET xdp == QueryXdp(interface.targets, hooks)
      tc == QueryTc(interface.targets, hooks)
  IN [interface |-> interface, xdp |-> xdp, tc |-> tc.attached,
      host |-> h, known |-> xdp.known /\ tc.known,
      blockers |-> interface.blockers \cup HostBlockers(h, xdp, tc)]

-----------------------------------------------------------------------------
(* preflight_matches_link *)
PreflightMatches(i, l) ==
  /\ i.ifindex = l.ifindex /\ i.kind = KindOf(l) /\ i.admin = l.admin /\ i.oper = l.oper
  /\ i.master = {l.master} \ {0}

(* inspect_netlink_consumers and packet_socket_present: the rows of the kernel's *)
(* tables, <<table, ifindex>>, that name the interface.                          *)
Consumers(rows, ifindex) == {r[1] : r \in {r \in rows : r[2] = ifindex}}

(* deployment_capabilities_sufficient *)
CapabilitiesSuffice(c) == "SYS_ADMIN" \in c \/ {"NET_ADMIN", "PERFMON", "BPF"} \subseteq c

(* inspect_driver_queue_readiness *)
QueuesAreReady(l) == l.driver /\ l.queues > 0

(* The snapshot of the interface agrees with the authorization and preflight. *)
IdentityMatches(p, a) ==
  /\ p.link.ifindex = a.ifindex /\ p.link.device = a.device
  /\ PreflightMatches(p.preflight.interface, p.link)

InterfaceIsSupported(p) ==
  /\ KindOf(p.link) = "physical" /\ p.link.admin /\ p.link.oper /\ p.link.master = 0
  /\ p.preflight.interface.kind = "physical" /\ ~p.preflight.interface.bond

(* The host carries a canary: the link is live and nothing else is wrong with *)
(* it, and nobody uses it.                                                    *)
PlatformIsFree(p) ==
  /\ p.preflight.blockers = {"PF_LIVE_INTERFACE"}
  /\ p.consumers = {} /\ ~p.link.related
  /\ CapabilitiesSuffice(p.capabilities) /\ p.ready
  /\ p.preflight.host.capable /\ p.preflight.known /\ CanRaise(p.preflight.host)

platform_failure(p, a) ==
  CASE ~IdentityMatches(p, a) -> "DG_AUTH_IDENTITY"
    [] ~InterfaceIsSupported(p) -> "DG_INTERFACE_UNSUPPORTED"
    [] {p.preflight.xdp.native, p.preflight.xdp.generic} # {"empty"} -> "DG_XDP_NOT_EMPTY"
    [] "clsact" \in p.consumers \/ p.preflight.tc # {} -> "DG_TC_NOT_EMPTY"
    [] ~PlatformIsFree(p) -> "DG_PLATFORM_BLOCKED"
    [] OTHER -> "none"
===============================================================================
