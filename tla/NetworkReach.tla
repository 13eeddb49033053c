---------------------------- MODULE NetworkReach ----------------------------
(***************************************************************************)
(* What the Pods of one sandbox can reach: the NetworkPolicies (or, with   *)
(* the Cilium backend, the CiliumNetworkPolicy) the Kubernetes provider    *)
(* renders, and the egress gateway's proxy for host rules.                 *)
(*                                                                         *)
(* Addresses are strings of ReachBits bits and a CIDR block is a prefix,   *)
(* so that blocks nest or are disjoint as real ones do.  How a cluster     *)
(* enforces policies is external: allows of all policies that select a Pod *)
(* add up, a Pod none selects is open, Cilium's denies win, and its        *)
(* toFQDNs admits what its DNS proxy saw.                                  *)
(***************************************************************************)
EXTENDS Integers, FiniteSets

CONSTANTS
  ReachBits,       \* bound: width of an address
  ReachHosts,      \* bound: host names
  MaxNets,         \* bound: CIDRs in a list
  MaxResolvers     \* bound: resolver addresses

ASSUME ReachAssumption == {ReachBits, MaxNets, MaxResolvers} \subseteq Nat

VARIABLES
  nexcluded,       \* egress_excluded_cidrs
  nsidecar,        \* isolated_sidecar_https_cidrs
  nresolvers,      \* dns_service_ips: configured, or the worker's own nameservers
  nbackend,        \* fqdn_egress_backend, or the egress gateway's image
  negress,         \* the spec's NetworkEgress: kind, CIDR and host rules
  npods,           \* the sandbox's Pods
  npolicies,       \* policies in the cluster
  ntarget,         \* the gateway's ResolvedTarget, before it connects
  nlast            \* a connection made, the last thing that happens

nvars == <<nexcluded, nsidecar, nresolvers, nbackend, negress, npods, npolicies, ntarget, nlast>>
nconfig == <<nexcluded, nsidecar, nresolvers, nbackend, negress>>

\* Addresses and blocks, their most significant bit first.
Bits(l) == [1..l -> {0, 1}]
Address == Bits(ReachBits)
Nets == UNION {{[len |-> l, bits |-> b] : b \in Bits(l)} : l \in 0..ReachBits}
Zeros(l) == [i \in 1..l |-> 0]
Everything == [len |-> 0, bits |-> Zeros(0)]
Lists == {S \in SUBSET Nets : Cardinality(S) <= MaxNets}

InNet(n, a) == \A i \in 1..n.len : a[i] = n.bits[i]
Covers(n, m) == n.len <= m.len /\ \A i \in 1..n.len : m.bits[i] = n.bits[i]
AtMost(a, b) == a = b \/ \E i \in 1..ReachBits : a[i] < b[i] /\ \A j \in 1..(i - 1) : a[j] = b[j]
AddressesOf(S) == {a \in Address : \E n \in S : InNet(n, a)}

\* FQDN_EGRESS_PORTS; 443 is one of them.
FqdnPorts == {80, 443}
Ports == FqdnPorts \cup {53, 2222, 3217, 8080, 8443, 9443}

\* Pods of the cluster, and the sandbox's own with their component label.
ClusterPods == {"dns", "api", "control", "identity", "llm-gateway", "runner-host", "stranger"}
OwnPods == {"runtime", "gateway", "orb", "maestro", "tenant", "supervisor"}
Component == [p \in OwnPods |-> CASE p \in {"runtime", "tenant"} -> "runtime" [] p = "gateway" -> "egress-gateway"
                                   [] p = "supervisor" -> "supervisor" [] OTHER -> "none"]

Connection(p, r, a, port, h) == [from |-> p, pod |-> r, address |-> a, port |-> port, host |-> h]
NoConnection == Connection("none", "none", Zeros(ReachBits), 0, "none")
NoTarget == [address |-> Zeros(ReachBits), port |-> 0, host |-> "none"]

ReachTypeOK ==
  /\ nexcluded \in Lists /\ nsidecar \in Lists /\ nresolvers \subseteq Address
  /\ nbackend \in {"cilium", "pinned", "unpinned"}
  /\ negress.kind \in {"deny_all", "allow_all", "allowlist"} /\ negress.cidrs \in Lists
  /\ negress.hosts \subseteq ReachHosts
  /\ npods \subseteq OwnPods
  /\ ntarget.address \in Address /\ nlast.address \in Address

\* The worker's configuration and the tenant's rules.
ReachInit ==
  /\ nexcluded \in Lists
  /\ nsidecar \in {{}, {[len |-> ReachBits, bits |-> Zeros(ReachBits)]}}
  /\ nresolvers \in {S \in SUBSET Address : Cardinality(S) <= MaxResolvers}
  /\ nbackend \in {"cilium", "pinned", "unpinned"}
  /\ \/ \E k \in {"deny_all", "allow_all"} : negress = [kind |-> k, cidrs |-> {}, hosts |-> {}]
     \/ \E C \in Lists, H \in SUBSET ReachHosts : negress = [kind |-> "allowlist", cidrs |-> C, hosts |-> H]
  /\ npods = {} /\ npolicies = {} /\ ntarget = NoTarget /\ nlast = NoConnection

\* Mutant: only the open policy carves the excluded ranges out.
ExceptedForOpen(n) == IF n = Everything THEN {e \in nexcluded : Covers(n, e)} ELSE {}

\* excepted_cidrs_for: what an allow rule leaves out.
Excepted(n) == {e \in nexcluded : Covers(n, e)}

\* ip_block, refused when nothing would be left of it.
BlockRefused(n) == \E e \in nexcluded : Covers(e, n)
IpBlock(n) == AddressesOf({n}) \ AddressesOf(Excepted(n))

To(pods, addresses, ports) == [pods |-> pods, addresses |-> addresses, ports |-> ports]
From(pods, ports) == [pods |-> pods, ports |-> ports]
Policy(selects, in, out, deny) == [selects |-> selects, in |-> in, out |-> out, deny |-> deny]

\* dns_egress_rules: the cluster's DNS Pods, and each resolver address as it is,
\* nothing carved out of it.
DnsRule == To({"dns"}, {}, {53})
DnsRules == {DnsRule} \cup {To({}, {a}, {53}) : a \in nresolvers}

\* api_egress_rule and ingress_rule.
ApiRule == To({"api"}, {}, {3217})
IngressRule == From({"control"}, {2222})

UsesGateway == nbackend # "cilium" /\ negress.hosts # {}

\* validate_network_policy_egress: host rules need an enforcing backend.
EgressAccepted == negress.hosts = {} \/ nbackend \in {"cilium", "pinned"}

\* network_policy_manifest, for the runtime Pod.
SandboxPolicy ==
  Policy("runtime", {IngressRule},
         DnsRules \cup {ApiRule}
         \cup (IF negress.kind = "allow_all" THEN {To({}, IpBlock(Everything), Ports)} ELSE {})
         \cup {To({}, IpBlock(n), Ports) : n \in negress.cidrs}
         \cup (IF UsesGateway THEN {To({"gateway"}, {}, {8080})} ELSE {}),
         {})

\* cilium_fqdn_policy_manifest: every Pod with the sandbox's id is selected, the
\* names are added by the DNS proxy, and no resolver is allowed by its address.
CiliumPolicy ==
  Policy("any", {IngressRule},
         {DnsRule, ApiRule} \cup {To({}, IpBlock(n), Ports) : n \in negress.cidrs},
         AddressesOf(nexcluded))

\* egress_gateway_network_policy_manifest, with the built-in ranges taken to be
\* among the excluded ones.
GatewayPolicy ==
  Policy("egress-gateway", {From({"runtime"}, {8080})},
         DnsRules \cup {To({}, Address \ AddressesOf(nexcluded), FqdnPorts)}, {})

\* sandbox_resources and the manifests of an ordinary sandbox.
ProvisionSandbox ==
  /\ npods = {} /\ EgressAccepted
  /\ \A n \in negress.cidrs \cup (IF negress.kind = "allow_all" THEN {Everything} ELSE {}) : ~BlockRefused(n)
  /\ npods' = {"runtime"} \cup (IF UsesGateway THEN {"gateway"} ELSE {})
  /\ npolicies' = IF nbackend = "cilium" /\ negress.hosts # {} THEN {CiliumPolicy}
                  ELSE {SandboxPolicy} \cup (IF UsesGateway THEN {GatewayPolicy} ELSE {})
  /\ UNCHANGED <<nconfig, ntarget, nlast>>

\* sterile_pool_candidate_network_policy_manifests, instead of a sandbox's.
TenantPolicy ==
  Policy("runtime", {From({"runner-host"}, {8443}), From({"supervisor"}, {9443})},
         DnsRules \cup {To({"identity", "llm-gateway"}, {}, {8080})}, {})
SupervisorPolicy == Policy("supervisor", {}, DnsRules \cup {ApiRule, To({"tenant"}, {}, {9443})}, {})

ProvisionCandidate ==
  /\ npods = {} /\ npods' = {"tenant", "supervisor"}
  /\ npolicies' = {TenantPolicy, SupervisorPolicy}
  /\ UNCHANGED <<nconfig, ntarget, nlast>>

\* isolated_resident_process_manifests: the resident's own policy selects it by
\* labels no other Pod has.
ResidentPolicy(p) ==
  Policy(p, IF p = "maestro" THEN {From({"runner-host"}, {8443})} ELSE {},
         DnsRules \cup {To({}, AddressesOf({n}), {443}) : n \in nsidecar}
         \cup (IF p = "orb" THEN {To({}, IpBlock(Everything), {443})}
               ELSE {To({"identity", "llm-gateway"}, {}, {8080})}),
         {})

LaunchResident(p) ==
  /\ nlast = NoConnection /\ ntarget = NoTarget /\ "runtime" \in npods /\ p \notin npods /\ (p = "orb" => ~BlockRefused(Everything))
  /\ npods' = npods \cup {p}
  /\ npolicies' = npolicies \cup {ResidentPolicy(p)}
  /\ UNCHANGED <<nconfig, ntarget, nlast>>

\* Enforcement (external).
Selected(p) ==
  {q \in npolicies : p \in OwnPods /\ q.selects \in {"any", p, Component[p]}}
Leaves(p, r, addresses, port) ==
  p \in OwnPods =>
    /\ \E q \in Selected(p) : \E t \in q.out :
         port \in t.ports /\ (r \in t.pods \/ addresses \cap t.addresses # {})
    /\ \A q \in Selected(p) : addresses \cap q.deny = {}
Enters(p, r, port) ==
  r \in OwnPods => \E q \in Selected(r) : \E f \in q.in : p \in f.pods /\ port \in f.ports

ConnectPod(p, r, port) ==
  /\ nlast = NoConnection /\ p \in npods \cup ClusterPods /\ r \in npods \cup {"dns", "api", "identity", "llm-gateway"}
  /\ p # r /\ {p, r} \cap npods # {}
  /\ Leaves(p, r, {}, port) /\ Enters(p, r, port)
  /\ nlast' = Connection(p, r, Zeros(ReachBits), port, "none")
  /\ UNCHANGED <<nconfig, npods, npolicies, ntarget>>
ConnectAddress(p, a, port) ==
  /\ nlast = NoConnection /\ p \in npods /\ Leaves(p, "none", {a}, port)
  /\ nlast' = Connection(p, "none", a, port, "none")
  /\ UNCHANGED <<nconfig, npods, npolicies, ntarget>>

\* Cilium: an address its proxy saw in an answer for an allowed name.
ConnectName(p, h, a, port) ==
  /\ nlast = NoConnection /\ p \in npods /\ h \in negress.hosts /\ port \in FqdnPorts
  /\ \E q \in Selected(p) : q.selects = "any"
  /\ \A q \in Selected(p) : a \notin q.deny
  /\ nlast' = Connection(p, "none", a, port, h)
  /\ UNCHANGED <<nconfig, npods, npolicies, ntarget>>

\* evaluate_target, of one answer of the resolver: an allowed host and port, and
\* no address of the answer denied; the least one is taken.
GatewayResolves(h, port, answer) ==
  /\ nlast = NoConnection /\ "gateway" \in npods /\ ntarget = NoTarget
  /\ h \in negress.hosts /\ port \in FqdnPorts
  /\ answer # {} /\ answer \cap AddressesOf(nexcluded) = {}
  /\ ntarget' = [address |-> CHOOSE a \in answer : \A b \in answer : AtMost(a, b), port |-> port, host |-> h]
  /\ UNCHANGED <<nconfig, npods, npolicies, nlast>>

\* The gateway connects to what it evaluated, without resolving again.
GatewayConnects ==
  /\ ntarget # NoTarget /\ ntarget' = NoTarget
  /\ Leaves("gateway", "none", {ntarget.address}, ntarget.port)
  /\ nlast' = Connection("gateway", "none", ntarget.address, ntarget.port, ntarget.host)
  /\ UNCHANGED <<nconfig, npods, npolicies>>

ReachNext ==
  \/ ProvisionSandbox \/ ProvisionCandidate \/ GatewayConnects
  \/ \E p \in {"orb", "maestro"} : LaunchResident(p)
  \/ \E p, r \in OwnPods \cup ClusterPods, port \in Ports : ConnectPod(p, r, port)
  \/ \E p \in OwnPods, a \in Address, port \in Ports : ConnectAddress(p, a, port)
  \/ \E p \in OwnPods, h \in ReachHosts, a \in Address, port \in FqdnPorts : ConnectName(p, h, a, port)
  \/ \E h \in ReachHosts, port \in FqdnPorts, S \in SUBSET Address : GatewayResolves(h, port, S)

ReachSpec == ReachInit /\ [][ReachNext]_nvars

-----------------------------------------------------------------------------
(* Properties. *)

Excluded == {a \in Address : \E n \in nexcluded : InNet(n, a)}

\* The addresses a tenant's own rules grant.
GrantedAddresses == {a \in Address : negress.kind = "allow_all" \/ \E n \in negress.cidrs : InNet(n, a)}

\* The connections between Pods that are meant to be possible.
Meant ==
  {<<p, "dns", 53>> : p \in OwnPods}
  \cup {<<"runtime", "api", 3217>>, <<"supervisor", "api", 3217>>, <<"runtime", "gateway", 8080>>,
        <<"supervisor", "tenant", 9443>>, <<"control", "runtime", 2222>>}
  \cup {<<"runner-host", p, 8443>> : p \in {"maestro", "tenant"}}
  \cup {<<p, r, 8080>> : p \in {"maestro", "tenant"}, r \in {"identity", "llm-gateway"}}

\* Whatever the rules, the excluded ranges and the backend, however the blocks of
\* the two nest, an excluded address is reached in two ways only: by a resident,
\* where the operator opened it, and on port 53, where it is a resolver's
\* (provider.rs:2729, tests.rs:3115; docs/kubernetes.md:427 says never).  What is
\* reached otherwise was granted: directly by a CIDR rule, by name on the web
\* ports, or to a sidecar on 443.  Pods reach only the Pods meant for them.  Where
\* the Cilium policy is in force it selects the residents too, so that these share
\* the runtime's rules, and it denies every Pod an excluded resolver
\* (provider.rs:2930).
TrafficIsGranted ==
  LET c == nlast
      shared == \E q \in npolicies : q.selects = "any"
      resident == c.from \in {"orb", "maestro"}
  IN  /\ (c.from # "none" /\ c.pod = "none") =>
           \/ resident /\ c.port = 443 /\ (\E n \in nsidecar : InNet(n, c.address))
           \/ c.port = 53 /\ c.address \in nresolvers /\ (shared => resident /\ c.address \notin Excluded)
           \/ /\ c.address \notin Excluded
              /\ \/ c.host \in negress.hosts /\ c.port \in {80, 443}
                 \/ (c.from = "runtime" \/ (resident /\ shared)) /\ c.address \in GrantedAddresses
                 \/ c.from = "orb" /\ c.port = 443
                 \/ c.from = "gateway" /\ c.port \in {80, 443}
      /\ (c.pod # "none") =>
           \/ <<c.from, c.pod, c.port>> \in Meant
           \/ shared /\ ((resident /\ c.pod = "api") \/ (c.from = "control" /\ c.port = 2222))
=============================================================================
