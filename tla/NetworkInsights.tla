--------------------------- MODULE NetworkInsights ---------------------------
(***************************************************************************)
(* How traffic is arranged (internal/insight/network.go).  An address is a  *)
(* number with its class and the fallback block it lies in; a range has its *)
(* ends, its prefix length and whether it is wide enough to say nothing.    *)
(***************************************************************************)
EXTENDS InsightInput

CONSTANTS
  AddressOf,  \* texts that parse as an address |-> [n, class, block]
  RangeOf,    \* texts that parse as a prefix |-> [first, last, bits, private, short]
  DomainsOf,   \* a hostname |-> itself and the domains above it
  Bare        \* the wildcard names |-> what follows the "*."

Addresses(texts) == {AddressOf[t] : t \in texts \cap DOMAIN AddressOf}

\* Mutant of supplementalAddresses: only what the graph indexes is held.
indexedAddressesOnly(a) == {}

\* A NAT gateway's address, a pod's and a node's are not in the graph's index.
supplementalAddresses(a) ==
  CASE a.type = "oci.nat_gateway" -> {Tag(a, "nat_ip")}
    [] a.type = "v1.Pod" -> {Get(a.raw, "status.podIP", "")}
    [] a.type = "v1.Node" -> Get(a.raw, "status.addresses", {})
    [] OTHER -> {}

heldAddresses(a) == Addresses(AssetAddresses(a).ips \cup supplementalAddresses(a))

Holders(in, address) == Filter(in.assets, LAMBDA a : address \in heldAddresses(a))
AllHeld(in, class) ==
  {h \in UNION {heldAddresses(a) : a \in ToSet(in.assets)} : h.class = class}

networkKey(a) == IF Tag(a, "vcn_id") # "" THEN Tag(a, "vcn_id") ELSE a.id

\* The ranges networks declare, without those too wide to mean anything.
declaredRanges(in) ==
  Each(in.assets, LAMBDA a :
    LET texts == <<Tag(a, "cidr_block")>> \o TagList(a, "cidr_blocks")
                   \o <<Tag(a, "ip_cidr_range"), Tag(a, "network")>>
    IN Map(Filter(texts, LAMBDA t : t \in DOMAIN RangeOf /\ ~RangeOf[t].short),
           LAMBDA t : [range |-> RangeOf[t], asset |-> a, network |-> networkKey(a)]))

Within(address, range) == range.first <= address.n /\ address.n <= range.last
Overlaps(r, s) == r.first <= s.last /\ s.first <= r.last

\* The narrowest declared range around an address, the first of equals.
containingRange(ranges, address) ==
  LET around == Filter(ranges, LAMBDA r : Within(address, r.range))
      narrow == Filter(around, LAMBDA r : \A s \in ToSet(around) : s.range.bits <= r.range.bits)
  IN SubSeq(narrow, 1, IF narrow = <<>> THEN 0 ELSE 1)

\* What stands behind an asset: policies and containment are not backends.
downstreamOf(in, a) ==
  Keys(Filter(in.assets, LAMBDA t : \E e \in ToSet(EdgesFrom(in, a)) :
         /\ e.kind \notin {"traffic-allow", "traffic-deny", "network-containment"}
         /\ refKey(e.to) = nodeKey(t)))

namesPointingAt(in, a) ==
  {e.hostname : e \in {x \in ToSet(EdgesTo(in, a)) : x.kind = "dns"}} \ {""}

-----------------------------------------------------------------------------
(* Addresses.                                                              *)

publicAddresses(in) ==
  LET held == AllHeld(in, "public")
      Behind(h) == UNION {downstreamOf(in, a) : a \in ToSet(Holders(in, h))}
  IN IF held = {} THEN <<>>
     ELSE << Finding("network.public-addresses", "notable", Cardinality(held),
                     <<SumOf(SetToSeq(held), LAMBDA h : Cardinality(Keys(Holders(in, h))))>>,
                     {Row(<<"address", h>>, Behind(h), Cardinality(Behind(h))) : h \in held}, {}) >>

\* An address counts in the declared block around it, or in one of a fixed
\* size that no network declares.
privateAddresses(in) ==
  LET held == AllHeld(in, "private")
      ranges == declaredRanges(in)
      declared == {r.range : r \in {x \in ToSet(ranges) : x.range.private}}
      Block(h) == LET r == containingRange(ranges, h)
                  IN IF r # <<>> /\ r[1].range.private THEN r[1].range ELSE h.block
      blocks == declared \cup {Block(h) : h \in held}
      total == SumOf(SetToSeq(held), LAMBDA h : Cardinality(Keys(Holders(in, h))))
  IN IF total = 0 /\ declared = {} THEN <<>>
     ELSE << Finding("network.private-addresses", "info", total,
                     <<Cardinality(blocks), Cardinality(declared)>>,
                     {Row(<<"block", blk>>, {}, Cardinality({h \in held : Block(h) = blk}))
                        : blk \in blocks}, {}) >>

-----------------------------------------------------------------------------
(* Gateways.                                                               *)

egressGatewayTypes == {"oci.internet_gateway", "oci.nat_gateway", "oci.service_gateway"}
gatewayTypes == egressGatewayTypes \cup {"oci.local_peering_gateway"}

\* The network of an identifier: a network with gateways, or a subnet of it.
networkIDs(in, gateways) ==
  LET vcns == {Tag(x, "vcn_id") : x \in ToSet(gateways)} \ {""}
      subnets == {s \in ToSet(OfTypes(in, {"oci.subnet"})) : Tag(s, "vcn_id") \in vcns}
  IN [id \in vcns \cup {s.id : s \in subnets} |->
        IF id \in {s.id : s \in subnets}
        THEN Tag(CHOOSE s \in subnets : s.id = id, "vcn_id") ELSE id]

unusedEgressGateways(in, gateways) ==
  LET ids == networkIDs(in, gateways)
      things == Filter(in.assets, LAMBDA a :
                  a.type \notin gatewayTypes \cup {"oci.vcn", "oci.subnet", "oci.compartment"})
      occupied == {ids[v] : v \in DOMAIN ids \cap UNION {TagTexts(a) : a \in ToSet(things)}}
      unused == Filter(gateways, LAMBDA x :
                  x.type \in egressGatewayTypes /\ Tag(x, "vcn_id") \notin occupied \cup {""})
      Subnets(x) == {id \in DOMAIN ids : ids[id] = Tag(x, "vcn_id") /\ id # ids[id]}
  IN IF unused = <<>> THEN <<>>
     ELSE << Finding("network.gateway-without-workload", "notable", Len(unused),
                     <<Cardinality({Tag(x, "vcn_id") : x \in ToSet(unused)})>>,
                     {AssetRow(x, Cardinality(Subnets(x))) : x \in ToSet(unused)}, {}) >>

networkGateways(in) ==
  LET gateways == OfTypes(in, gatewayTypes)
      Network(x) == IF Tag(x, "vcn_id") # "" THEN <<Tag(x, "vcn_id")>> ELSE nodeKey(x)
      networks == {Network(x) : x \in ToSet(gateways)}
      Of(n) == Filter(gateways, LAMBDA x : Network(x) = n)
  IN IF gateways = <<>> THEN <<>>
     ELSE << Finding("network.gateways", "info", Len(gateways), <<Cardinality(networks)>>,
                     {Row(n, Keys(Of(n)), Len(Of(n))) : n \in networks}, {}) >>
            \o unusedEgressGateways(in, gateways)

-----------------------------------------------------------------------------
(* Ingress.                                                                *)

ingressTypes ==
  HTTPRoutes \cup {"networking.k8s.io/v1.Ingress", "oci.load_balancer",
                   "oci.network_load_balancer", "cloudflare.load_balancer",
                   "compute.googleapis.com/ForwardingRule"}

isPublishedService(a) ==
  a.type = "v1.Service" /\ AssetAddresses(a).ips \cup AssetAddresses(a).hosts # {}

routeHostnames(a) ==
  IF a.type \in HTTPRoutes THEN ToSet(Get(a.raw, "hostnames", <<>>)) \ {""} ELSE {}

ingressPoints(in) ==
  LET points == Filter(in.assets, LAMBDA a : a.type \in ingressTypes \/ isPublishedService(a))
      Hostnames(a) == AssetAddresses(a).hosts \cup routeHostnames(a) \cup namesPointingAt(in, a)
      With(Op(_)) == Len(Filter(points, LAMBDA a : Op(a) # {}))
  IN IF points = <<>> THEN <<>>
     ELSE << Finding("network.ingress-points", "info", Len(points),
                     <<With(Hostnames), With(LAMBDA a : downstreamOf(in, a))>>,
                     {Row(nodeKey(a), downstreamOf(in, a), 0) : a \in ToSet(points)}, {}) >>

-----------------------------------------------------------------------------
(* DNS.                                                                    *)

resolvedByGraph(in, rec) == \E e \in ToSet(EdgesFrom(in, rec)) : e.kind = "dns"
ownedHostnames(in) == UNION {AssetAddresses(a).hosts : a \in ToSet(in.assets)}
wildcardHostnames(records) ==
  {Bare[h] : h \in {normalizeHost(r.name) : r \in ToSet(records)} \cap DOMAIN Bare}
Domains(host) == ToSet(Get(DomainsOf, host, <<host>>))
coveredByWildcard(wildcards, host) == Domains(host) \cap wildcards # {}

collectedZones(in) ==
  Normalized({z.name : z \in ToSet(OfTypes(in, {"cloudflare.zone"}))}
               \cup {Tag(r, "zone_name") : r \in ToSet(OfTypes(in, {"cloudflare.dns_record"}))})

zoneOf(zones, host) ==
  Filter(Get(DomainsOf, host, <<host>>), LAMBDA d : d \in zones)

\* A record of the estate that leads into address space or a zone the audit
\* holds, to something nobody there answers for.
danglingDNS(in) ==
  LET records == OfTypes(in, {"cloudflare.dns_record"})
      ranges == declaredRanges(in)
      held == UNION {heldAddresses(a) : a \in ToSet(in.assets)}
      Address(r) == AddressOf[Tag(r, "content")]
      Target(r) == normalizeHost(Tag(r, "content"))
      Points(r) ==
        /\ Tag(r, "content") # "" /\ ~resolvedByGraph(in, r)
        /\ \/ /\ Tag(r, "type") \in {"A", "AAAA"} /\ Tag(r, "content") \in DOMAIN AddressOf
              /\ Address(r) \notin held
           \/ /\ Tag(r, "type") = "CNAME" /\ Target(r) \notin ownedHostnames(in)
              /\ ~coveredByWildcard(wildcardHostnames(records), Target(r))
      Scope(r) == IF Tag(r, "type") = "CNAME"
                  THEN Map(zoneOf(collectedZones(in), Target(r)), LAMBDA z : {})
                  ELSE Map(containingRange(ranges, Address(r)), LAMBDA x : {nodeKey(x.asset)})
      nowhere == Filter(records, Points)
      suspects == Filter(nowhere, LAMBDA r : Scope(r) # <<>>)
  IN IF suspects = <<>> THEN <<>>
     ELSE << Finding("network.dangling-dns", "warn", Len(suspects),
                     <<Len(nowhere) - Len(suspects)>>,
                     {Row(nodeKey(r), Scope(r)[1] \cup Keys(AssetByID(in, Tag(r, "zone_id"))), 0)
                        : r \in ToSet(suspects)},
                     (IF Len(nowhere) > Len(suspects) THEN {"out of scope"} ELSE {})
                       \cup (IF RawAvailable(in) THEN {} ELSE {"no raw"})) >>

-----------------------------------------------------------------------------
(* Overlapping ranges.                                                     *)

\* The widest range of a gateway's own network that meets what its peer
\* advertises.
peeringCollisions(in, ranges) ==
  LET Hit(x) == {r \in ToSet(ranges) : /\ r.network = Tag(x, "vcn_id")
                                       /\ Overlaps(r.range, RangeOf[Tag(x, "peer_advertised_cidr")])}
      peers == Filter(OfTypes(in, {"oci.local_peering_gateway"}),
                         LAMBDA x : Tag(x, "peer_advertised_cidr") \in DOMAIN RangeOf)
  IN {AssetRow(x, 0) : x \in {y \in ToSet(peers) : Hit(y) # {}}}

overlappingCIDRs(in) ==
  LET ranges == declaredRanges(in)
      meeting == {p \in (DOMAIN ranges) \X (DOMAIN ranges) :
                    /\ p[1] < p[2] /\ ranges[p[1]].network # ranges[p[2]].network
                    /\ Overlaps(ranges[p[1]].range, ranges[p[2]].range)}
      Pair(p) == {ranges[p[1]].network, ranges[p[2]].network}
      rows == peeringCollisions(in, ranges)
                \cup {Row(<<"networks">>, {<<"network", n>> : n \in pair}, Cardinality({p \in meeting : Pair(p) = pair}))
                        : pair \in {Pair(p) : p \in meeting}}
  IN IF rows = {} THEN <<>>
     ELSE <<Finding("network.overlapping-cidrs", "notable", Cardinality(rows), <<>>, rows, {})>>
=============================================================================
