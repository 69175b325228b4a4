------------------------------ MODULE Topology -------------------------------
(***************************************************************************)
(* The graph internal/topology infers from a collected inventory: the       *)
(* index over the assets, one resolver per relationship, Build, and the     *)
(* two ways to thin the graph out.  assets is the sequence in which the     *)
(* audit delivered them; a resolver yields a sequence of edges.             *)
(***************************************************************************)
EXTENDS Assets

Edge(from, to, kind, hostname, port, confidence) ==
  [from |-> AsRef(from), to |-> AsRef(to), kind |-> kind,
   hostname |-> hostname, port |-> port, confidence |-> confidence]

Exact(from, to, kind) == Edge(from, to, kind, "", 0, "exact")

-----------------------------------------------------------------------------
(* The index.                                                              *)

normalizeHost(h) == Mapped(Undotted, Mapped(LowerCase, h))
Normalized(hosts) == {normalizeHost(h) : h \in hosts \ {""}}

\* What an asset answers on, and what a DNS record points at.  Of the payload
\* of a Kubernetes object: the addresses and names of status.loadBalancer,
\* spec.externalIPs, and the hosts of an Ingress's rules.
kubeExternalIPs(raw) ==
  Get(raw, "externalIPs", {}) \cup Get(raw, "ingressIPs", {})
kubeExternalHosts(raw) == Get(raw, "ingressHosts", {})
kubeIngressHosts(raw) ==
  {Get(rule, "host", "") : rule \in ToSet(Get(raw, "rules", <<>>))}

AssetAddresses(a) ==
  LET Owns(ips, hosts) ==
        [ips |-> ips \ {""}, hosts |-> Normalized(hosts), targets |-> {}]
      Pointing == {Tag(a, "content")} \ {""}
  IN CASE a.type = "cloudflare.dns_record" ->
            [Owns({}, {a.name}) EXCEPT
               !.targets = CASE Tag(a, "type") \in {"A", "AAAA"} -> Pointing
                             [] Tag(a, "type") = "CNAME" -> Normalized(Pointing)
                             [] OTHER -> {}]
       [] a.type = "oci.load_balancer" -> Owns(ToSet(TagList(a, "ip_addresses")), {})
       [] a.type \in {"netbird.peer", "tailscale.device", "tailscale.acl_host"} ->
            Owns({Tag(a, key) : key \in {"ip", "ipv6", "connection_ip"}},
                 {Tag(a, key) : key \in {"dns_label", "dns_name", "hostname"}})
       [] OTHER ->
            CASE a.provider = "gcp" -> Owns(ToSet(TagList(a, "ip_addresses")), {})
              [] a.provider = "kubernetes" ->
                   Owns(kubeExternalIPs(a.raw),
                        kubeExternalHosts(a.raw) \cup kubeIngressHosts(a.raw))
              [] OTHER -> Owns({}, {})

ByType(assets, type) == Filter(assets, LAMBDA a : a.type = type)

\* Maps filled in collection order: the last asset with a key has it.
LastWith(assets, Test(_)) ==
  LET found == Filter(assets, Test) IN IF found = <<>> THEN <<>> ELSE <<Last(found)>>

\* Mutant of ByAddress: the maps keep one asset for an address.
ByAddressOverwritten(assets, key) ==
  LastWith(assets, LAMBDA a : LET ad == AssetAddresses(a)
                              IN key \in ad.ips \cup ad.hosts \cup ad.targets)

\* byIP and byHostname flatten what an asset answers on and what it points at.
\* They are one lookup here: no text is an address and a hostname.
ByAddress(assets, key) ==
  Filter(assets, LAMBDA a : LET ad == AssetAddresses(a)
                            IN key \in ad.ips \cup ad.hosts \cup ad.targets)

\* byID.
ById(assets, id) == LastWith(assets, LAMBDA a : a.id = id)

-----------------------------------------------------------------------------
(* The request path.                                                       *)

\* An address is matched with what answers there, other records left out; a
\* CNAME with whatever carries the name, records included.
dnsMatches(assets, rec) ==
  CASE Tag(rec, "content") # "" /\ Tag(rec, "type") \in {"A", "AAAA"} ->
         Filter(ByAddress(assets, Tag(rec, "content")),
                LAMBDA m : m.type # "cloudflare.dns_record")
    [] Tag(rec, "content") # "" /\ Tag(rec, "type") = "CNAME" ->
         ByAddress(assets, normalizeHost(Tag(rec, "content")))
    [] OTHER -> <<>>

dnsToTarget(assets) ==
  Each(ByType(assets, "cloudflare.dns_record"), LAMBDA rec :
    Map(Filter(dnsMatches(assets, rec), LAMBDA m : m.id # rec.id),
        LAMBDA m : Edge(rec, m, "dns", rec.name, 0, "heuristic")))

wafBinding(assets) ==
  LET candidates == <<"cloudflare.ruleset", "cloudflare.access_app",
                      "cloudflare.tunnel", "cloudflare.page_rule">>
      Zone(a) == IF Tag(a, "zone_id") = "" THEN <<>> ELSE ById(assets, Tag(a, "zone_id"))
  IN Each(candidates, LAMBDA t : Each(ByType(assets, t), LAMBDA a :
       Map(Zone(a), LAMBDA zone : Exact(a, zone, "waf"))))

lbToGateway(assets) ==
  Each(ByType(assets, "oci.load_balancer"), LAMBDA lb :
    Each(TagList(lb, "ip_addresses"), LAMBDA ip :
      Map(Filter(ByAddress(assets, ip),
                 LAMBDA t : t.id # lb.id /\ t.provider = "kubernetes"),
          LAMBDA t : Edge(lb, t, "lb-backend", "", 0, "heuristic"))))

\* A backend is looked up by namespace and name alone.
ServiceNamed(assets, ns, name) ==
  LastWith(assets, LAMBDA a : a.type = "v1.Service" /\ Tag(a, "namespace") = ns /\ a.name = name)

ingressBackendEdges(assets, ing) ==
  Each(Get(ing.raw, "rules", <<>>), LAMBDA rule :
    Each(rule.paths, LAMBDA p :
      Map(ServiceNamed(assets, Tag(ing, "namespace"), p.service),
          LAMBDA svc : Edge(ing, svc, "gateway-route", rule.host, p.port, "exact"))))

httpRouteBackendEdges(assets, rt) ==
  LET hostnames == Get(rt.raw, "hostnames", <<>>)
      Host == IF hostnames = <<>> THEN "" ELSE hostnames[1]
  IN Each(Get(rt.raw, "rules", <<>>), LAMBDA rule :
       Each(rule.backendRefs, LAMBDA br :
         Map(ServiceNamed(assets, IF br.namespace = "" THEN Tag(rt, "namespace") ELSE br.namespace,
                          br.name),
             LAMBDA svc : Edge(rt, svc, "gateway-route", Host, br.port, "exact"))))

HTTPRoutes == {"gateway.networking.k8s.io/v1.HTTPRoute",
               "gateway.networking.k8s.io/v1beta1.HTTPRoute"}

gatewayToService(assets) ==
  Each(Filter(assets, LAMBDA a : a.provider = "kubernetes"), LAMBDA a :
    CASE a.type = "networking.k8s.io/v1.Ingress" -> ingressBackendEdges(assets, a)
      [] a.type \in HTTPRoutes -> httpRouteBackendEdges(assets, a)
      [] OTHER -> <<>>)

labelsMatch(sel, tags) == \A k \in DOMAIN sel : Get(tags, k, "") = sel[k]
Without(f, key) == [k \in DOMAIN f \ {key} |-> f[k]]

PodsOf(assets, account) ==
  Filter(ByType(assets, "v1.Pod"), LAMBDA pod : pod.account = account)
PodsIn(assets, account, ns) ==
  Filter(PodsOf(assets, account), LAMBDA pod : Tag(pod, "namespace") = ns)

\* The provider's pseudo-tag "namespace" hides a label of that name, so the
\* selector's is dropped; a selector with nothing else selects nothing.
serviceToWorkload(assets) ==
  Each(ByType(assets, "v1.Service"), LAMBDA svc :
    LET selector == Without(Get(svc.raw, "selector", NoRaw), "namespace")
    IN IF DOMAIN selector = {} THEN <<>>
       ELSE Map(Filter(PodsIn(assets, svc.account, Tag(svc, "namespace")),
                       LAMBDA pod : labelsMatch(selector, pod.tags)),
                LAMBDA pod : Exact(svc, pod, "service-backend")))

ociContainmentRules ==
  <<<<"oci.subnet", "vcn_id">>, <<"oci.nat_gateway", "vcn_id">>,
    <<"oci.internet_gateway", "vcn_id">>, <<"oci.service_gateway", "vcn_id">>,
    <<"oci.local_peering_gateway", "vcn_id">>, <<"oci.oke.cluster", "vcn_id">>,
    <<"oci.network_load_balancer", "subnet_id">>>>

ociNetworkContainment(assets) ==
  Each(ociContainmentRules, LAMBDA rule : Each(ByType(assets, rule[1]), LAMBDA a :
    LET parent == IF Tag(a, rule[2]) = "" THEN <<>> ELSE ById(assets, Tag(a, rule[2]))
    IN Map(Filter(parent, LAMBDA p : p.id # a.id),
           LAMBDA p : Exact(a, p, "network-containment"))))

-----------------------------------------------------------------------------
(* Who may talk to whom: source --> rule --> destination.                  *)

throughRule(rule, sources, destinations, kind, port) ==
  LET Other(s) == Filter(s, LAMBDA a : a.id # rule.id)
  IN IF sources = <<>> \/ destinations = <<>> THEN <<>>
     ELSE Map(Other(sources), LAMBDA s : Edge(s, rule, kind, "", port, "exact"))
            \o Map(Other(destinations), LAMBDA d : Edge(rule, d, kind, "", port, "exact"))

singlePort(ports) == IF Len(ports) = 1 /\ ports[1] \in 1..65535 THEN ports[1] ELSE 0

Members(assets, type, key, group) ==
  Filter(ByType(assets, type), LAMBDA a : group \in ToSet(TagList(a, key)))

\* An empty or unlisted group stands for itself.
expandGroups(assets, groupIDs) ==
  Each(groupIDs, LAMBDA gid :
    LET members == Members(assets, "netbird.peer", "group_ids", gid)
    IN IF members # <<>> THEN members ELSE ById(assets, gid))

netbirdPolicyFlow(assets) ==
  Each(ByType(assets, "netbird.policy_rule"), LAMBDA rule :
    LET srcs == expandGroups(assets, TagList(rule, "sources"))
        dsts == expandGroups(assets, TagList(rule, "destinations"))
        Flow(s, d) == throughRule(rule, s, d, TrafficEdgeKind(Tag(rule, "action")),
                                  singlePort(TagList(rule, "ports")))
    IN Flow(srcs, dsts)
         \o IF Tag(rule, "bidirectional") = "true" THEN Flow(dsts, srcs) ELSE <<>>)

NamedOfType(assets, type, name) ==
  Filter(ByType(assets, type), LAMBDA a : a.name = name)

SelectorForms == {"wildcard", "tag", "group", "user", "bare"}

\* A selector is parsed: its form, its base and the numeric port it pins (0 if
\* none).  "*" and autogroups are of the form "wildcard".
resolveTailscaleSelector(assets, sel) ==
  LET base == sel.base
      devices == Members(assets, "tailscale.device", "acl_tags", base)
      hosts == NamedOfType(assets, "tailscale.acl_host", base)
  IN CASE sel.form = "wildcard" -> <<>>
       [] sel.form = "tag" ->
            IF devices # <<>> THEN devices ELSE NamedOfType(assets, "tailscale.acl_tag", base)
       [] sel.form = "group" -> NamedOfType(assets, "tailscale.acl_group", base)
       [] sel.form = "user" ->
            LastWith(assets, LAMBDA a :
              /\ a.type = "tailscale.user" /\ Tag(a, "login_name") # ""
              /\ Mapped(LowerCase, Tag(a, "login_name")) = Mapped(LowerCase, base))
       [] sel.form = "bare" ->
            IF hosts # <<>> THEN hosts
            ELSE LET named == ByAddress(assets, normalizeHost(base))
                 IN IF named # <<>> THEN named ELSE ByAddress(assets, base)

\* The port of a rule: kept while the destinations seen so far agree on it.
PortOf(selectors) ==
  FoldLeft(LAMBDA port, sel :
             LET p == IF sel.form = "wildcard" THEN 0 ELSE sel.port
             IN IF p # 0 /\ port = 0 THEN p ELSE IF p # port THEN 0 ELSE port,
           0, selectors)

tailscaleACLFlow(assets) ==
  Each(ByType(assets, "tailscale.acl_rule"), LAMBDA rule :
    LET Assets(key) ==
          Each(TagList(rule, key), LAMBDA sel : resolveTailscaleSelector(assets, sel))
    IN throughRule(rule, Assets("src"), Assets("dst"),
                   TrafficEdgeKind(Tag(rule, "action")), PortOf(TagList(rule, "dst"))))

matchPods(candidates, sel) ==
  Filter(candidates, LAMBDA pod : labelsMatch(Without(sel, "namespace"), pod.tags))

\* A peer is an address block, or pods by label in the policy's namespace
\* ("local") or in every one ("all"), or in namespaces by label ("labelled").
\* Peers with expressions are skipped.
resolveNetPolPeers(assets, pol, peers) ==
  Each(peers, LAMBDA peer :
    LET scope == IF peer.scope = "all" THEN PodsOf(assets, pol.account)
                 ELSE PodsIn(assets, pol.account, Tag(pol, "namespace"))
    IN IF peer.scope \in {"ipBlock", "labelled"} \/ peer.expressions THEN <<>>
       ELSE matchPods(scope, peer.labels))

kubeNetworkPolicyFlow(assets) ==
  Each(ByType(assets, "networking.k8s.io/v1.NetworkPolicy"), LAMBDA pol :
    LET local == PodsIn(assets, pol.account, Tag(pol, "namespace"))
        selected == matchPods(local, Get(pol.raw, "podSelector", NoRaw))
        Flow(s, d, rule) == throughRule(pol, s, d, "traffic-allow", singlePort(rule.ports))
    IN IF ~HasRaw(pol) \/ selected = <<>> THEN <<>>
       ELSE Each(Get(pol.raw, "ingress", <<>>), LAMBDA r :
                   Flow(resolveNetPolPeers(assets, pol, r.peers), selected, r))
              \o Each(Get(pol.raw, "egress", <<>>), LAMBDA r :
                   Flow(selected, resolveNetPolPeers(assets, pol, r.peers), r)))

-----------------------------------------------------------------------------
(* The graph.                                                              *)

edgeKey(e) == <<refKey(e.from), refKey(e.to), e.kind>>

\* Of equal edges the first stays: the order of the resolvers is a priority.
dedupEdges(edges) == FirstOfEach(edges, edgeKey)

Build(assets) ==
  [nodes |-> assets,
   edges |-> dedupEdges(
     dnsToTarget(assets) \o wafBinding(assets) \o lbToGateway(assets)
       \o gatewayToService(assets) \o serviceToWorkload(assets)
       \o ociNetworkContainment(assets) \o kubeNetworkPolicyFlow(assets)
       \o tailscaleACLFlow(assets) \o netbirdPolicyFlow(assets))]

Ends(e) == {refKey(e.from), refKey(e.to)}
Incident(topo) == UNION {Ends(e) : e \in ToSet(topo.edges)}

\* Mutant of Component: the edges are followed in their direction only.
ComponentDownstream(topo, seeds) ==
  LET kept[n \in 0..Len(topo.nodes)] ==
        IF n = 0 THEN seeds
        ELSE kept[n - 1] \cup {refKey(e.to) : e \in {x \in ToSet(topo.edges) :
                                                       refKey(x.from) \in kept[n - 1]}}
  IN kept[Len(topo.nodes)]

\* A round of the search: the first of the queue, its unmarked neighbours.
Visit(topo, search) ==
  LET near == UNION {Ends(e) : e \in {x \in ToSet(topo.edges) : search.queue[1] \in Ends(x)}}
      new == near \ search.keep
  IN IF search.queue = <<>> THEN search
     ELSE [keep |-> search.keep \cup new, queue |-> Tail(search.queue) \o SetToSeq(new)]

\* The keys that a breadth-first search over the edges, taken as undirected,
\* marks from the given ones; a key is queued once at most.
Component(topo, seeds) ==
  LET rounds == Cardinality(seeds \cup Incident(topo))
      after[n \in 0..rounds] ==
        IF n = 0 THEN [keep |-> seeds, queue |-> SetToSeq(seeds)]
        ELSE Visit(topo, after[n - 1])
  IN after[rounds].keep

FilterByHostname(topo, hostnames) ==
  LET wanted == {Mapped(LowerCase, h) : h \in hostnames}
      seeds == {nodeKey(a) : a \in {n \in ToSet(topo.nodes) :
                  n.type = "cloudflare.dns_record" /\ Mapped(LowerCase, n.name) \in wanted}}
      keep == Component(topo, seeds)
  IN IF hostnames = {} THEN topo
     ELSE [nodes |-> Filter(topo.nodes, LAMBDA a : nodeKey(a) \in keep),
           edges |-> Filter(topo.edges, LAMBDA e : Ends(e) \subseteq keep)]

DropOrphans(topo) ==
  [topo EXCEPT !.nodes = Filter(@, LAMBDA a : nodeKey(a) \in Incident(topo))]
=============================================================================
