------------------------------- MODULE MCGraph --------------------------------
(***************************************************************************)
(* Small estates for the graph commands.  web: a name and an alias of it    *)
(* that lead over an Ingress to a pod.  cluster: a Service published on an  *)
(* address behind a load balancer, with a route and a network policy.       *)
(* mesh: NetBird peers, a group, a two-way rule and a name.  tailnet: a     *)
(* Tailscale rule to a tag.  network: OCI containment and a zone's rules.   *)
(***************************************************************************)
EXTENDS GraphCommands, TLC

NoTags == [k \in {} |-> ""]
Asset(provider, account, type, id, name, tags, raw) ==
  [provider |-> provider, account |-> account, region |-> "", type |-> type, id |-> id,
   name |-> name, status |-> "", tags |-> tags, raw |-> raw, created |-> 0]

Record(id, name, type, content) ==
  Asset("cloudflare", "acct", "cloudflare.dns_record", id, name,
        ("type" :> type) @@ ("content" :> content), NoRaw)
Kube(type, id, name, tags, raw) ==
  Asset("kubernetes", "east", type, id, name, ("namespace" :> "web") @@ tags, raw)
Pod(id, label) == Kube("v1.Pod", id, id, "app" :> label, NoRaw)
Service(id, label, ips) ==
  Kube("v1.Service", id, id, NoTags,
       ("selector" :> (("app" :> label) @@ ("namespace" :> "prod")))
         @@ (IF ips = {} THEN NoRaw ELSE "externalIPs" :> ips))

MCLowerCase == ("EX.com." :> "ex.com.") @@ ("Blog.ex.com" :> "blog.ex.com")
MCUndotted == "ex.com." :> "ex.com"

ingress ==
  Kube("networking.k8s.io/v1.Ingress", "ing", "ing", NoTags,
       ("ingressIPs" :> {"1.1.1.1"})
         @@ ("rules" :> << [host |-> "ex.com", paths |-> << [service |-> "api", port |-> 80],
                                                            [service |-> "gone", port |-> 80] >>] >>))

web == {Record("r1", "ex.com", "A", "1.1.1.1"), Record("r2", "Blog.ex.com", "CNAME", "EX.com."),
        ingress, Service("api", "api", {}), Pod("pod1", "api")}

policy ==
  LET Peer(scope, label) == [scope |-> scope, expressions |-> FALSE, labels |-> "app" :> label]
  IN Kube("networking.k8s.io/v1.NetworkPolicy", "np", "np", NoTags,
          ("podSelector" :> ("app" :> "db"))
            @@ ("ingress" :> << [peers |-> <<Peer("local", "api"), Peer("ipBlock", "api")>>,
                                 ports |-> <<5432>>] >>)
            @@ ("egress" :> << [peers |-> <<Peer("all", "api")>>, ports |-> <<53, 80>>] >>))

route ==
  Kube("gateway.networking.k8s.io/v1.HTTPRoute", "rt", "rt", NoTags,
       ("hostnames" :> <<"db.ex.com">>)
         @@ ("rules" :> << [backendRefs |-> << [name |-> "db", namespace |-> "", port |-> 5432] >>] >>))

lb == Asset("oci", "tenancy", "oci.load_balancer", "lb", "lb",
            "ip_addresses" :> <<"2.2.2.2", "3.3.3.3">>, "listeners" :> {})

cluster == {lb, Service("db", "db", {"2.2.2.2"}), Pod("pod2", "db"), Pod("pod1", "api"), policy}
routes == {route, Service("db", "db", {}), Pod("pod2", "db"), policy}

Peer(id, ip, groups) ==
  Asset("netbird", "nb", "netbird.peer", id, id,
        ("ip" :> ip) @@ ("group_ids" :> groups) @@ ("hostname" :> id), NoRaw)
mesh == {Peer("p1", "100.1", <<"g1">>), Peer("p2", "100.2", <<"g1", "g2">>),
         Asset("netbird", "nb", "netbird.group", "g3", "empty", NoTags, NoRaw),
         Asset("netbird", "nb", "netbird.policy_rule", "pr", "pr",
               ("action" :> "accept") @@ ("bidirectional" :> "true") @@ ("ports" :> <<22>>)
                 @@ ("sources" :> <<"g1">>) @@ ("destinations" :> <<"g2", "g3">>), NoRaw),
         Record("r3", "p2.ex.com", "A", "100.2")}

Selector(form, base, port) == [form |-> form, base |-> base, port |-> port]
tailnet ==
  {Asset("tailscale", "ts", "tailscale.device", "d1", "d1", "acl_tags" :> <<"tag:web">>, NoRaw),
   Asset("tailscale", "ts", "tailscale.user", "u1", "Ann", "login_name" :> "ann@ex.com", NoRaw),
   Asset("tailscale", "ts", "tailscale.acl_host", "h1", "store", "ip" :> "100.9", NoRaw),
   Asset("tailscale", "ts", "tailscale.acl_rule", "ru", "ru",
         ("action" :> "accept")
           @@ ("src" :> <<Selector("user", "ann@ex.com", 0), Selector("wildcard", "", 0)>>)
           @@ ("dst" :> <<Selector("tag", "tag:web", 443), Selector("bare", "store", 443)>>), NoRaw)}

network ==
  {Asset("oci", "tenancy", "oci.vcn", "vcn", "vcn", NoTags, NoRaw),
   Asset("oci", "tenancy", "oci.subnet", "sn", "sn", "vcn_id" :> "vcn", NoRaw),
   Asset("oci", "tenancy", "oci.network_load_balancer", "nlb", "nlb", "subnet_id" :> "sn", NoRaw),
   Asset("cloudflare", "acct", "cloudflare.zone", "z", "ex.com", NoTags, NoRaw),
   Asset("cloudflare", "acct", "cloudflare.ruleset", "rs", "rs", "zone_id" :> "z", NoRaw)}

MCPools == {web, cluster, routes, mesh, tailnet, network}
MCOrder ==
  <<<<"cloudflare", "r1">>, <<"cloudflare", "r2">>, <<"cloudflare", "r3">>,
    <<"cloudflare", "rs">>, <<"cloudflare", "z">>,
    <<"kubernetes", "api">>, <<"kubernetes", "db">>, <<"kubernetes", "ing">>,
    <<"kubernetes", "np">>, <<"kubernetes", "pod1">>, <<"kubernetes", "pod2">>,
    <<"kubernetes", "rt">>, <<"netbird", "g3">>, <<"netbird", "p1">>, <<"netbird", "p2">>,
    <<"netbird", "pr">>, <<"oci", "lb">>, <<"oci", "nlb">>, <<"oci", "sn">>, <<"oci", "vcn">>,
    <<"tailscale", "d1">>, <<"tailscale", "h1">>, <<"tailscale", "ru">>, <<"tailscale", "u1">>>>

\* Two names for one host inside the cluster, and a third name beside them.
siblings ==
  {Record("r1", "ex.com", "CNAME", "in.ex.com"), Record("r2", "blog.ex.com", "CNAME", "in.ex.com"),
   Record("r3", "p2.ex.com", "A", "100.2"),
   Kube("networking.k8s.io/v1.Ingress", "ing", "ing", NoTags,
        "rules" :> << [host |-> "in.ex.com", paths |-> << [service |-> "api", port |-> 80] >>] >>),
   Service("api", "api", {})}
MCSiblings == {siblings}

\* Two names, one for a load balancer and one for a Service; MCTraced asks for
\* the orphans of both.
published ==
  {Record("r1", "ex.com", "A", "2.2.2.2"), Record("r2", "blog.ex.com", "A", "1.1.1.1"), lb,
   Service("api", "api", {"1.1.1.1"})}
MCPublished == {published}

-----------------------------------------------------------------------------

TopologyOf(hostnames, detail, groupBy, orphans, filter) ==
  [command |-> "topology", hostnames |-> hostnames, detail |-> detail, groupBy |-> groupBy,
   orphans |-> orphans, includeOrphans |-> hostnames # {}, filter |-> filter]

Opts(hops, paths, kinds, deny) ==
  [maxHops |-> hops, maxPaths |-> paths, kinds |-> kinds, includeDeny |-> deny]
ReachOf(from, to, exposed, opts) ==
  [command |-> "reach", from |-> from, to |-> to, exposed |-> exposed, opts |-> opts,
   exitCode |-> TRUE, filter |-> {}]

NoSnapshotPods == {[key |-> "type", isTag |-> FALSE, negate |-> TRUE, matches |-> {"v1.Pod"}]}
AllIds == {k[2] : k \in ToSet(MCOrder)}

MCRequests ==
  {TopologyOf({"blog.ex.com", "p2.ex.com"}, "", "", FALSE, {}),
   TopologyOf({"ex.com"}, "", "", FALSE, {}),
   TopologyOf({}, "medium", "account", FALSE, {}),
   TopologyOf({}, "high", "", FALSE, NoSnapshotPods),
   TopologyOf({}, "", "type", TRUE, {}),
   TopologyOf({}, "high", "", TRUE, {}),
   TopologyOf({}, "most", "", FALSE, {}),
   ReachOf({"r2", "lb", "p1", "u1", "rs", "rt"}, {}, FALSE, Opts(0, 0, {}, FALSE)),
   ReachOf({"r2", "lb", "p1", "u1", "nlb"}, {}, FALSE, Opts(2, 2, {}, TRUE)),
   ReachOf({}, {"pod1", "p2", "store", "vcn"}, FALSE, Opts(6, 2, {}, FALSE)),
   ReachOf({"r1", "r2", "p1", "u1", "db"}, {"pod1", "p2", "d1", "np"}, FALSE, Opts(0, 0, {}, FALSE)),
   ReachOf({"p1"}, AllIds, FALSE, Opts(6, 25, {"traffic-allow"}, FALSE)),
   ReachOf({}, {}, TRUE, Opts(0, 0, {}, FALSE)),
   ReachOf({}, {}, FALSE, Opts(0, 0, {}, FALSE))}
MCTraced == {TopologyOf({"ex.com", "blog.ex.com"}, "", "", TRUE, {})}
MCExposed == {ReachOf({}, {}, TRUE, Opts(0, 0, {}, FALSE))}
=============================================================================
