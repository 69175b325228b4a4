------------------------------- MODULE MCReports -------------------------------
(***************************************************************************)
(* Small estates for the commands that judge an inventory.  compute: a      *)
(* cluster with a node on a priced instance and one on no collected         *)
(* machine.  names: DNS records to a load balancer, a NAT gateway, a pod,   *)
(* an address nobody has and a name nobody has.  seats: two currencies,     *)
(* tags to allocate by, and users.  Amounts are small and a month has 10 hours.  *)
(***************************************************************************)
EXTENDS ReportCommands, TLC

NoTags == [k \in {} |-> ""]
Asset(provider, account, type, id, status, tags, raw) ==
  [provider |-> provider, account |-> account, region |-> "", type |-> type, id |-> id,
   name |-> id, status |-> status, tags |-> tags, raw |-> raw, created |-> 0]
Made(a, day) == [a EXCEPT !.created = day]

OCI(type, id, status, tags) == Asset("oci", "tenancy", type, id, status, tags, NoRaw)
Kube(type, id, status, tags, raw) == Asset("kubernetes", "east", type, id, status, tags, raw)
Container(cpu, memory) == [cpu |-> cpu, memory |-> memory, declared |-> cpu > 0]

vm(status) == OCI("oci.compute.instance", "vm1", status, ("shape" :> "E4") @@ ("ocpus" :> "2") @@ ("team" :> "red"))
volume == Made(OCI("oci.block_volume", "vol", "Stopped", "size" :> "50"), 40)
nodeOn == Kube("v1.Node", "n1", "Ready", NoTags,
               ("spec.providerID" :> "oci://vm1") @@ ("status.allocatable.cpu" :> 2000)
                 @@ ("status.allocatable.memory" :> 4096))
nodeAlone == Kube("v1.Node", "n2", "Ready", NoTags,
                  ("status.capacity.cpu" :> 4) @@ ("status.capacity.memory" :> 8)
                    @@ ("status.allocatable.cpu" :> 4000) @@ ("status.allocatable.memory" :> 8192))
podOn(id, node, containers) ==
  Kube("v1.Pod", id, "Running", "namespace" :> "web",
       ("spec.nodeName" :> node) @@ ("spec.containers" :> containers))
metrics == [Kube("metrics.k8s.io/v1beta1.PodMetrics", "m1", "", "namespace" :> "web",
                "containers" :> <<[cpu |-> 10, memory |-> 64]>>)
              EXCEPT !.name = "pod1"]
sample == Kube("apps/v1.Deployment", "dep", "", "namespace" :> "web", "spec.replicas" :> 1)

compute ==
  [p \in {"oci", "kubernetes"} |->
     IF p = "oci" THEN <<vm("RUNNING"), volume>>
     ELSE <<nodeOn, podOn("pod1", "n1", <<Container(1000, 1024)>>), nodeAlone,
            podOn("pod2", "n2", <<Container(0, 0)>>), metrics, sample>>]

Record(id, type, content) ==
  Asset("cloudflare", "acct", "cloudflare.dns_record", id, "",
        ("type" :> type) @@ ("content" :> content) @@ ("zone_name" :> "ex.com"), NoRaw)
names ==
  [p \in {"cloudflare", "kubernetes", "oci"} |->
     CASE p = "cloudflare" ->
            <<Record("lb.ex.com", "A", "10.0.1.3"), Record("nat.ex.com", "A", "10.0.1.7"),
              Record("old.ex.com", "A", "10.0.1.9"), Record("blog.ex.com", "CNAME", "gone.ex.com"),
              Record("app.ex.com", "A", "10.0.1.8")>>
       [] p = "kubernetes" -> <<Kube("v1.Pod", "app", "Running", NoTags, "status.podIP" :> "10.0.1.8")>>
       [] OTHER ->
            <<OCI("oci.load_balancer", "lb", "ACTIVE", "ip_addresses" :> <<"10.0.1.3">>),
              OCI("oci.nat_gateway", "nat", "AVAILABLE", ("nat_ip" :> "10.0.1.7") @@ ("vcn_id" :> "vcn")),
              OCI("oci.subnet", "sn", "AVAILABLE", ("cidr_block" :> "10.0.1.0/24") @@ ("vcn_id" :> "vcn"))>>]

seats ==
  [p \in {"cloudflare", "oci", "tailscale"} |->
     CASE p = "cloudflare" ->
            <<Asset("cloudflare", "acct", "cloudflare.load_balancer", "edge", "", "team" :> "red", NoRaw)>>
       [] p = "oci" ->
            <<vm("RUNNING"), OCI("oci.block_volume", "disk", "AVAILABLE", ("size" :> "20") @@ ("app" :> "db"))>>
       [] OTHER ->
            <<Asset("tailscale", "ts", "tailscale.user", "u1", "", "expires_on" :> "soon", NoRaw),
              Asset("tailscale", "ts", "tailscale.device", "d1", "", "acl_tags" :> <<"tag:web">>, NoRaw)>>]

-----------------------------------------------------------------------------
(* The price book, a user's book over it and the feed to refresh it from.   *)

Rate(id, book, sku, amount) ==
  [id |-> id, book |-> book, sku |-> sku, unit |-> "hour", amount |-> amount, currency |-> "",
   tiered |-> FALSE]
Seat(id, amount) == [Rate(id, "mesh", "", amount) EXCEPT !.unit = "month"]
Books(ids) == Map(ids, LAMBDA id : [id |-> id, vintage |-> 1])

From(tag, shape) == [tag |-> tag, raw |-> "", shape |-> shape, default |-> <<>>, literal |-> <<>>]
Term(rate, from_shape, factor, optional) ==
  [rate |-> rate, from_shape |-> from_shape, optional |-> optional, quantity |-> <<factor>>]
Rule(type, terms) ==
  [type |-> type, basis |-> "", note |-> FALSE, shape_from |-> <<>>, shape_table |-> "",
   terms |-> terms, condition |-> <<>>, else_basis |-> "", else_note |-> FALSE,
   zero_when_status |-> {}, zero_note |-> FALSE]
Unknown(type) == [Rule(type, <<>>) EXCEPT !.basis = "unknown", !.note = TRUE]

computeRule ==
  [Rule("oci.compute.instance",
        <<Term("", "ocpu_rate", From("ocpus", "default_ocpu"), FALSE),
          Term("", "memory_rate", From("memory_gb", "default_memory_gb"), TRUE)>>)
     EXCEPT !.shape_from = <<From("shape", "")>>, !.shape_table = "oci",
            !.zero_when_status = {"stopped"}, !.zero_note = TRUE]

embedded ==
  [version |-> 1, currency |-> "USD", hours |-> 10,
   books |-> Books(<<"oci", "kubernetes", "mesh">>),
   rates |-> <<Rate("e4.ocpu", "oci", "B1", 3), Rate("e4.memory", "oci", "", 1),
               Rate("block", "oci", "B2", 2),
               Rate("k8s.fallback.cpu", "kubernetes", "", 5), Rate("k8s.fallback.ram", "kubernetes", "", 1),
               Seat("ts.seat.standard", 6), Seat("ts.tagged_resource", 1)>>,
   rules |-> <<computeRule, Rule("oci.block_volume", <<Term("block", "", From("size", ""), FALSE)>>),
               Unknown("v1.Node"), Unknown("v1.Pod"), Unknown("cloudflare.load_balancer")>>,
   shapes |-> "oci" :> ("E4" :> [ocpu_rate |-> "e4.ocpu", memory_rate |-> "e4.memory", flexible |-> TRUE,
                                 default_ocpu |-> 1, default_memory_gb |-> 4, note |-> FALSE])]

\* A user's contract: load balancers in another currency.
contract ==
  [version |-> 1, currency |-> "", hours |-> 0, books |-> Books(<<"own">>),
   rates |-> <<[Seat("edge", 9) EXCEPT !.book = "own", !.currency = "EUR"]>>,
   rules |-> <<Rule("cloudflare.load_balancer",
                    <<Term("edge", "", [From("", "") EXCEPT !.literal = <<1>>], FALSE)>>)>>,
   shapes |-> NoRaw]

\* A rule of a rate that is nowhere.
broken == [contract EXCEPT !.rates = <<>>]

Price(value, from) == [currency |-> "USD", model |-> "PAY_AS_YOU_GO", value |-> value, rangeMin |-> from]
feed == [lastUpdated |-> 45, products |-> ("B1" :> <<Price(7, 0)>>) @@ ("B2" :> <<Price(0, 0), Price(4, 9)>>)]
shortFeed == [feed EXCEPT !.products = "B1" :> <<Price(7, 0)>>]

-----------------------------------------------------------------------------
(* Requests.                                                               *)

Insights(filter, only, severity, failOn, cost, budget) ==
  [command |-> "insights", filter |-> filter, only |-> only, severity |-> severity, failOn |-> failOn,
   exitCode |-> TRUE, cost |-> cost, budget |-> budget, docs |-> <<embedded, contract>>,
   refresh |-> FALSE, feed |-> <<>>, hours |-> 0]
NotOCI == {[isTag |-> FALSE, key |-> "provider", matches |-> {"oci"}, negate |-> TRUE]}

Cost(groupBy, docs, download, hours) ==
  [command |-> "cost", filter |-> {}, groupBy |-> groupBy, docs |-> docs, refresh |-> download # <<>>,
   feed |-> download, hours |-> hours]

NoAssert == [required |-> {}, forbidden |-> {}, tags |-> NoRaw, status |-> <<>>, names |-> <<>>]
PolicyRule(name, severity, fields, assert) ==
  [name |-> name, severity |-> severity, match |-> [fields |-> fields, tags |-> NoRaw], assert |-> assert]
owned == PolicyRule("owned", "error", "type" :> << {"oci.compute.instance", "oci.block_volume"} >>,
                    << [NoAssert EXCEPT !.required = {"team"}] >>)
unused == PolicyRule("unused", "", "status" :> << {"stopped"} >>, <<>>)
named == PolicyRule("named", "critical", "provider" :> << {"tailscale"} >>,
                    << [NoAssert EXCEPT !.tags = "expires_on" :> << {"soon"} >>] >>)
hollow == PolicyRule("hollow", "error", "type" :> << {"v1.Pod"} >>, <<NoAssert>>)

Check(filter, files, failOn) ==
  [command |-> "check", filter |-> filter, files |-> files, failOn |-> failOn, exitCode |-> TRUE]
Diff(baseline, providers) ==
  [command |-> "diff", baseline |-> baseline, providers |-> providers, exitCode |-> TRUE]
before == <<vm("STOPPED"), volume>>
all == <<vm("RUNNING"), volume, nodeOn, nodeAlone, metrics, sample,
         podOn("pod1", "n1", <<Container(1000, 1024)>>), podOn("pod2", "n2", <<Container(0, 0)>>)>>

MCRequests ==
  {Insights({}, {}, 1, 3, TRUE, 23), Insights({}, {"hygiene", "network"}, 3, 4, FALSE, 23),
   Insights({}, {}, 1, 3, FALSE, 3), Insights(NotOCI, {}, 1, 2, TRUE, 23),
   Cost("provider", <<embedded>>, <<>>, 0), Cost("team", <<embedded, contract>>, <<feed>>, 24),
   Cost("type", <<embedded>>, <<shortFeed>>, 0), Cost("provider", <<embedded, broken>>, <<>>, 0),
   Check({}, <<<<owned>>, <<unused>>>>, "error"), Check(NotOCI, <<<<owned, unused, named>>>>, "info"),
   Check({}, <<<<owned>>, <<owned>>>>, "error"), Check({}, <<<<hollow>>>>, "info"),
   Diff(before, {"oci"}), Diff(all, {"oci", "kubernetes"})}

-----------------------------------------------------------------------------
(* The values of the constants.                                            *)

MCToday == 50
MCEstates == {compute, names, seats}
MCInputOrder ==
  <<<<"cloudflare", "app.ex.com">>, <<"cloudflare", "blog.ex.com">>,
    <<"cloudflare", "lb.ex.com">>, <<"cloudflare", "nat.ex.com">>,
    <<"cloudflare", "old.ex.com">>, <<"cloudflare", "edge">>, <<"kubernetes", "app">>,
    <<"kubernetes", "dep">>, <<"kubernetes", "m1">>, <<"kubernetes", "n1">>,
    <<"kubernetes", "n2">>, <<"kubernetes", "pod1">>, <<"kubernetes", "pod2">>,
    <<"oci", "disk">>, <<"oci", "vol">>, <<"oci", "vm1">>, <<"oci", "lb">>,
    <<"oci", "nat">>, <<"oci", "sn">>, <<"tailscale", "d1">>, <<"tailscale", "u1">>>>

MCLowerCase == ("RUNNING" :> "running") @@ ("Stopped" :> "stopped") @@ ("ACTIVE" :> "active")
                 @@ ("AVAILABLE" :> "available")
MCUndotted == "ex.com." :> "ex.com"
MCStatusOf == MCLowerCase
MCNumberOf == ("2" :> 2) @@ ("50" :> 50) @@ ("20" :> 20)
MCInstanceIn == "oci://vm1" :> "vm1"
MCTables == <<"oci">>
MCListTags == {"ip_addresses", "cidr_blocks", "acl_tags"}
MCNameOrder == <<"EUR", "USD", "app", "expires_on", "size", "team">>
MCNormalKey == "expires_on" :> "expireson"
MCExpiryOf == "soon" :> 60
MCAddress(n) == [n |-> n, class |-> "private", block |-> "10.0.0.0/8"]
MCAddressOf == ("10.0.1.3" :> MCAddress(3)) @@ ("10.0.1.7" :> MCAddress(7)) @@ ("10.0.1.8" :> MCAddress(8)) @@ ("10.0.1.9" :> MCAddress(9))
MCRangeOf == "10.0.1.0/24" :> [first |-> 1, last |-> 255, bits |-> 24, private |-> TRUE, short |-> FALSE]
MCDomainsOf == "gone.ex.com" :> <<"gone.ex.com", "ex.com">>
MCBare == "*.ex.com" :> "ex.com"
MCDerivedTags == {"cost.monthly"}
=============================================================================
