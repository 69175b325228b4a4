----------------------------- MODULE InsightReport -----------------------------
(***************************************************************************)
(* The registered insights and the report of a run over them                *)
(* (internal/insight/registry.go).  No registered insight requires          *)
(* a provider.  Findings are left in the order they are made in, which the  *)
(* code sorts by family and id.                                             *)
(***************************************************************************)
EXTENDS NetworkInsights, HygieneInsights, CostInsights

NeedsNothing == [raw |-> FALSE, topology |-> FALSE, cost |-> FALSE, types |-> {}]
NeedsTypes(types) == [NeedsNothing EXCEPT !.types = types]
NeedsPayload(types) == [NeedsTypes(types) EXCEPT !.raw = TRUE]
NeedsCost == [NeedsNothing EXCEPT !.cost = TRUE]

Requires(id) ==
  CASE id = "network.gateways" -> NeedsTypes(gatewayTypes)
    [] id = "network.ingress-points" -> NeedsTypes(ingressTypes \cup {"v1.Service"})
    [] id = "network.overlapping-cidrs" ->
         NeedsTypes({"oci.vcn", "oci.subnet", "compute.googleapis.com/Subnetwork"})
    [] id = "network.dangling-dns" ->
         [NeedsTypes({"cloudflare.dns_record"}) EXCEPT !.topology = TRUE]
    [] id = "hygiene.namespaces-without-network-policy" -> NeedsTypes({"v1.Pod"})
    [] id = "hygiene.single-replica-workloads" ->
         NeedsPayload({"apps/v1.Deployment", "apps/v1.StatefulSet"})
    [] id = "utilization.pod-requests-vs-usage" ->
         NeedsPayload({"metrics.k8s.io/v1beta1.PodMetrics"})
    [] id = "utilization.node-headroom" -> NeedsPayload({"v1.Node"})
    [] id = "utilization.workloads-without-requests" -> NeedsPayload({"v1.Pod"})
    [] id = "cost.orphaned-spend" -> [NeedsCost EXCEPT !.topology = TRUE]
    [] id \in {"cost.by-dimension", "cost.concentration", "cost.run-rate", "cost.showback",
               "cost.stopped-but-billed", "cost.unpriced"} -> NeedsCost
    [] OTHER -> NeedsNothing

Findings(id, in) ==
  CASE id = "network.dangling-dns" -> danglingDNS(in)
    [] id = "network.gateways" -> networkGateways(in)
    [] id = "network.ingress-points" -> ingressPoints(in)
    [] id = "network.overlapping-cidrs" -> overlappingCIDRs(in)
    [] id = "network.private-addresses" -> privateAddresses(in)
    [] id = "network.public-addresses" -> publicAddresses(in)
    [] id = "cost.by-dimension" -> byDimension(in)
    [] id = "cost.concentration" -> concentration(in)
    [] id = "cost.orphaned-spend" -> orphanedSpend(in)
    [] id = "cost.run-rate" -> runRate(in)
    [] id = "cost.showback" -> showback(in)
    [] id = "cost.stopped-but-billed" -> stoppedBilled(in)
    [] id = "cost.unpriced" -> unpriced(in)
    [] id = "hygiene.ageing-resources" -> ageing(in)
    [] id = "hygiene.expiry" -> expiry(in)
    [] id = "hygiene.namespaces-without-network-policy" -> namespacePolicy(in)
    [] id = "hygiene.ownership" -> ownership(in)
    [] id = "hygiene.recently-created" -> recentlyCreated(in)
    [] id = "hygiene.single-replica-workloads" -> singleReplica(in)
    [] id = "utilization.no-usage-data" -> unmeasurable(in)
    [] id = "utilization.node-headroom" -> nodeHeadroom(in)
    [] id = "utilization.pod-requests-vs-usage" -> podRequestUsage(in)
    [] id = "utilization.workloads-without-requests" -> unrequestedWorkload(in)

\* By family, then by id; a family without a place in the order comes last.
Registered ==
  LET Of(family, ids) == Map(ids, LAMBDA id : [family |-> family, id |-> id])
  IN Of("network",
        <<"network.dangling-dns", "network.gateways", "network.ingress-points",
          "network.overlapping-cidrs", "network.private-addresses", "network.public-addresses">>)
       \o Of("cost",
             <<"cost.by-dimension", "cost.concentration", "cost.orphaned-spend", "cost.run-rate",
               "cost.showback", "cost.stopped-but-billed", "cost.unpriced">>)
       \o Of("hygiene",
             <<"hygiene.ageing-resources", "hygiene.expiry",
               "hygiene.namespaces-without-network-policy", "hygiene.ownership",
               "hygiene.recently-created", "hygiene.single-replica-workloads">>)
       \o Of("utilization",
             <<"utilization.no-usage-data", "utilization.node-headroom",
               "utilization.pod-requests-vs-usage", "utilization.workloads-without-requests">>)

\* The patterns of --only are the ids and the families they match.
selected(insight, only) == only = {} \/ {insight.id, insight.family} \cap only # {}

\* Why an insight cannot run.
unmet(insight, in) ==
  LET needs == Requires(insight.id)
  IN IF needs.raw /\ ~RawAvailable(in) THEN "no raw"
     ELSE IF needs.topology /\ in.edges = <<>> THEN "no edges"
     ELSE IF needs.cost /\ ~Priced(in) THEN "not priced"
     ELSE IF needs.types # {} /\ OfTypes(in, needs.types) = <<>> THEN "no such type"
     ELSE ""

\* Mutant of scopeNotes: nothing is said of what was not collected.
quietNotes(in, findings, complete) == {}

scopeNotes(in, findings, complete) ==
  LET providers == {a.provider : a \in ToSet(in.assets)}
  IN {n \in {"nothing collected", "one provider", "no raw", "no edges", "not priced", "no findings"} :
        CASE n = "nothing collected" -> providers = {}
          [] n = "one provider" -> Cardinality(providers) = 1
          [] n = "no raw" -> in.assets # <<>> /\ ~RawAvailable(in)
          [] n = "no edges" -> in.assets # <<>> /\ in.edges = <<>>
          [] n = "not priced" -> ~Priced(in)
          [] OTHER -> findings = <<>> /\ complete}

\* The report of the insights that were tried, given what they found.
ReportOf(in, tried, made, minSeverity, complete) ==
  LET valid == Filter(made, ValidateFinding)
      shown == Filter(valid, LAMBDA f : Rank(f.severity) >= minSeverity)
  IN [findings |-> shown,
      skipped |-> {[insight |-> i.id, reason |-> unmet(i, in)]
                     : i \in {x \in ToSet(tried) : unmet(x, in) # ""}},
      suppressed |-> Len(made) - Len(valid),
      hidden |-> Len(valid) - Len(shown),
      complete |-> complete,
      notes |-> scopeNotes(in, shown, complete)]

Chosen(only) == Filter(Registered, LAMBDA i : selected(i, only))
FindingsOf(in, tried) ==
  Each(Filter(tried, LAMBDA i : unmet(i, in) = ""), LAMBDA i : Findings(i.id, in))

\* The context is cancelled once `budget` of the selected insights were tried.
Run(in, only, minSeverity, budget) ==
  LET chosen == Chosen(only)
      tried == SubSeq(chosen, 1, Min({budget, Len(chosen)}))
  IN ReportOf(in, tried, FindingsOf(in, tried), minSeverity, Len(tried) = Len(chosen))

\* Zero when there is none.
MaxSeverity(report) == Max({0} \cup {Rank(f.severity) : f \in ToSet(report.findings)})
=============================================================================
