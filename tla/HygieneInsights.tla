--------------------------- MODULE HygieneInsights ---------------------------
(***************************************************************************)
(* Leftovers, drift and missing metadata (internal/insight/hygiene.go), and *)
(* what clusters reserve and use (internal/insight/utilization.go).  Times  *)
(* are in days.                                                             *)
(***************************************************************************)
EXTENDS InsightInput

CONSTANTS
  NormalKey,  \* tag keys |-> their last part in lower case, letters and digits only
  ExpiryOf    \* the texts that parse as a time |-> the day

-----------------------------------------------------------------------------
(* Ownership.                                                              *)

DefaultOwnerTagKeys ==
  {"owner", "team", "env", "environment", "costcenter", "costcentre",
   "service", "project", "contact", "businessunit"}
hygieneUnsetValues ==
  {"", "-", "n/a", "na", "none", "null", "nil", "unknown", "unassigned", "tbd", "todo",
   "changeme", "default"}

owns(a) ==
  {k \in DOMAIN a.tags \ ListTags :
     /\ Mapped(NormalKey, k) \in DefaultOwnerTagKeys
     /\ Mapped(LowerCase, a.tags[k]) \notin hygieneUnsetValues}

\* A type is held to the convention only where one of its assets follows it.
ownership(in) ==
  LET kinds == {<<a.provider, a.type>> : a \in ToSet(in.assets)}
      Of(kind) == Filter(in.assets, LAMBDA a : <<a.provider, a.type>> = kind)
      Gap(kind) == Filter(Of(kind), LAMBDA a : owns(a) = {})
      uneven == {k \in kinds : Len(Gap(k)) \in 1..(Len(Of(k)) - 1)}
      missing == SumOf(SetToSeq(uneven), LAMBDA k : Len(Gap(k)))
      providers == {a.provider : a \in ToSet(in.assets)}
      Count(p) == Len(Filter(in.assets, LAMBDA a : a.provider = p))
      nobody == \A k \in kinds : Len(Gap(k)) = Len(Of(k))
  IN CASE in.assets # <<>> /\ nobody ->
            << Finding("hygiene.no-ownership-convention", "notable", Len(in.assets), <<>>,
                       {Row(<<p>>, {}, Count(p)) : p \in providers}, {}) >>
       [] ~nobody /\ missing > 0 ->
            << Finding("hygiene.unowned-resources", "warn", missing, <<Cardinality(uneven)>>,
                       {Row(k, {}, Len(Gap(k))) : k \in uneven}, {}) >>
       [] OTHER -> <<>>

-----------------------------------------------------------------------------
(* Ages and expiry.                                                        *)

Created(a) == Get(a, "created", 0)
Age(in, a) == in.now - Created(a)
Dated(in) == Filter(in.assets, LAMBDA a : Created(a) # 0)

\* Whatever has no creation time is left out; the caveat says how many have.
hygieneAges(in, Keep(_)) == Filter(Dated(in), LAMBDA a : Keep(Age(in, a)))
hygieneDateCoverage(in) == <<"dated", Len(Dated(in)), Len(in.assets)>>

AgeFinding(in, id, severity, assets, facts) ==
  IF assets = <<>> THEN <<>>
  ELSE << Finding(id, severity, Len(assets), facts,
                  {AssetRow(a, Age(in, a)) : a \in ToSet(assets)}, {hygieneDateCoverage(in)}) >>

recentlyCreated(in) ==
  LET assets == hygieneAges(in, LAMBDA age : age <= 30)
  IN AgeFinding(in, "hygiene.recently-created", "info", assets,
                <<Len(Filter(assets, LAMBDA a : Age(in, a) <= 7))>>)

ageing(in) ==
  LET assets == hygieneAges(in, LAMBDA age : age >= 730)
  IN AgeFinding(in, "hygiene.ageing-resources", "notable", assets,
                <<Max({0} \cup {Age(in, a) : a \in ToSet(assets)})>>)

hygieneExpiryKeys ==
  {"expireson", "expires", "expiry", "expiresat", "expiration", "expirationdate",
   "notafter", "validuntil"}

\* The first tag that says when.
hygieneExpiryTag(a) ==
  LET keys == Filter(NameOrder, LAMBDA k :
        Mapped(NormalKey, k) \in hygieneExpiryKeys /\ Tag(a, k) # "")
  IN SubSeq(keys, 1, IF keys = <<>> THEN 0 ELSE 1)

expiry(in) ==
  LET tagged == Filter(in.assets, LAMBDA a :
                  hygieneExpiryTag(a) # <<>> /\ Mapped(LowerCase, Tag(a, "key_expiry_disabled")) # "true")
      Text(a) == Tag(a, hygieneExpiryTag(a)[1])
      visible == Filter(tagged, LAMBDA a : Text(a) \in DOMAIN ExpiryOf)
      Left(a) == ExpiryOf[Text(a)] - in.now
      Of(id, assets) ==
        IF assets = <<>> THEN <<>>
        ELSE << Finding(id, "warn", Len(assets), <<Len(visible)>>,
                        {AssetRow(a, Left(a)) : a \in ToSet(assets)},
                        {<<"visible", Len(visible), Len(tagged) - Len(visible)>>}) >>
  IN Of("hygiene.expiring-credentials", Filter(visible, LAMBDA a : Left(a) \in 0..30))
       \o Of("hygiene.expired-credentials", Filter(visible, LAMBDA a : Left(a) < 0))

-----------------------------------------------------------------------------
(* Workloads.                                                              *)

utilHoldsCapacity(a) == a.status \notin {"Succeeded", "Failed"}
utilNamespace(a) == IF Tag(a, "namespace") # "" THEN Tag(a, "namespace") ELSE "(cluster-scoped)"
Place(a) == <<a.account, utilNamespace(a)>>
utilPodKey(a) == <<a.account, utilNamespace(a), a.name>>
LivePods(in) == Filter(in.assets, LAMBDA a : a.type = "v1.Pod" /\ utilHoldsCapacity(a))

namespacePolicy(in) ==
  LET covered == UNION {{refKey(e.from), refKey(e.to)}
                          : e \in {x \in ToSet(in.edges) : x.kind \in {"traffic-allow", "traffic-deny"}}}
      pods == LivePods(in)
      policies == OfTypes(in, {"networking.k8s.io/v1.NetworkPolicy"})
      policed == {Place(p) : p \in ToSet(policies)}
      reached == {Place(p) : p \in {x \in ToSet(pods) : nodeKey(x) \in covered}}
      open == {Place(p) : p \in ToSet(pods)} \ (policed \cup reached)
      Pods(ns) == Len(Filter(pods, LAMBDA p : Place(p) = ns))
  IN IF open = {} THEN <<>>
     ELSE << Finding("hygiene.namespaces-without-network-policy", "notable", Cardinality(open),
                     <<Cardinality({Place(p) : p \in ToSet(pods)} \cap policed)>>,
                     {Row(ns, {}, Pods(ns)) : ns \in open},
                     IF policies = <<>> THEN {"no policy collected"} ELSE {}) >>

\* A replica count that cannot be read is no count.
singleReplica(in) ==
  LET workloads == OfTypes(in, {"apps/v1.Deployment", "apps/v1.StatefulSet"})
      scanned == Filter(workloads, LAMBDA w : "spec.replicas" \in DOMAIN w.raw)
      single == Filter(scanned, LAMBDA w : w.raw["spec.replicas"] = 1)
  IN IF single = <<>> THEN <<>>
     ELSE << Finding("hygiene.single-replica-workloads", "info", Len(single), <<Len(scanned)>>,
                     {AssetRow(w, 1) : w \in ToSet(single)},
                     IF Len(scanned) < Len(workloads) THEN {"unreadable"} ELSE {}) >>

-----------------------------------------------------------------------------
(* Utilization.  What containers request or use, in thousandths of a core   *)
(* and mebibytes.                                                          *)

utilPodRequests(pod) ==
  LET containers == Get(pod.raw, "spec.containers", <<>>)
      Together(x) == SumOf(containers, LAMBDA c : c[x])
  IN [cpu |-> Together("cpu"), memory |-> Together("memory"),
      containers |-> Len(containers),
      withRequests |-> Len(Filter(containers, LAMBDA c : c.declared))]
Asks(pod) == utilPodRequests(pod).cpu > 0 \/ utilPodRequests(pod).memory > 0

\* The last sample with readings for a pod.
utilIndexPodMetrics(in, pod) ==
  LastWith(in.assets, LAMBDA m :
    /\ m.type = "metrics.k8s.io/v1beta1.PodMetrics" /\ utilPodKey(m) = utilPodKey(pod)
    /\ Get(m.raw, "containers", <<>>) # <<>>)

podRequestUsage(in) ==
  LET scanned == Filter(LivePods(in), Asks)
      sampled == Filter(scanned, LAMBDA p : utilIndexPodMetrics(in, p) # <<>>)
      Used(p, x) == SumOf(utilIndexPodMetrics(in, p)[1].raw["containers"], LAMBDA c : c[x])
      Asked(p, x) == utilPodRequests(p)[x]
      IdleCPU(p) == Asked(p, "cpu") >= 100 /\ 10 * Used(p, "cpu") <= Asked(p, "cpu")
      IdleMemory(p) == Asked(p, "memory") >= 512 /\ 4 * Used(p, "memory") <= Asked(p, "memory")
      Headroom(p) == IF IdleCPU(p) THEN Asked(p, "cpu") - Used(p, "cpu") ELSE 0
      cands == Filter(sampled, LAMBDA p : IdleCPU(p) \/ IdleMemory(p))
  IN IF cands = <<>> THEN <<>>
     ELSE << Finding("utilization.pod-requests-vs-usage", "notable", Len(cands),
                     <<Len(sampled), SumOf(cands, Headroom)>>,
                     {AssetRow(p, Headroom(p)) : p \in ToSet(cands)},
                     IF Len(sampled) < Len(scanned) THEN {"unsampled"} ELSE {}) >>

utilPct(part, whole) == IF whole <= 0 THEN 0 ELSE (200 * part + whole) \div (2 * whole)
utilExtreme(part, whole) ==
  whole > 0 /\ part > 0 /\ (10 * part >= 9 * whole \/ 5 * part <= whole)

\* Only nodes whose capacity is readable, and the pods on them, are compared.
nodeHeadroom(in) ==
  LET Allocatable(n, x) == Get(n.raw, "status.allocatable." \o x, 0)
      nodes == OfTypes(in, {"v1.Node"})
      readable == Filter(nodes, LAMBDA n :
        {"status.allocatable.cpu", "status.allocatable.memory"} \cap DOMAIN n.raw # {})
      On(a, name) == \E n \in ToSet(readable) : n.account = a.account /\ n.name = name
      pods == Filter(LivePods(in), LAMBDA p : On(p, Get(p.raw, "spec.nodeName", "")))
      samples == Filter(OfTypes(in, {"metrics.k8s.io/v1beta1.NodeMetrics"}), LAMBDA m :
        On(m, m.name) /\ {"usage.cpu", "usage.memory"} \cap DOMAIN m.raw # {})
      In(c, s) == Filter(s, LAMBDA a : a.account = c)
      Whole(c, x) == SumOf(In(c, readable), LAMBDA n : Allocatable(n, x))
      Part(c, x) == SumOf(In(c, pods), LAMBDA p : utilPodRequests(p)[x])
      clusters == {c \in {n.account : n \in ToSet(readable)} : Whole(c, "cpu") > 0}
      extreme == \E c \in clusters, x \in {"cpu", "memory"} : utilExtreme(Part(c, x), Whole(c, x))
      Sampled(c) == SumOf(In(c, samples), LAMBDA m : Get(m.raw, "usage.cpu", 0))
      Rows(c) == {Row(<<c, x>>, {}, utilPct(Part(c, x), Whole(c, x))) : x \in {"cpu", "memory"}}
                   \cup IF In(c, samples) = <<>> THEN {} ELSE {Row(<<c, "sampled">>, {}, Sampled(c))}
      counted == Filter(pods, LAMBDA p : p.account \in clusters)
  IN IF clusters = {} THEN <<>>
     ELSE << Finding("utilization.node-headroom", IF extreme THEN "notable" ELSE "info",
                     Cardinality(clusters), <<>>, UNION {Rows(c) : c \in clusters},
                     {c \in {"unbounded", "unreadable"} :
                        IF c = "unbounded" THEN \E p \in ToSet(counted) : ~Asks(p)
                        ELSE \E n \in ToSet(nodes) \ ToSet(readable) : n.account \in clusters}) >>

\* A pod whose containers cannot be read is not counted as one without
\* requests.
unrequestedWorkload(in) ==
  LET scanned == Filter(LivePods(in), LAMBDA p : utilPodRequests(p).containers > 0)
      bare == Filter(scanned, LAMBDA p : ~Asks(p))
      partial == Filter(scanned, LAMBDA p :
        Asks(p) /\ utilPodRequests(p).withRequests < utilPodRequests(p).containers)
      Of(ns) == Filter(bare, LAMBDA p : Place(p) = ns)
  IN IF bare = <<>> THEN <<>>
     ELSE << Finding("utilization.workloads-without-requests", "warn", Len(bare), <<Len(scanned)>>,
                     {Row(ns, Keys(SubSeq(Of(ns), 1, Min({5, Len(Of(ns))}))), Len(Of(ns)))
                        : ns \in {Place(p) : p \in ToSet(bare)}},
                     IF partial = <<>> THEN {} ELSE {"partial"}) >>

utilUnmeasurable ==
  [p \in {"oci", "gcp", "cloudflare"} |->
     CASE p = "oci" ->
            {"oci.compute.instance", "oci.container_instance", "oci.block_volume",
             "oci.boot_volume", "oci.autonomous_database", "oci.db_system", "oci.load_balancer",
             "oci.network_load_balancer", "oci.object_storage.bucket", "oci.oke.cluster",
             "oci.functions.function"}
       [] p = "gcp" ->
            {"compute.googleapis.com/Instance", "compute.googleapis.com/Disk",
             "sqladmin.googleapis.com/Instance", "container.googleapis.com/Cluster",
             "run.googleapis.com/Service", "cloudfunctions.googleapis.com/CloudFunction",
             "storage.googleapis.com/Bucket"}
       [] OTHER ->
            {"cloudflare.worker_script", "cloudflare.r2_bucket", "cloudflare.kv_namespace",
             "cloudflare.d1_database", "cloudflare.pages_project", "cloudflare.load_balancer",
             "cloudflare.zone"}]

unmeasurable(in) ==
  LET Count(p) == Len(OfTypes(in, utilUnmeasurable[p]))
      counted == {p \in DOMAIN utilUnmeasurable : Count(p) > 0}
  IN IF counted = {} THEN <<>>
     ELSE << Finding("utilization.no-usage-data", "info", SumOf(SetToSeq(counted), Count), <<>>,
                     {Row(<<p>>, {}, Count(p)) : p \in counted}, {}) >>
=============================================================================
