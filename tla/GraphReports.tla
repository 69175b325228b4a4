---------------------------- MODULE GraphReports -----------------------------
(***************************************************************************)
(* What internal/topology makes of a graph besides drawing it: the          *)
(* summary at a lower level of detail (Collapse) and the report of the      *)
(* nodes nothing is connected to (Orphans).  Buckets and lines are sets     *)
(* here; the code sorts them, so nothing depends on the order.              *)
(***************************************************************************)
EXTENDS Topology

groupOf(a, dim) ==
  CASE dim = "provider" -> a.provider
    [] dim = "account" -> IF a.account # "" THEN a.account ELSE a.provider
    [] dim = "region" -> IF a.region # "" THEN a.region ELSE "(no region)"
    [] OTHER -> ""

-----------------------------------------------------------------------------
(* Collapse.                                                               *)

bucketKey(a, level, dim) ==
  LET g == IF groupOf(a, dim) = "" THEN a.provider ELSE groupOf(a, dim)
  IN IF level = "high" THEN <<g>> ELSE <<g, a.type>>

\* The one value all members have, or what a summary says instead.
Common(members, Field(_), mixed) ==
  LET values == {Field(a) : a \in ToSet(members)}
  IN IF Cardinality(values) = 1 THEN CHOOSE v \in values : TRUE ELSE mixed

\* Mutant of collapsedNode: self-loops are discarded, not counted.
collapsedNodeAlone(key, members, internal) ==
  [bucket |-> key, provider |-> "", account |-> "", region |-> "",
   member_count |-> Len(members), member_types |-> {}, internal_edges |-> 0]

collapsedNode(key, members, internal) ==
  [bucket |-> key,
   provider |-> Common(members, LAMBDA a : a.provider, "multi"),
   account |-> Common(members, LAMBDA a : a.account, ""),
   region |-> Common(members, LAMBDA a : a.region, ""),
   member_count |-> Len(members),
   member_types |-> {a.type : a \in ToSet(members)},
   internal_edges |-> internal]

\* Provider is the one dimension that has a value on every asset.
bucketDimension(dimension) == IF dimension = "" THEN "provider" ELSE dimension

\* A node stands in the bucket of the last asset with its key.
BucketOf(topo, ref, level, dim) ==
  LET a == LastWith(topo.nodes, LAMBDA n : nodeKey(n) = refKey(ref))
  IN IF a = <<>> THEN <<>> ELSE bucketKey(a[1], level, dim)

\* An edge inside a bucket is only counted there.  Across buckets the edges of
\* a kind are one edge, as trustworthy as the weakest of them; an edge whose
\* end has been filtered out has nothing to collapse onto.
Collapse(topo, level, dimension) ==
  LET dim == bucketDimension(dimension)
      Key(a) == bucketKey(a, level, dim)
      From(e) == BucketOf(topo, e.from, level, dim)
      To(e) == BucketOf(topo, e.to, level, dim)
      kept == Filter(topo.edges, LAMBDA e : From(e) # <<>> /\ To(e) # <<>>)
      crossing == Filter(kept, LAMBDA e : From(e) # To(e))
      Held(k) == Filter(topo.nodes, LAMBDA a : Key(a) = k)
      Internal(k) == Len(Filter(kept, LAMBDA e : From(e) = k /\ To(e) = k))
      Merged(k) ==
        LET s == Filter(crossing, LAMBDA e : <<From(e), To(e), e.kind>> = k)
        IN [from |-> k[1], to |-> k[2], kind |-> k[3], count |-> Len(s),
            confidence |-> IF \E e \in ToSet(s) : e.confidence = "heuristic"
                           THEN "heuristic" ELSE s[1].confidence]
  IN [nodes |-> {collapsedNode(k, Held(k), Internal(k)) : k \in {Key(a) : a \in ToSet(topo.nodes)}},
      edges |-> {Merged(k) : k \in {<<From(e), To(e), e.kind>> : e \in ToSet(crossing)}}]

-----------------------------------------------------------------------------
(* Orphans.                                                                *)

declaredResolverTypes ==
  {"cloudflare.dns_record", "cloudflare.zone", "cloudflare.ruleset",
   "cloudflare.access_app", "cloudflare.tunnel", "cloudflare.page_rule",
   "oci.load_balancer", "oci.vcn", "oci.subnet",
   "v1.Service", "v1.Pod", "networking.k8s.io/v1.Ingress",
   "networking.k8s.io/v1.NetworkPolicy",
   "netbird.peer", "netbird.group", "netbird.policy_rule",
   "tailscale.device", "tailscale.user", "tailscale.acl_rule",
   "tailscale.acl_tag", "tailscale.acl_group", "tailscale.acl_host"} \cup HTTPRoutes

resolverInputTypes ==
  declaredResolverTypes \cup {r[1] : r \in ToSet(ociContainmentRules)}

connectableType(type, connected) == type \in connected \cup resolverInputTypes

\* Mutant of rawDependentTypes: only the types that name a host.
rawDependentRoutes == {"networking.k8s.io/v1.Ingress"} \cup HTTPRoutes

rawDependentTypes ==
  {"v1.Service", "networking.k8s.io/v1.Ingress",
   "networking.k8s.io/v1.NetworkPolicy"} \cup HTTPRoutes

maxExamples == 3

Orphans(topo, dimension) ==
  LET dim == IF groupOf([provider |-> "probe", account |-> "", region |-> ""], dimension) = ""
             THEN "provider" ELSE dimension
      IsOrphan(a) == nodeKey(a) \notin Incident(topo)
      nodes == ToSet(topo.nodes)
      connected == {a.type : a \in {n \in nodes : ~IsOrphan(n)}}
      orphans == Filter(topo.nodes, IsOrphan)
      Line(group, type) ==
        LET s == Filter(orphans, LAMBDA a : groupOf(a, dim) = group /\ a.type = type)
        IN [group |-> group, type |-> type, count |-> Len(s),
            examples |-> Map(SubSeq(s, 1, IF Len(s) < maxExamples THEN Len(s) ELSE maxExamples),
                             LAMBDA a : IF a.name # "" THEN a.name ELSE a.id)]
      lines == {Line(groupOf(a, dim), a.type) : a \in ToSet(orphans)}
      unread == {a.type : a \in nodes} \cap rawDependentTypes
  IN [TotalNodes |-> Len(topo.nodes),
      TotalOrphans |-> Len(orphans),
      Providers |-> {a.provider : a \in nodes},
      RawAvailable |-> \E a \in nodes : HasRaw(a),
      RawMissingFor |-> {t \in unread : \A a \in nodes : a.type = t => ~HasRaw(a)},
      Unconnected |-> {l \in lines : connectableType(l.type, connected)},
      Unmodelled |-> {l \in lines : ~connectableType(l.type, connected)}]

\* The paragraphs a report adds to its warning: which of the two ways of
\* lacking payloads it was collected with, and a single provider.
orphanCaveat(report) ==
  (IF ~report.RawAvailable THEN {"no raw"}
   ELSE IF report.RawMissingFor # {} THEN {"raw missing for types"} ELSE {})
    \cup (IF Cardinality(report.Providers) = 1 THEN {"one provider"} ELSE {})
=============================================================================
