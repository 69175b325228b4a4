---------------------------- MODULE Graph_proofs -----------------------------
(***************************************************************************)
(* What the graph commands answer from and with: every edge of the graph    *)
(* joins two assets of the inventory, tracing hostnames keeps exactly what  *)
(* is joined to their records, a summary accounts for every asset and edge, *)
(* reach answers with exactly what is within reach, the graph does not      *)
(* depend on the order of the collection, and a report that lists an asset  *)
(* for the lack of payloads says that payloads are missing.                 *)
(***************************************************************************)
EXTENDS GraphCommands, Lists_proofs

-----------------------------------------------------------------------------
(* Lists of assets and of edges.                                           *)

\* The nodes of the graph that the assets are.
Keys(A) == {nodeKey(a) : a \in A}

\* The kinds of edges there are.
EdgeKinds == {"dns", "gateway-route", "lb-backend", "network-containment", "service-backend",
              "traffic-allow", "traffic-deny", "waf"}

\* An edge between the given nodes.
IsEdge(e, K) == Ends(e) \subseteq K /\ e.kind \in EdgeKinds

\* A list of edges between the given nodes.
EdgeList(t, K) == IsList(t) /\ \A e \in ToSet(t) : IsEdge(e, K)

\* An edge joins the assets it was made of.
LEMMA EdgeEnds ==
  ASSUME NEW a, NEW b, NEW kind, NEW hostname, NEW port, NEW confidence
  PROVE  Ends(Edge(a, b, kind, hostname, port, confidence)) = {nodeKey(a), nodeKey(b)}
  BY DEF Ends, Edge, nodeKey, refKey, AsRef

\* An exact edge ends at the nodes of its two assets.
LEMMA ExactEnds ==
  ASSUME NEW a, NEW b, NEW kind
  PROVE  Ends(Exact(a, b, kind)) = {nodeKey(a), nodeKey(b)}
  <1>1. \E h, p, c : Exact(a, b, kind) = Edge(a, b, kind, h, p, c) BY Zenon DEF Exact
  <1>2. PICK h, p, c : Exact(a, b, kind) = Edge(a, b, kind, h, p, c) BY <1>1
  <1> QED BY <1>2, EdgeEnds

\* No edges are edges between any nodes.
LEMMA NoEdges == ASSUME NEW K PROVE EdgeList(<<>>, K)
  <1>1. ToSet(<<>>) = {} BY DEF ToSet
  <1> QED BY <1>1, NoElement DEF EdgeList

\* One list of edges after another.
LEMMA MoreEdges ==
  ASSUME NEW K, NEW s, NEW t, EdgeList(s, K), EdgeList(t, K)
  PROVE  EdgeList(s \o t, K)
  <1>1. IsList(s) /\ IsList(t) BY DEF EdgeList
  <1>2. IsList(s \o t) BY <1>1, BothLists
  <1> DEFINE V == ToSet(s) \cup ToSet(t)
  <1>3. s \in Seq(V) /\ t \in Seq(V) BY <1>1 DEF IsList
  <1> HIDE DEF V
  <1>4. ToSet(s \o t) = ToSet(s) \cup ToSet(t) BY <1>3, ConcatElements
  <1> QED BY <1>2, <1>4 DEF EdgeList

\* A list over a set is one over any larger set.
LEMMA Widen ==
  ASSUME NEW U, NEW V, NEW s \in Seq(U), U \subseteq V
  PROVE  s \in Seq(V)
  <1>1. \A i \in 1..Len(s) : s[i] \in V OBVIOUS
  <1> QED BY <1>1

\* A function on 1..n into a set is a list over it.
LEMMA AList ==
  ASSUME NEW V, NEW n \in Nat, NEW g, g = [i \in 1..n |-> g[i]], \A i \in 1..n : g[i] \in V
  PROVE  g \in Seq(V) /\ Len(g) = n /\ ToSet(g) = {g[i] : i \in 1..n}
  <1>1. g \in [1..n -> V] OBVIOUS
  <1>2. g \in Seq(V) /\ Len(g) = n BY <1>1
  <1>3. DOMAIN g = 1..n BY <1>1
  <1> QED BY <1>2, <1>3 DEF ToSet

\* What Map makes of a list: a list of edges when it makes one of each element.
LEMMA MapEdges ==
  ASSUME NEW K, NEW s, IsList(s), NEW g, g = [i \in DOMAIN s |-> g[i]],
         \A i \in DOMAIN s : IsEdge(g[i], K)
  PROVE  EdgeList(g \o <<>>, K)
  <1> DEFINE n == Len(s)
             V == {g[i] : i \in 1..n}
  <1>0. n \in Nat /\ DOMAIN s = 1..n BY DEF IsList
  <1>1. g = [i \in 1..n |-> g[i]] /\ \A i \in 1..n : g[i] \in V BY <1>0
  <1>2. \A e \in V : IsEdge(e, K) BY <1>0
  <1>3. g \in Seq(V) /\ ToSet(g) = V
    <2> HIDE DEF V, n
    <2>1. g \in Seq(V) /\ ToSet(g) = {g[i] : i \in 1..n} BY <1>0, <1>1, AList
    <2> QED BY <2>1 DEF V
  <1> HIDE DEF V
  <1>4. g \o <<>> = g BY <1>3
  <1> QED BY <1>2, <1>3, <1>4 DEF EdgeList, IsList

\* What Each makes of a list: a list of edges when it makes one of each element.
LEMMA EachEdges ==
  ASSUME NEW K, NEW s, IsList(s), NEW g, g = [i \in DOMAIN s |-> g[i]],
         \A i \in DOMAIN s : EdgeList(g[i], K)
  PROVE  EdgeList(FlattenSeq(g \o <<>>), K)
  <1> DEFINE n == Len(s)
             V == UNION {ToSet(g[i]) : i \in 1..n}
  <1>0. n \in Nat /\ DOMAIN s = 1..n BY DEF IsList
  <1> HIDE DEF n
  <1>1. \A i \in 1..n : g[i] \in Seq(ToSet(g[i])) /\ ToSet(g[i]) \subseteq V
    BY <1>0 DEF EdgeList, IsList
  <1>2. \A e \in V : IsEdge(e, K) BY <1>0 DEF EdgeList
  <1> HIDE DEF V
  <1>3. \A i \in 1..n : g[i] \in Seq(V) BY <1>1, Widen
  <1>4. g \in Seq(Seq(V)) /\ Len(g) = n
    <2>1. g = [i \in 1..n |-> g[i]] BY <1>0
    <2> QED BY <1>0, <2>1, <1>3, AList
  <1>5. g \o <<>> = g BY <1>4
  <1>6. FlattenSeq(g) \in Seq(V) /\ ToSet(FlattenSeq(g)) = UNION {ToSet(g[i]) : i \in 1..Len(g)}
    BY <1>4, FlattenElements
  <1>7. ToSet(FlattenSeq(g)) = V BY <1>4, <1>6 DEF V
  <1> QED BY <1>2, <1>5, <1>6, <1>7 DEF EdgeList, IsList

\* What Each makes of a list: a list over A when it makes one of each element.
LEMMA EachIn ==
  ASSUME NEW A, NEW s, IsList(s), NEW g, g = [i \in DOMAIN s |-> g[i]],
         \A i \in DOMAIN s : g[i] \in Seq(A)
  PROVE  FlattenSeq(g \o <<>>) \in Seq(A)
  <1> DEFINE n == Len(s)
  <1>0. n \in Nat /\ DOMAIN s = 1..n BY DEF IsList
  <1> HIDE DEF n
  <1>1. g \in Seq(Seq(A))
    <2>1. g = [i \in 1..n |-> g[i]] /\ \A i \in 1..n : g[i] \in Seq(A) BY <1>0
    <2> QED BY <1>0, <2>1, AList
  <1>2. g \o <<>> = g BY <1>1
  <1> QED BY <1>1, <1>2, FlattenElements

\* What a list holds at a position.
LEMMA Member ==
  ASSUME NEW A, NEW s \in Seq(A)
  PROVE  IsList(s) /\ \A i \in DOMAIN s : s[i] \in A
  <1>1. \A i \in 1..Len(s) : s[i] \in ToSet(s) BY DEF ToSet
  <1>2. s \in Seq(ToSet(s)) BY <1>1
  <1> QED BY <1>2 DEF IsList

\* Lists that are written out.
LEMMA FourListed ==
  ASSUME NEW a, NEW b, NEW c, NEW d
  PROVE  IsList(<<a, b, c, d>>)
  <1>1. <<a, b, c, d>> \in Seq({a, b, c, d}) OBVIOUS
  <1> QED BY <1>1, Member

\* A tuple of seven is a list.
LEMMA SevenListed ==
  ASSUME NEW a, NEW b, NEW c, NEW d, NEW e, NEW f, NEW g
  PROVE  IsList(<<a, b, c, d, e, f, g>>)
  <1>1. <<a, b, c, d, e, f, g>> \in Seq({a, b, c, d, e, f, g}) OBVIOUS
  <1> QED BY <1>1, Member

\* What the resolvers make is of one of the kinds.
LEMMA TheKinds ==
  /\ {"dns", "gateway-route", "lb-backend", "network-containment", "service-backend",
      "traffic-allow", "waf"} \subseteq EdgeKinds
  /\ \A action : TrafficEdgeKind(action) \in EdgeKinds
  BY DEF EdgeKinds, TrafficEdgeKind

\* Edges between assets of the inventory.
LEMMA Between ==
  ASSUME NEW A, NEW a \in A, NEW b \in A
  PROVE  /\ \A k \in EdgeKinds : \A h, p, c : IsEdge(Edge(a, b, k, h, p, c), Keys(A))
         /\ \A k \in EdgeKinds : IsEdge(Exact(a, b, k), Keys(A))
  <1>1. {nodeKey(a), nodeKey(b)} \subseteq Keys(A) BY DEF Keys
  <1>2. ASSUME NEW k \in EdgeKinds, NEW h, NEW p, NEW c
        PROVE  IsEdge(Edge(a, b, k, h, p, c), Keys(A))
    <2>1. Edge(a, b, k, h, p, c).kind = k BY DEF Edge
    <2> QED BY <1>1, <2>1, EdgeEnds DEF IsEdge
  <1>3. \A k \in EdgeKinds : IsEdge(Exact(a, b, k), Keys(A)) BY <1>2 DEF Exact
  <1> QED BY <1>2, <1>3

-----------------------------------------------------------------------------
(* The index: what is looked up is of the inventory.                       *)

\* The assets that pass a test, in their order.
LEMMA Picking ==
  ASSUME NEW A, NEW s \in Seq(A), NEW I
  PROVE  At(s, I) \in Seq(A)
  BY AtElements

\* The last of them, when there is one.
LastOf(found) == IF found = <<>> THEN <<>> ELSE <<Last(found)>>

\* The last of what was found is of it, if there is one.
LEMMA PickingLast ==
  ASSUME NEW A, NEW found \in Seq(A)
  PROVE  LastOf(found) \in Seq(A)
  <1>1. CASE found = <<>> BY <1>1 DEF LastOf
  <1>2. CASE found # <<>>
    <2>1. Len(found) \in 1..Len(found) BY <1>2
    <2>2. Last(found) \in A BY <2>1 DEF Last
    <2> QED BY <1>2, <2>2 DEF LastOf
  <1> QED BY <1>1, <1>2

\* What is looked up by type is of the assets.
LEMMA ByTypeIn ==
  ASSUME NEW A, NEW s \in Seq(A), NEW type
  PROVE  ByType(s, type) \in Seq(A)
  <1> DEFINE I == {i \in DOMAIN s : s[i].type = type}
  <1>1. ByType(s, type) = At(s, I) BY DEF ByType, Filter
  <1> HIDE DEF I
  <1> QED BY <1>1, Picking

\* What is picked at some positions is what stands there.
LEMMA ByTypeHolds ==
  ASSUME NEW A, NEW s \in Seq(A), NEW type, NEW i \in DOMAIN ByType(s, type)
  PROVE  ByType(s, type)[i] \in A /\ ByType(s, type)[i].type = type
  <1> DEFINE I == {j \in DOMAIN s : s[j].type = type}
             t == At(s, I)
  <1>1. ByType(s, type) = t BY DEF ByType, Filter
  <1>2. \A j \in I : s[j].type = type OBVIOUS
  <1> HIDE DEF I
  <1>3. t \in Seq(A) /\ ToSet(t) = {s[j] : j \in I \cap 1..Len(s)} BY AtElements
  <1> HIDE DEF t
  <1>4. t[i] \in ToSet(t) BY <1>1 DEF ToSet
  <1> QED BY <1>1, <1>2, <1>3, <1>4

\* What is looked up by address is of the assets.
LEMMA ByAddressIn ==
  ASSUME NEW A, NEW s \in Seq(A), NEW key
  PROVE  ByAddress(s, key) \in Seq(A)
  <1> DEFINE I == {i \in DOMAIN s : LET ad == AssetAddresses(s[i])
                                    IN key \in ad.ips \cup ad.hosts \cup ad.targets}
  <1>1. ByAddress(s, key) = At(s, I) BY DEF ByAddress, Filter
  <1> HIDE DEF I
  <1> QED BY <1>1, Picking

\* What is looked up by id is of the assets.
LEMMA ByIdIn ==
  ASSUME NEW A, NEW s \in Seq(A), NEW id
  PROVE  ById(s, id) \in Seq(A)
  <1> DEFINE I == {i \in DOMAIN s : s[i].id = id}
  <1>1. ById(s, id) = LastOf(At(s, I)) BY DEF ById, LastWith, Filter, LastOf
  <1> HIDE DEF I
  <1> QED BY <1>1, Picking, PickingLast

-----------------------------------------------------------------------------
(* The resolvers, one by one.                                              *)

\* What a DNS record is matched with is of the assets.
LEMMA DnsMatchesIn ==
  ASSUME NEW A, NEW assets \in Seq(A), NEW rec
  PROVE  dnsMatches(assets, rec) \in Seq(A)
  <1> DEFINE found == ByAddress(assets, Tag(rec, "content"))
             named == ByAddress(assets, normalizeHost(Tag(rec, "content")))
             others == At(found, {i \in DOMAIN found : found[i].type # "cloudflare.dns_record"})
  <1>1. dnsMatches(assets, rec) \in {others, named, <<>>} BY Zenon DEF dnsMatches, Filter
  <1>2. found \in Seq(A) /\ named \in Seq(A) BY ByAddressIn
  <1> HIDE DEF found, named
  <1>3. others \in Seq(A) BY <1>2, Picking
  <1>4. <<>> \in Seq(A) OBVIOUS
  <1> HIDE DEF others
  <1> QED BY <1>1, <1>2, <1>3, <1>4

\* The edges of the DNS records join assets.
LEMMA DnsEdges ==
  ASSUME NEW A, NEW assets \in Seq(A)
  PROVE  EdgeList(dnsToTarget(assets), Keys(A))
  <1> DEFINE recs == ByType(assets, "cloudflare.dns_record")
             Others(rec) == Filter(dnsMatches(assets, rec), LAMBDA m : m.id # rec.id)
             Made(rec, m) == Edge(rec, m, "dns", rec.name, 0, "heuristic")
             g == [i \in DOMAIN recs |-> Map(Others(recs[i]), LAMBDA m : Made(recs[i], m))]
  <1>1. dnsToTarget(assets) = FlattenSeq(g \o <<>>) BY Zenon DEF dnsToTarget, Each, Map
  <1>2. recs \in Seq(A) BY ByTypeIn
  <1>3. \A r \in A, m \in A : IsEdge(Made(r, m), Keys(A)) BY Between, TheKinds
  <1> HIDE DEF recs, Made
  <1>4. ASSUME NEW i \in DOMAIN recs PROVE EdgeList(g[i], Keys(A))
    <2> DEFINE rec == recs[i]
               found == dnsMatches(assets, rec)
               I == {j \in DOMAIN found : found[j].id # rec.id}
               others == At(found, I)
               h == [j \in DOMAIN others |-> Made(rec, others[j])]
    <2>1. g[i] = h \o <<>> BY DEF Map, Filter
    <2>2. rec \in A BY <1>2
    <2>3. found \in Seq(A) BY DnsMatchesIn
    <2> HIDE DEF found, I, rec, g
    <2>4. others \in Seq(A) BY <2>3, Picking
    <2> HIDE DEF others
    <2>5. \A j \in DOMAIN others : IsEdge(h[j], Keys(A)) BY <1>3, <2>2, <2>4
    <2>6. h = [j \in DOMAIN others |-> h[j]] OBVIOUS
    <2> HIDE DEF h
    <2> QED BY <2>1, <2>4, <2>5, <2>6, Member, MapEdges
  <1>5. IsList(recs) /\ g = [i \in DOMAIN recs |-> g[i]] BY <1>2, Member
  <1> HIDE DEF g
  <1> QED BY <1>1, <1>4, <1>5, EachEdges

\* The edges of what protects a zone join assets.
LEMMA WafEdges ==
  ASSUME NEW A, NEW assets \in Seq(A)
  PROVE  EdgeList(wafBinding(assets), Keys(A))
  <1> DEFINE types == <<"cloudflare.ruleset", "cloudflare.access_app",
                        "cloudflare.tunnel", "cloudflare.page_rule">>
             Zone(a) == IF Tag(a, "zone_id") = "" THEN <<>> ELSE ById(assets, Tag(a, "zone_id"))
             Made(a, zone) == Exact(a, zone, "waf")
             h(a) == [k \in DOMAIN Zone(a) |-> Made(a, Zone(a)[k])]
             g(t) == [j \in DOMAIN ByType(assets, t) |-> h(ByType(assets, t)[j]) \o <<>>]
             f == [i \in DOMAIN types |-> FlattenSeq(g(types[i]) \o <<>>)]
  <1>1. wafBinding(assets) = FlattenSeq(f \o <<>>) BY Zenon DEF wafBinding, Each, Map
  <1>2. \A a : Zone(a) \in {<<>>, ById(assets, Tag(a, "zone_id"))} BY Zenon
  <1> HIDE DEF Zone
  <1>3. \A a : Zone(a) \in Seq(A)
    <2> TAKE a
    <2>1. ById(assets, Tag(a, "zone_id")) \in Seq(A) BY ByIdIn
    <2>2. <<>> \in Seq(A) OBVIOUS
    <2> QED BY <1>2, <2>1, <2>2
  <1>4. \A a \in A, zone \in A : IsEdge(Made(a, zone), Keys(A)) BY Between, TheKinds
  <1> HIDE DEF Made
  <1>5. ASSUME NEW a \in A PROVE EdgeList(h(a) \o <<>>, Keys(A))
    <2> DEFINE zone == Zone(a)
    <2>1. zone \in Seq(A) BY <1>3
    <2>2. h(a) = [k \in DOMAIN zone |-> h(a)[k]] OBVIOUS
    <2>3. \A k \in DOMAIN zone : IsEdge(h(a)[k], Keys(A)) BY <1>4, <2>1
    <2> HIDE DEF zone, h
    <2> QED BY <2>1, <2>2, <2>3, Member, MapEdges
  <1> HIDE DEF h
  <1>6. ASSUME NEW t PROVE EdgeList(FlattenSeq(g(t) \o <<>>), Keys(A))
    <2> DEFINE s == ByType(assets, t)
    <2>1. s \in Seq(A) BY ByTypeIn
    <2>2. g(t) = [j \in DOMAIN s |-> g(t)[j]] OBVIOUS
    <2>3. \A j \in DOMAIN s : EdgeList(g(t)[j], Keys(A)) BY <1>5, <2>1
    <2> HIDE DEF s, g
    <2> QED BY <2>1, <2>2, <2>3, Member, EachEdges
  <1>7. IsList(types) BY FourListed
  <1> HIDE DEF g, types
  <1>8. f = [i \in DOMAIN types |-> f[i]] /\ \A i \in DOMAIN types : EdgeList(f[i], Keys(A))
    BY <1>6
  <1> HIDE DEF f
  <1> QED BY <1>1, <1>7, <1>8, EachEdges

\* The edges of the load balancers join assets.
LEMMA LbEdges ==
  ASSUME NEW A, NEW assets \in Seq(A), \A a \in A : IsReadable(a)
  PROVE  EdgeList(lbToGateway(assets), Keys(A))
  <1> DEFINE lbs == ByType(assets, "oci.load_balancer")
             found(ip) == ByAddress(assets, ip)
             I(lb, ip) == {i \in DOMAIN found(ip) :
                             found(ip)[i].id # lb.id /\ found(ip)[i].provider = "kubernetes"}
             on(lb, ip) == At(found(ip), I(lb, ip))
             Made(lb, t) == Edge(lb, t, "lb-backend", "", 0, "heuristic")
             h(lb, ip) == [k \in DOMAIN on(lb, ip) |-> Made(lb, on(lb, ip)[k])]
             g(lb) == [j \in DOMAIN TagList(lb, "ip_addresses") |->
                         h(lb, TagList(lb, "ip_addresses")[j]) \o <<>>]
             f == [i \in DOMAIN lbs |-> FlattenSeq(g(lbs[i]) \o <<>>)]
  <1>1. lbToGateway(assets) = FlattenSeq(f \o <<>>) BY Zenon DEF lbToGateway, Each, Map, Filter
  <1>2. \A lb, ip : on(lb, ip) \in Seq(A)
    <2> TAKE lb, ip
    <2>1. found(ip) \in Seq(A) BY ByAddressIn
    <2> HIDE DEF found, I
    <2> QED BY <2>1, Picking
  <1>3. \A lb \in A, t \in A : IsEdge(Made(lb, t), Keys(A))
    BY Between, TheKinds, Zenon
  <1> HIDE DEF on, Made
  <1>4. ASSUME NEW lb \in A, NEW ip PROVE EdgeList(h(lb, ip) \o <<>>, Keys(A))
    <2> DEFINE s == on(lb, ip)
    <2>1. s \in Seq(A) BY <1>2
    <2>2. h(lb, ip) = [k \in DOMAIN s |-> h(lb, ip)[k]] OBVIOUS
    <2>3. \A k \in DOMAIN s : IsEdge(h(lb, ip)[k], Keys(A)) BY <1>3, <2>1
    <2> HIDE DEF s, h
    <2> QED BY <2>1, <2>2, <2>3, Member, MapEdges
  <1> HIDE DEF h
  <1>5. ASSUME NEW i \in DOMAIN lbs PROVE EdgeList(f[i], Keys(A))
    <2> DEFINE lb == lbs[i]
               ips == TagList(lb, "ip_addresses")
    <2>1. lb \in A /\ lb.type = "oci.load_balancer" BY ByTypeHolds
    <2>2. IsList(ips) BY <2>1, Zenon DEF IsReadable
    <2>3. g(lb) = [j \in DOMAIN ips |-> g(lb)[j]] OBVIOUS
    <2>4. f[i] = FlattenSeq(g(lb) \o <<>>) OBVIOUS
    <2> HIDE DEF f, lbs, lb
    <2>5. \A j \in DOMAIN ips : EdgeList(g(lb)[j], Keys(A)) BY <1>4, <2>1
    <2> HIDE DEF g, ips
    <2> QED BY <2>2, <2>3, <2>4, <2>5, EachEdges
  <1>6. IsList(lbs) /\ f = [i \in DOMAIN lbs |-> f[i]] BY ByTypeIn, Member
  <1> HIDE DEF f, lbs
  <1> QED BY <1>1, <1>5, <1>6, EachEdges

\* A Service looked up by its place is of the assets.
LEMMA ServiceNamedIn ==
  ASSUME NEW A, NEW s \in Seq(A), NEW ns, NEW name
  PROVE  ServiceNamed(s, ns, name) \in Seq(A)
  <1> DEFINE I == {i \in DOMAIN s : /\ s[i].type = "v1.Service" /\ Tag(s[i], "namespace") = ns
                                    /\ s[i].name = name}
  <1>1. ServiceNamed(s, ns, name) = LastOf(At(s, I)) BY DEF ServiceNamed, LastWith, Filter, LastOf
  <1> HIDE DEF I
  <1> QED BY <1>1, Picking, PickingLast

\* The edges of an Ingress join assets.
LEMMA IngressEdges ==
  ASSUME NEW A, NEW assets \in Seq(A), NEW ing \in A, IsReadable(ing),
         ing.type = "networking.k8s.io/v1.Ingress"
  PROVE  EdgeList(ingressBackendEdges(assets, ing), Keys(A))
  <1> DEFINE rules == Get(ing.raw, "rules", <<>>)
             svc(p) == ServiceNamed(assets, Tag(ing, "namespace"), p.service)
             Made(rule, p, s) == Edge(ing, s, "gateway-route", rule.host, p.port, "exact")
             h(rule, p) == [k \in DOMAIN svc(p) |-> Made(rule, p, svc(p)[k])]
             g(rule) == [j \in DOMAIN rule.paths |-> h(rule, rule.paths[j]) \o <<>>]
             f == [i \in DOMAIN rules |-> FlattenSeq(g(rules[i]) \o <<>>)]
  <1>1. ingressBackendEdges(assets, ing) = FlattenSeq(f \o <<>>)
    BY Zenon DEF ingressBackendEdges, Each, Map
  <1>2. \A p : svc(p) \in Seq(A) BY ServiceNamedIn
  <1>3. \A rule, p : \A s \in A : IsEdge(Made(rule, p, s), Keys(A)) BY Between, TheKinds
  <1>4. IsList(rules) /\ \A rule \in ToSet(rules) : IsList(rule.paths) BY Zenon DEF IsReadable
  <1> HIDE DEF svc, Made
  <1>5. ASSUME NEW rule, NEW p PROVE EdgeList(h(rule, p) \o <<>>, Keys(A))
    <2> DEFINE s == svc(p)
    <2>1. s \in Seq(A) BY <1>2
    <2>2. h(rule, p) = [k \in DOMAIN s |-> h(rule, p)[k]] OBVIOUS
    <2>3. \A k \in DOMAIN s : IsEdge(h(rule, p)[k], Keys(A)) BY <1>3, <2>1
    <2> HIDE DEF s, h
    <2> QED BY <2>1, <2>2, <2>3, Member, MapEdges
  <1> HIDE DEF h
  <1>6. ASSUME NEW i \in DOMAIN rules PROVE EdgeList(f[i], Keys(A))
    <2> DEFINE rule == rules[i]
               paths == rule.paths
    <2>1. f[i] = FlattenSeq(g(rule) \o <<>>) OBVIOUS
    <2> HIDE DEF f
    <2>2. IsList(paths) BY <1>4 DEF ToSet
    <2>3. g(rule) = [j \in DOMAIN paths |-> g(rule)[j]] OBVIOUS
    <2>4. \A j \in DOMAIN paths : EdgeList(g(rule)[j], Keys(A)) BY <1>5
    <2> HIDE DEF g, paths, rule
    <2> QED BY <2>1, <2>2, <2>3, <2>4, EachEdges
  <1>7. f = [i \in DOMAIN rules |-> f[i]] OBVIOUS
  <1> HIDE DEF f, rules
  <1> QED BY <1>1, <1>4, <1>6, <1>7, EachEdges

\* The edges of an HTTPRoute join assets.
LEMMA RouteEdges ==
  ASSUME NEW A, NEW assets \in Seq(A), NEW rt \in A, IsReadable(rt), rt.type \in HTTPRoutes
  PROVE  EdgeList(httpRouteBackendEdges(assets, rt), Keys(A))
  <1> DEFINE rules == Get(rt.raw, "rules", <<>>)
             hostnames == Get(rt.raw, "hostnames", <<>>)
             Host == IF hostnames = <<>> THEN "" ELSE hostnames[1]
             ns(br) == IF br.namespace = "" THEN Tag(rt, "namespace") ELSE br.namespace
             svc(br) == ServiceNamed(assets, ns(br), br.name)
             Made(br, s) == Edge(rt, s, "gateway-route", Host, br.port, "exact")
             h(br) == [k \in DOMAIN svc(br) |-> Made(br, svc(br)[k])]
             g(rule) == [j \in DOMAIN rule.backendRefs |-> h(rule.backendRefs[j]) \o <<>>]
             f == [i \in DOMAIN rules |-> FlattenSeq(g(rules[i]) \o <<>>)]
  <1>1. httpRouteBackendEdges(assets, rt) = FlattenSeq(f \o <<>>)
    BY Zenon DEF httpRouteBackendEdges, Each, Map
  <1> HIDE DEF Host, ns
  <1>2. \A br : svc(br) \in Seq(A) BY ServiceNamedIn
  <1>3. \A br : \A s \in A : IsEdge(Made(br, s), Keys(A)) BY Between, TheKinds
  <1>4. IsList(rules) /\ \A rule \in ToSet(rules) : IsList(rule.backendRefs)
    BY Zenon DEF IsReadable
  <1> HIDE DEF svc, Made
  <1>5. ASSUME NEW br PROVE EdgeList(h(br) \o <<>>, Keys(A))
    <2> DEFINE s == svc(br)
    <2>1. s \in Seq(A) BY <1>2
    <2>2. h(br) = [k \in DOMAIN s |-> h(br)[k]] OBVIOUS
    <2>3. \A k \in DOMAIN s : IsEdge(h(br)[k], Keys(A)) BY <1>3, <2>1
    <2> HIDE DEF s, h
    <2> QED BY <2>1, <2>2, <2>3, Member, MapEdges
  <1> HIDE DEF h
  <1>6. ASSUME NEW i \in DOMAIN rules PROVE EdgeList(f[i], Keys(A))
    <2> DEFINE rule == rules[i]
               refs == rule.backendRefs
    <2>1. f[i] = FlattenSeq(g(rule) \o <<>>) OBVIOUS
    <2> HIDE DEF f
    <2>2. IsList(refs) BY <1>4 DEF ToSet
    <2>3. g(rule) = [j \in DOMAIN refs |-> g(rule)[j]] OBVIOUS
    <2>4. \A j \in DOMAIN refs : EdgeList(g(rule)[j], Keys(A)) BY <1>5
    <2> HIDE DEF g, refs, rule
    <2> QED BY <2>1, <2>2, <2>3, <2>4, EachEdges
  <1>7. f = [i \in DOMAIN rules |-> f[i]] OBVIOUS
  <1> HIDE DEF f, rules
  <1> QED BY <1>1, <1>4, <1>6, <1>7, EachEdges

\* The edges of all routes join assets.
LEMMA GatewayEdges ==
  ASSUME NEW A, NEW assets \in Seq(A), \A a \in A : IsReadable(a)
  PROVE  EdgeList(gatewayToService(assets), Keys(A))
  <1> DEFINE I == {i \in DOMAIN assets : assets[i].provider = "kubernetes"}
             kube == At(assets, I)
             Made(a) == CASE a.type = "networking.k8s.io/v1.Ingress" -> ingressBackendEdges(assets, a)
                          [] a.type \in HTTPRoutes -> httpRouteBackendEdges(assets, a)
                          [] OTHER -> <<>>
             f == [i \in DOMAIN kube |-> Made(kube[i])]
  <1>1. gatewayToService(assets) = FlattenSeq(f \o <<>>)
    BY Zenon DEF gatewayToService, Each, Map, Filter
  <1>2. kube \in Seq(A)
    <2> HIDE DEF I
    <2> QED BY Picking
  <1>3. ASSUME NEW a \in A PROVE EdgeList(Made(a), Keys(A))
    <2>1. CASE a.type = "networking.k8s.io/v1.Ingress"
      <3>1. a.type \notin HTTPRoutes BY <2>1 DEF HTTPRoutes
      <3>2. Made(a) = ingressBackendEdges(assets, a) BY <2>1, <3>1, Zenon
      <3> QED BY <2>1, <3>2, IngressEdges
    <2>2. CASE a.type \in HTTPRoutes
      <3>1. a.type # "networking.k8s.io/v1.Ingress" BY <2>2 DEF HTTPRoutes
      <3>2. Made(a) = httpRouteBackendEdges(assets, a) BY <2>2, <3>1, Zenon
      <3> QED BY <2>2, <3>2, RouteEdges
    <2>3. CASE a.type # "networking.k8s.io/v1.Ingress" /\ a.type \notin HTTPRoutes
      <3>1. Made(a) = <<>> BY <2>3, Zenon
      <3> QED BY <3>1, NoEdges
    <2> QED BY <2>1, <2>2, <2>3
  <1> HIDE DEF kube, Made
  <1>4. f = [i \in DOMAIN kube |-> f[i]] /\ \A i \in DOMAIN kube : EdgeList(f[i], Keys(A))
    BY <1>2, <1>3
  <1> HIDE DEF f
  <1> QED BY <1>1, <1>2, <1>4, Member, EachEdges

\* The pods of an account are of the assets.
LEMMA PodsOfIn ==
  ASSUME NEW A, NEW s \in Seq(A), NEW account
  PROVE  PodsOf(s, account) \in Seq(A)
  <1> DEFINE pods == ByType(s, "v1.Pod")
             I == {i \in DOMAIN pods : pods[i].account = account}
  <1>1. PodsOf(s, account) = At(pods, I) BY DEF PodsOf, Filter
  <1>2. pods \in Seq(A) BY ByTypeIn
  <1> HIDE DEF I, pods
  <1> QED BY <1>1, <1>2, Picking

\* So are those of a namespace.
LEMMA PodsInIn ==
  ASSUME NEW A, NEW s \in Seq(A), NEW account, NEW ns
  PROVE  PodsIn(s, account, ns) \in Seq(A)
  <1> DEFINE pods == PodsOf(s, account)
             I == {i \in DOMAIN pods : Tag(pods[i], "namespace") = ns}
  <1>1. PodsIn(s, account, ns) = At(pods, I) BY DEF PodsIn, Filter
  <1>2. pods \in Seq(A) BY PodsOfIn
  <1> HIDE DEF I, pods
  <1> QED BY <1>1, <1>2, Picking

\* The edges from the Services to their pods join assets.
LEMMA ServiceEdges ==
  ASSUME NEW A, NEW assets \in Seq(A)
  PROVE  EdgeList(serviceToWorkload(assets), Keys(A))
  <1> DEFINE svcs == ByType(assets, "v1.Service")
             selector(svc) == Without(Get(svc.raw, "selector", NoRaw), "namespace")
             pods(svc) == PodsIn(assets, svc.account, Tag(svc, "namespace"))
             I(svc) == {i \in DOMAIN pods(svc) : labelsMatch(selector(svc), pods(svc)[i].tags)}
             on(svc) == At(pods(svc), I(svc))
             Made(svc, pod) == Exact(svc, pod, "service-backend")
             h(svc) == [k \in DOMAIN on(svc) |-> Made(svc, on(svc)[k])]
             g(svc) == IF DOMAIN selector(svc) = {} THEN <<>> ELSE h(svc) \o <<>>
             f == [i \in DOMAIN svcs |-> g(svcs[i])]
  <1>1. serviceToWorkload(assets) = FlattenSeq(f \o <<>>)
    BY Zenon DEF serviceToWorkload, Each, Map, Filter
  <1>2. \A svc : on(svc) \in Seq(A)
    <2> TAKE svc
    <2>1. pods(svc) \in Seq(A) BY PodsInIn
    <2> HIDE DEF pods, I
    <2> QED BY <2>1, Picking
  <1>3. \A svc \in A, pod \in A : IsEdge(Made(svc, pod), Keys(A)) BY Between, TheKinds
  <1> HIDE DEF on, Made, selector
  <1>4. ASSUME NEW svc \in A PROVE EdgeList(g(svc), Keys(A))
    <2> DEFINE s == on(svc)
    <2>1. s \in Seq(A) BY <1>2
    <2>2. h(svc) = [k \in DOMAIN s |-> h(svc)[k]] OBVIOUS
    <2>3. \A k \in DOMAIN s : IsEdge(h(svc)[k], Keys(A)) BY <1>3, <2>1
    <2> HIDE DEF s, h
    <2>4. EdgeList(h(svc) \o <<>>, Keys(A)) BY <2>1, <2>2, <2>3, Member, MapEdges
    <2> QED BY <2>4, NoEdges
  <1>5. svcs \in Seq(A) BY ByTypeIn
  <1> HIDE DEF g, svcs
  <1>6. f = [i \in DOMAIN svcs |-> f[i]] /\ \A i \in DOMAIN svcs : EdgeList(f[i], Keys(A))
    BY <1>4, <1>5
  <1> HIDE DEF f
  <1> QED BY <1>1, <1>5, <1>6, Member, EachEdges

\* The edges from what lies in a network to it join assets.
LEMMA OciEdges ==
  ASSUME NEW A, NEW assets \in Seq(A)
  PROVE  EdgeList(ociNetworkContainment(assets), Keys(A))
  <1> DEFINE rules == ociContainmentRules
             of(rule) == ByType(assets, rule[1])
             found(rule, a) == IF Tag(a, rule[2]) = "" THEN <<>> ELSE ById(assets, Tag(a, rule[2]))
             I(rule, a) == {i \in DOMAIN found(rule, a) : found(rule, a)[i].id # a.id}
             parent(rule, a) == At(found(rule, a), I(rule, a))
             Made(a, p) == Exact(a, p, "network-containment")
             h(rule, a) == [k \in DOMAIN parent(rule, a) |-> Made(a, parent(rule, a)[k])]
             g(rule) == [j \in DOMAIN of(rule) |-> h(rule, of(rule)[j]) \o <<>>]
             f == [i \in DOMAIN rules |-> FlattenSeq(g(rules[i]) \o <<>>)]
  <1>1. ociNetworkContainment(assets) = FlattenSeq(f \o <<>>)
    BY Zenon DEF ociNetworkContainment, Each, Map, Filter
  <1>2. \A rule, a : parent(rule, a) \in Seq(A)
    <2> TAKE rule, a
    <2>1. found(rule, a) \in {<<>>, ById(assets, Tag(a, rule[2]))} BY Zenon
    <2>2. ById(assets, Tag(a, rule[2])) \in Seq(A) /\ <<>> \in Seq(A) BY ByIdIn
    <2> HIDE DEF found
    <2>3. found(rule, a) \in Seq(A) BY <2>1, <2>2
    <2> HIDE DEF I
    <2> QED BY <2>3, Picking
  <1>3. \A a \in A, p \in A : IsEdge(Made(a, p), Keys(A)) BY Between, TheKinds
  <1> HIDE DEF parent, Made
  <1>4. ASSUME NEW rule, NEW a \in A PROVE EdgeList(h(rule, a) \o <<>>, Keys(A))
    <2> DEFINE s == parent(rule, a)
    <2>1. s \in Seq(A) BY <1>2
    <2>2. h(rule, a) = [k \in DOMAIN s |-> h(rule, a)[k]] OBVIOUS
    <2>3. \A k \in DOMAIN s : IsEdge(h(rule, a)[k], Keys(A)) BY <1>3, <2>1
    <2> HIDE DEF s, h
    <2> QED BY <2>1, <2>2, <2>3, Member, MapEdges
  <1> HIDE DEF h
  <1>5. ASSUME NEW rule PROVE EdgeList(FlattenSeq(g(rule) \o <<>>), Keys(A))
    <2> DEFINE s == of(rule)
    <2>1. s \in Seq(A) BY ByTypeIn
    <2>2. g(rule) = [j \in DOMAIN s |-> g(rule)[j]] OBVIOUS
    <2>3. \A j \in DOMAIN s : EdgeList(g(rule)[j], Keys(A)) BY <1>4, <2>1
    <2> HIDE DEF s, g
    <2> QED BY <2>1, <2>2, <2>3, Member, EachEdges
  <1>6. IsList(rules) BY SevenListed DEF ociContainmentRules
  <1> HIDE DEF g, rules
  <1>7. f = [i \in DOMAIN rules |-> f[i]] /\ \A i \in DOMAIN rules : EdgeList(f[i], Keys(A))
    BY <1>5
  <1> HIDE DEF f
  <1> QED BY <1>1, <1>6, <1>7, EachEdges

-----------------------------------------------------------------------------
(* Who may talk to whom.                                                   *)

\* The edges through a rule join assets.
LEMMA RuleEdges ==
  ASSUME NEW A, NEW rule \in A, NEW sources \in Seq(A), NEW destinations \in Seq(A),
         NEW kind \in EdgeKinds, NEW port
  PROVE  EdgeList(throughRule(rule, sources, destinations, kind, port), Keys(A))
  <1> DEFINE I(s) == {i \in DOMAIN s : s[i].id # rule.id}
             Other(s) == At(s, I(s))
             In(a) == Edge(a, rule, kind, "", port, "exact")
             Out(a) == Edge(rule, a, kind, "", port, "exact")
             f == [i \in DOMAIN Other(sources) |-> In(Other(sources)[i])]
             g == [i \in DOMAIN Other(destinations) |-> Out(Other(destinations)[i])]
  <1>1. throughRule(rule, sources, destinations, kind, port)
          = IF sources = <<>> \/ destinations = <<>> THEN <<>> ELSE (f \o <<>>) \o (g \o <<>>)
    BY Zenon DEF throughRule, Map, Filter
  <1>2. \A a \in A : IsEdge(In(a), Keys(A)) /\ IsEdge(Out(a), Keys(A))
    BY Between, Zenon
  <1>3. \A s \in Seq(A) : Other(s) \in Seq(A)
    <2> HIDE DEF I
    <2> QED BY Picking
  <1> HIDE DEF Other, In, Out
  <1>4. EdgeList(f \o <<>>, Keys(A))
    <2> DEFINE s == Other(sources)
    <2>1. s \in Seq(A) BY <1>3
    <2>2. f = [i \in DOMAIN s |-> f[i]] OBVIOUS
    <2>3. \A i \in DOMAIN s : IsEdge(f[i], Keys(A)) BY <1>2, <2>1
    <2> HIDE DEF s, f
    <2> QED BY <2>1, <2>2, <2>3, Member, MapEdges
  <1>5. EdgeList(g \o <<>>, Keys(A))
    <2> DEFINE s == Other(destinations)
    <2>1. s \in Seq(A) BY <1>3
    <2>2. g = [i \in DOMAIN s |-> g[i]] OBVIOUS
    <2>3. \A i \in DOMAIN s : IsEdge(g[i], Keys(A)) BY <1>2, <2>1
    <2> HIDE DEF s, g
    <2> QED BY <2>1, <2>2, <2>3, Member, MapEdges
  <1> HIDE DEF f, g
  <1>6. EdgeList((f \o <<>>) \o (g \o <<>>), Keys(A)) BY <1>4, <1>5, MoreEdges
  <1> QED BY <1>1, <1>6, NoEdges

\* The members of a group are of the assets.
LEMMA MembersIn ==
  ASSUME NEW A, NEW s \in Seq(A), NEW type, NEW key, NEW group
  PROVE  Members(s, type, key, group) \in Seq(A)
  <1> DEFINE of == ByType(s, type)
             I == {i \in DOMAIN of : group \in ToSet(TagList(of[i], key))}
  <1>1. Members(s, type, key, group) = At(of, I) BY DEF Members, Filter
  <1>2. of \in Seq(A) BY ByTypeIn
  <1> HIDE DEF I, of
  <1> QED BY <1>1, <1>2, Picking

\* What groups are expanded to is of the assets.
LEMMA GroupsIn ==
  ASSUME NEW A, NEW assets \in Seq(A), NEW ids, IsList(ids)
  PROVE  expandGroups(assets, ids) \in Seq(A)
  <1> DEFINE members(gid) == Members(assets, "netbird.peer", "group_ids", gid)
             Of(gid) == IF members(gid) # <<>> THEN members(gid) ELSE ById(assets, gid)
             f == [i \in DOMAIN ids |-> Of(ids[i])]
  <1>1. expandGroups(assets, ids) = FlattenSeq(f \o <<>>) BY Zenon DEF expandGroups, Each, Map
  <1>2. \A gid : Of(gid) \in Seq(A) BY MembersIn, ByIdIn
  <1> HIDE DEF Of
  <1>3. f = [i \in DOMAIN ids |-> f[i]] /\ \A i \in DOMAIN ids : f[i] \in Seq(A) BY <1>2
  <1> HIDE DEF f
  <1> QED BY <1>1, <1>3, EachIn

\* The edges of the NetBird rules join assets.
LEMMA NetbirdEdges ==
  ASSUME NEW A, NEW assets \in Seq(A), \A a \in A : IsReadable(a)
  PROVE  EdgeList(netbirdPolicyFlow(assets), Keys(A))
  <1> DEFINE rules == ByType(assets, "netbird.policy_rule")
             srcs(rule) == expandGroups(assets, TagList(rule, "sources"))
             dsts(rule) == expandGroups(assets, TagList(rule, "destinations"))
             Flow(rule, s, d) == throughRule(rule, s, d, TrafficEdgeKind(Tag(rule, "action")),
                                             singlePort(TagList(rule, "ports")))
             There(rule) == Flow(rule, srcs(rule), dsts(rule))
             Back(rule) == IF Tag(rule, "bidirectional") = "true"
                           THEN Flow(rule, dsts(rule), srcs(rule)) ELSE <<>>
             f == [i \in DOMAIN rules |-> There(rules[i]) \o Back(rules[i])]
  <1>1. netbirdPolicyFlow(assets) = FlattenSeq(f \o <<>>)
    BY Zenon DEF netbirdPolicyFlow, Each, Map
  <1>2. ASSUME NEW rule \in A, rule.type = "netbird.policy_rule"
        PROVE  EdgeList(There(rule) \o Back(rule), Keys(A))
    <2>1. IsList(TagList(rule, "sources")) /\ IsList(TagList(rule, "destinations"))
      BY <1>2, Zenon DEF IsReadable
    <2>2. srcs(rule) \in Seq(A) /\ dsts(rule) \in Seq(A) BY <2>1, GroupsIn
    <2> HIDE DEF srcs, dsts
    <2>3. \A s \in Seq(A), d \in Seq(A) : EdgeList(Flow(rule, s, d), Keys(A))
      BY RuleEdges, TheKinds, Zenon
    <2>4. EdgeList(There(rule), Keys(A)) BY <2>2, <2>3, Zenon
    <2>5. EdgeList(Back(rule), Keys(A)) BY <2>2, <2>3, NoEdges, Zenon
    <2> HIDE DEF There, Back
    <2> QED BY <2>4, <2>5, MoreEdges
  <1> HIDE DEF There, Back
  <1>3. f = [i \in DOMAIN rules |-> f[i]] /\ \A i \in DOMAIN rules : EdgeList(f[i], Keys(A))
    BY <1>2, ByTypeHolds
  <1>4. rules \in Seq(A) BY ByTypeIn
  <1> HIDE DEF f, rules
  <1> QED BY <1>1, <1>3, <1>4, Member, EachEdges

\* What is looked up by type and name is of the assets.
LEMMA NamedIn ==
  ASSUME NEW A, NEW s \in Seq(A), NEW type, NEW name
  PROVE  NamedOfType(s, type, name) \in Seq(A)
  <1> DEFINE of == ByType(s, type)
             I == {i \in DOMAIN of : of[i].name = name}
  <1>1. NamedOfType(s, type, name) = At(of, I) BY DEF NamedOfType, Filter
  <1>2. of \in Seq(A) BY ByTypeIn
  <1> HIDE DEF I, of
  <1> QED BY <1>1, <1>2, Picking

\* What a Tailscale selector names is of the assets.
LEMMA SelectorIn ==
  ASSUME NEW A, NEW assets \in Seq(A), NEW sel, sel.form \in SelectorForms
  PROVE  resolveTailscaleSelector(assets, sel) \in Seq(A)
  <1> DEFINE base == sel.base
             devices == Members(assets, "tailscale.device", "acl_tags", base)
             tags == NamedOfType(assets, "tailscale.acl_tag", base)
             groups == NamedOfType(assets, "tailscale.acl_group", base)
             hosts == NamedOfType(assets, "tailscale.acl_host", base)
             I == {i \in DOMAIN assets :
                     /\ assets[i].type = "tailscale.user" /\ Tag(assets[i], "login_name") # ""
                     /\ Mapped(LowerCase, Tag(assets[i], "login_name")) = Mapped(LowerCase, base)}
             user == LastOf(At(assets, I))
             named == ByAddress(assets, normalizeHost(base))
             addressed == ByAddress(assets, base)
             found == resolveTailscaleSelector(assets, sel)
  <1>1. /\ devices \in Seq(A) /\ tags \in Seq(A) /\ groups \in Seq(A) /\ hosts \in Seq(A)
        /\ named \in Seq(A) /\ addressed \in Seq(A)
    BY MembersIn, NamedIn, ByAddressIn
  <1>2. user \in Seq(A)
    <2> HIDE DEF I
    <2> QED BY Picking, PickingLast
  <1>3. <<>> \in Seq(A) OBVIOUS
  <1>4. CASE sel.form = "wildcard"
    <2>1. found = <<>> BY <1>4, Zenon DEF resolveTailscaleSelector
    <2> QED BY <2>1, <1>3, Zenon
  <1>5. CASE sel.form = "tag"
    <2>1. found = IF devices # <<>> THEN devices ELSE tags
      BY <1>5, Zenon DEF resolveTailscaleSelector
    <2> QED BY <2>1, <1>1, Zenon
  <1>6. CASE sel.form = "group"
    <2>1. found = groups BY <1>6, Zenon DEF resolveTailscaleSelector
    <2> QED BY <2>1, <1>1, Zenon
  <1>7. CASE sel.form = "user"
    <2>1. found = user BY <1>7, Zenon DEF resolveTailscaleSelector, LastWith, Filter, LastOf
    <2> QED BY <2>1, <1>2, Zenon
  <1>8. CASE sel.form = "bare"
    <2>1. found = IF hosts # <<>> THEN hosts ELSE IF named # <<>> THEN named ELSE addressed
      BY <1>8, Zenon DEF resolveTailscaleSelector
    <2> QED BY <2>1, <1>1, Zenon
  <1> QED BY <1>4, <1>5, <1>6, <1>7, <1>8, Zenon DEF SelectorForms

\* The edges of the Tailscale rules join assets.
LEMMA TailscaleEdges ==
  ASSUME NEW A, NEW assets \in Seq(A), \A a \in A : IsReadable(a)
  PROVE  EdgeList(tailscaleACLFlow(assets), Keys(A))
  <1> DEFINE rules == ByType(assets, "tailscale.acl_rule")
             g(rule, key) == [j \in DOMAIN TagList(rule, key) |->
                                resolveTailscaleSelector(assets, TagList(rule, key)[j])]
             Assets(rule, key) == FlattenSeq(g(rule, key) \o <<>>)
             Flow(rule) == throughRule(rule, Assets(rule, "src"), Assets(rule, "dst"),
                                       TrafficEdgeKind(Tag(rule, "action")),
                                       PortOf(TagList(rule, "dst")))
             f == [i \in DOMAIN rules |-> Flow(rules[i])]
  <1>1. tailscaleACLFlow(assets) = FlattenSeq(f \o <<>>) BY Zenon DEF tailscaleACLFlow, Each, Map
  <1>2. ASSUME NEW rule \in A, rule.type = "tailscale.acl_rule", NEW key \in {"src", "dst"}
        PROVE  Assets(rule, key) \in Seq(A)
    <2> DEFINE sels == TagList(rule, key)
               h == g(rule, key)
    <2>1. IsList(sels) /\ \A sel \in ToSet(sels) : sel.form \in SelectorForms
      BY <1>2, Zenon DEF IsReadable
    <2>2. h = [j \in DOMAIN sels |-> h[j]] OBVIOUS
    <2>3. \A j \in DOMAIN sels : h[j] \in Seq(A) BY <2>1, SelectorIn DEF ToSet
    <2> HIDE DEF sels, h
    <2> QED BY <2>1, <2>2, <2>3, EachIn DEF h
  <1> HIDE DEF Assets
  <1>3. ASSUME NEW rule \in A, rule.type = "tailscale.acl_rule"
        PROVE  EdgeList(Flow(rule), Keys(A))
    <2>1. Assets(rule, "src") \in Seq(A) /\ Assets(rule, "dst") \in Seq(A) BY <1>2, <1>3
    <2> QED BY <2>1, RuleEdges, TheKinds, Zenon
  <1> HIDE DEF Flow
  <1>4. f = [i \in DOMAIN rules |-> f[i]] /\ \A i \in DOMAIN rules : EdgeList(f[i], Keys(A))
    BY <1>3, ByTypeHolds
  <1>5. rules \in Seq(A) BY ByTypeIn
  <1> HIDE DEF f, rules
  <1> QED BY <1>1, <1>4, <1>5, Member, EachEdges

\* Pods that match are of the pods there are.
LEMMA MatchPodsIn ==
  ASSUME NEW A, NEW s \in Seq(A), NEW sel
  PROVE  matchPods(s, sel) \in Seq(A)
  <1> DEFINE I == {i \in DOMAIN s : labelsMatch(Without(sel, "namespace"), s[i].tags)}
  <1>1. matchPods(s, sel) = At(s, I) BY DEF matchPods, Filter
  <1> HIDE DEF I
  <1> QED BY <1>1, Picking

\* The peers of a network policy are of the assets.
LEMMA PeersIn ==
  ASSUME NEW A, NEW assets \in Seq(A), NEW pol, NEW peers, IsList(peers)
  PROVE  resolveNetPolPeers(assets, pol, peers) \in Seq(A)
  <1> DEFINE scope(peer) == IF peer.scope = "all" THEN PodsOf(assets, pol.account)
                            ELSE PodsIn(assets, pol.account, Tag(pol, "namespace"))
             Of(peer) == IF peer.scope \in {"ipBlock", "labelled"} \/ peer.expressions THEN <<>>
                         ELSE matchPods(scope(peer), peer.labels)
             f == [i \in DOMAIN peers |-> Of(peers[i])]
  <1>1. resolveNetPolPeers(assets, pol, peers) = FlattenSeq(f \o <<>>)
    BY Zenon DEF resolveNetPolPeers, Each, Map
  <1>2. \A peer : scope(peer) \in Seq(A) BY PodsOfIn, PodsInIn
  <1>3. <<>> \in Seq(A) OBVIOUS
  <1> HIDE DEF scope
  <1>4. ASSUME NEW peer PROVE Of(peer) \in Seq(A)
    <2>1. matchPods(scope(peer), peer.labels) \in Seq(A) BY <1>2, MatchPodsIn
    <2> QED BY <1>3, <2>1, Zenon
  <1> HIDE DEF Of
  <1>5. f = [i \in DOMAIN peers |-> f[i]] /\ \A i \in DOMAIN peers : f[i] \in Seq(A) BY <1>4
  <1> HIDE DEF f
  <1> QED BY <1>1, <1>5, EachIn

\* The edges of the network policies join assets.
LEMMA NetPolEdges ==
  ASSUME NEW A, NEW assets \in Seq(A), \A a \in A : IsReadable(a)
  PROVE  EdgeList(kubeNetworkPolicyFlow(assets), Keys(A))
  <1> DEFINE pols == ByType(assets, "networking.k8s.io/v1.NetworkPolicy")
             selected(pol) == matchPods(PodsIn(assets, pol.account, Tag(pol, "namespace")),
                                        Get(pol.raw, "podSelector", NoRaw))
             peers(pol, r) == resolveNetPolPeers(assets, pol, r.peers)
             Flow(pol, s, d, r) == throughRule(pol, s, d, "traffic-allow", singlePort(r.ports))
             rules(pol, key) == Get(pol.raw, key, <<>>)
             ing(pol) == [j \in DOMAIN rules(pol, "ingress") |->
                            Flow(pol, peers(pol, rules(pol, "ingress")[j]), selected(pol),
                                 rules(pol, "ingress")[j])]
             eg(pol) == [j \in DOMAIN rules(pol, "egress") |->
                           Flow(pol, selected(pol), peers(pol, rules(pol, "egress")[j]),
                                rules(pol, "egress")[j])]
             Both(pol) == FlattenSeq(ing(pol) \o <<>>) \o FlattenSeq(eg(pol) \o <<>>)
             Of(pol) == IF ~HasRaw(pol) \/ selected(pol) = <<>> THEN <<>> ELSE Both(pol)
             f == [i \in DOMAIN pols |-> Of(pols[i])]
  <1>1. kubeNetworkPolicyFlow(assets) = FlattenSeq(f \o <<>>)
    BY Zenon DEF kubeNetworkPolicyFlow, Each, Map
  <1>2. ASSUME NEW pol \in A, pol.type = "networking.k8s.io/v1.NetworkPolicy"
        PROVE  EdgeList(Of(pol), Keys(A))
    <2>1. selected(pol) \in Seq(A) BY PodsInIn, MatchPodsIn
    <2>2. \A key \in {"ingress", "egress"} :
            IsList(rules(pol, key)) /\ \A r \in ToSet(rules(pol, key)) : IsList(r.peers)
      BY <1>2, Zenon DEF IsReadable
    <2>3. \A key \in {"ingress", "egress"} : \A j \in DOMAIN rules(pol, key) :
            peers(pol, rules(pol, key)[j]) \in Seq(A)
      BY <2>2, PeersIn DEF ToSet
    <2> HIDE DEF selected, rules, peers
    <2>4. \A s \in Seq(A), d \in Seq(A) : \A r : EdgeList(Flow(pol, s, d, r), Keys(A))
      BY RuleEdges, TheKinds, Zenon
    <2> HIDE DEF Flow
    <2>5. EdgeList(FlattenSeq(ing(pol) \o <<>>), Keys(A))
      <3> DEFINE s == rules(pol, "ingress")
                 g == ing(pol)
      <3>1. IsList(s) BY <2>2
      <3>2. g = [j \in DOMAIN s |-> g[j]] OBVIOUS
      <3>3. \A j \in DOMAIN s : EdgeList(g[j], Keys(A)) BY <2>1, <2>3, <2>4
      <3> HIDE DEF s, g
      <3>4. EdgeList(FlattenSeq(g \o <<>>), Keys(A)) BY <3>1, <3>2, <3>3, EachEdges
      <3> QED BY <3>4 DEF g
    <2>6. EdgeList(FlattenSeq(eg(pol) \o <<>>), Keys(A))
      <3> DEFINE s == rules(pol, "egress")
                 g == eg(pol)
      <3>1. IsList(s) BY <2>2
      <3>2. g = [j \in DOMAIN s |-> g[j]] OBVIOUS
      <3>3. \A j \in DOMAIN s : EdgeList(g[j], Keys(A)) BY <2>1, <2>3, <2>4
      <3> HIDE DEF s, g
      <3>4. EdgeList(FlattenSeq(g \o <<>>), Keys(A)) BY <3>1, <3>2, <3>3, EachEdges
      <3> QED BY <3>4 DEF g
    <2> HIDE DEF ing, eg
    <2>7. EdgeList(Both(pol), Keys(A)) BY <2>5, <2>6, MoreEdges
    <2> HIDE DEF Both
    <2> QED BY <2>7, NoEdges, Zenon
  <1> HIDE DEF Of
  <1>3. f = [i \in DOMAIN pols |-> f[i]] /\ \A i \in DOMAIN pols : EdgeList(f[i], Keys(A))
    BY <1>2, ByTypeHolds
  <1>4. pols \in Seq(A) BY ByTypeIn
  <1> HIDE DEF f, pols
  <1> QED BY <1>1, <1>3, <1>4, Member, EachEdges

-----------------------------------------------------------------------------
(* The graph.                                                              *)

\* Every edge of the graph joins two of its nodes: no resolver invents an end
\* (Build, topology.go: it only links assets that were collected).
LEMMA BuildJoins ==
  ASSUME NEW A, NEW assets \in Seq(A), \A a \in A : IsReadable(a)
  PROVE  EdgeList(Build(assets).edges, Keys(A))
  <1> DEFINE K == Keys(A)
             e1 == dnsToTarget(assets)
             e2 == wafBinding(assets)
             e3 == lbToGateway(assets)
             e4 == gatewayToService(assets)
             e5 == serviceToWorkload(assets)
             e6 == ociNetworkContainment(assets)
             e7 == kubeNetworkPolicyFlow(assets)
             e8 == tailscaleACLFlow(assets)
             e9 == netbirdPolicyFlow(assets)
             all == e1 \o e2 \o e3 \o e4 \o e5 \o e6 \o e7 \o e8 \o e9
             I == {i \in DOMAIN all : \A j \in 1..(i - 1) : edgeKey(all[j]) # edgeKey(all[i])}
  <1>1. /\ EdgeList(e1, K) /\ EdgeList(e2, K) /\ EdgeList(e3, K) /\ EdgeList(e4, K)
        /\ EdgeList(e5, K) /\ EdgeList(e6, K) /\ EdgeList(e7, K) /\ EdgeList(e8, K)
        /\ EdgeList(e9, K)
    BY DnsEdges, WafEdges, LbEdges, GatewayEdges, ServiceEdges, OciEdges, NetPolEdges,
       TailscaleEdges, NetbirdEdges
  <1>2. Build(assets).edges = At(all, I) BY DEF Build, dedupEdges, FirstOfEach
  <1> HIDE DEF e1, e2, e3, e4, e5, e6, e7, e8, e9, K
  <1>3. EdgeList(all, K)
    <2>1. EdgeList(e1 \o e2 \o e3, K) BY <1>1, MoreEdges
    <2>2. EdgeList(e1 \o e2 \o e3 \o e4, K) BY <1>1, <2>1, MoreEdges
    <2>3. EdgeList(e1 \o e2 \o e3 \o e4 \o e5, K) BY <1>1, <2>2, MoreEdges
    <2>4. EdgeList(e1 \o e2 \o e3 \o e4 \o e5 \o e6, K) BY <1>1, <2>3, MoreEdges
    <2>5. EdgeList(e1 \o e2 \o e3 \o e4 \o e5 \o e6 \o e7, K) BY <1>1, <2>4, MoreEdges
    <2>6. EdgeList(e1 \o e2 \o e3 \o e4 \o e5 \o e6 \o e7 \o e8, K) BY <1>1, <2>5, MoreEdges
    <2> QED BY <1>1, <2>6, MoreEdges
  <1> HIDE DEF all, I
  <1>4. all \in Seq(ToSet(all)) BY <1>3 DEF EdgeList, IsList
  <1>5. /\ At(all, I) \in Seq(ToSet(all))
        /\ ToSet(At(all, I)) = {all[i] : i \in I \cap 1..Len(all)}
    BY <1>4, AtElements
  <1>6. ToSet(At(all, I)) \subseteq ToSet(all) BY <1>4, <1>5 DEF ToSet
  <1>7. IsList(At(all, I)) BY <1>5, Member
  <1>8. EdgeList(At(all, I), K) BY <1>3, <1>6, <1>7 DEF EdgeList
  <1> QED BY <1>2, <1>8 DEF K

-----------------------------------------------------------------------------
(* What is joined to the given nodes.                                      *)

\* With an end of an edge, C has the other.
ClosedUnder(C, E) == \A e \in E : Ends(e) \cap C # {} => Ends(e) \subseteq C

\* C is what the edges join to the seeds: closed, and in everything that is.
IsJoinedTo(C, seeds, E) ==
  /\ seeds \subseteq C /\ ClosedUnder(C, E)
  /\ \A D : seeds \subseteq D /\ ClosedUnder(D, E) => C \subseteq D

\* There is only one such set.
LEMMA OneJoinedTo ==
  ASSUME NEW C, NEW D, NEW seeds, NEW E, IsJoinedTo(C, seeds, E), IsJoinedTo(D, seeds, E)
  PROVE  C = D
  BY Zenon DEF IsJoinedTo

\* The list of a set is as long as the set is large.
LEMMA SetToSeqLength ==
  ASSUME NEW S, IsFiniteSet(S)
  PROVE  /\ SetToSeq(S) \in Seq(S) /\ Len(SetToSeq(S)) = Cardinality(S)
         /\ ToSet(SetToSeq(S)) = S
  <1> DEFINE s == SetToSeq(S)
  <1>1. /\ s \in Seq(S)
        /\ \A i, j \in 1..Len(s) : s[i] = s[j] => i = j
        /\ \A x \in S : \E i \in 1..Len(s) : s[i] = x
    BY SetToSeqLists
  <1> HIDE DEF s
  <1>2. s \in [1..Len(s) -> S] /\ Len(s) \in Nat BY <1>1
  <1>3. s \in Injection(1..Len(s), S) BY <1>1, <1>2 DEF Injection, IsInjective
  <1>4. s \in Surjection(1..Len(s), S) BY <1>1, <1>2 DEF Surjection
  <1>5. Cardinality(1..Len(s)) = Cardinality(S) BY <1>3, <1>4, FS_Injection
  <1>6. Cardinality(1..Len(s)) = Len(s)
    <2> DEFINE n == Len(s)
    <2>1. n \in Nat BY <1>2
    <2> HIDE DEF n
    <2>2. Cardinality(1..n) = n BY <2>1, FS_Interval
    <2> QED BY <2>2 DEF n
  <1>7. ToSet(s) = S BY <1>1 DEF ToSet
  <1> QED BY <1>1, <1>5, <1>6, <1>7 DEF s

\* There are no more nodes than assets.
LEMMA KeysOfList ==
  ASSUME NEW A, NEW s \in Seq(A)
  PROVE  /\ IsFiniteSet(Keys(ToSet(s))) /\ Cardinality(Keys(ToSet(s))) \in Nat
         /\ Cardinality(Keys(ToSet(s))) <= Len(s)
  <1> DEFINE K == Keys(ToSet(s))
             n == Len(s)
             f == [i \in 1..n |-> nodeKey(s[i])]
  <1>1. n \in Nat /\ DOMAIN s = 1..n OBVIOUS
  <1>2. f \in [1..n -> K] BY <1>1 DEF Keys, ToSet
  <1>3. \A k \in K : \E i \in 1..n : f[i] = k BY <1>1 DEF Keys, ToSet
  <1> HIDE DEF K, f, n
  <1>4. f \in Surjection(1..n, K) BY <1>2, <1>3 DEF Surjection
  <1>5. IsFiniteSet(1..n) /\ Cardinality(1..n) = n BY <1>1, FS_Interval
  <1>6. IsFiniteSet(K) /\ Cardinality(K) <= n BY <1>4, <1>5, FS_Surjection
  <1>7. Cardinality(K) \in Nat BY <1>6, FS_CardinalityType
  <1> QED BY <1>6, <1>7 DEF K, n

\* Where a breadth-first search over the edges E from the seeds is, after n
\* rounds: what it has marked is joined to the seeds, the neighbours of what it
\* has taken from the queue are marked, and it has taken one a round.
Searching(s, n, seeds, E) ==
  /\ seeds \subseteq s.keep /\ ToSet(s.queue) \subseteq s.keep
  /\ \A e \in E : Ends(e) \cap (s.keep \ ToSet(s.queue)) # {} => Ends(e) \subseteq s.keep
  /\ \A D : seeds \subseteq D /\ ClosedUnder(D, E) => s.keep \subseteq D
  /\ s.queue = <<>> \/ Cardinality(s.keep) = Len(s.queue) + n

\* The states of a search among the nodes U.
Searches(U) == [keep : SUBSET U, queue : Seq(U)]

\* A round of the search stays within the nodes and keeps what a search is.
LEMMA VisitStep ==
  ASSUME NEW topo, NEW U, IsFiniteSet(U), \A e \in ToSet(topo.edges) : Ends(e) \subseteq U,
         NEW s \in Searches(U)
  PROVE  /\ Visit(topo, s) \in Searches(U)
         /\ \A n \in Nat, seeds \in SUBSET U :
              Searching(s, n, seeds, ToSet(topo.edges))
                => Searching(Visit(topo, s), n + 1, seeds, ToSet(topo.edges))
  <1> DEFINE E == ToSet(topo.edges)
             touched == {x \in E : s.queue[1] \in Ends(x)}
             near == UNION {Ends(e) : e \in touched}
             new == near \ s.keep
             v == Visit(topo, s)
  <1>0. \A e \in E : Ends(e) \subseteq U OBVIOUS
  <1>1. v = IF s.queue = <<>> THEN s
            ELSE [keep |-> s.keep \cup new, queue |-> Tail(s.queue) \o SetToSeq(new)]
    BY DEF Visit
  <1>2. s.keep \in SUBSET U /\ s.queue \in Seq(U) BY DEF Searches
  <1>3. new \in SUBSET U BY <1>0
  <1>4. \A x \in touched : x \in E /\ s.queue[1] \in Ends(x) OBVIOUS
  <1> HIDE DEF E
  <1>5. ASSUME NEW x \in E, s.queue[1] \in Ends(x) PROVE Ends(x) \subseteq s.keep \cup new
    <2>1. x \in touched BY <1>5
    <2> HIDE DEF touched
    <2>2. Ends(x) \subseteq near BY <2>1
    <2> HIDE DEF near
    <2> QED BY <2>2
  <1> HIDE DEF touched
  <1>6. \A k \in near : \E x \in touched : k \in Ends(x) OBVIOUS
  <1> HIDE DEF near
  <1>7. new \cap s.keep = {} /\ \A k \in new : \E x \in touched : k \in Ends(x) BY <1>6
  <1> HIDE DEF new, v
  <1>8. IsFiniteSet(new) /\ IsFiniteSet(s.keep) BY <1>2, <1>3, FS_Subset
  <1>9. SetToSeq(new) \in Seq(new) /\ Len(SetToSeq(new)) = Cardinality(new)
        /\ ToSet(SetToSeq(new)) = new
    BY <1>8, SetToSeqLength
  <1>10. CASE s.queue = <<>>
    <2>1. v = s BY <1>1, <1>10
    <2>2. \A n \in Nat : \A seeds : Searching(s, n, seeds, E) => Searching(s, n + 1, seeds, E)
      BY <1>10 DEF Searching
    <2> QED BY <2>1, <2>2 DEF v, E
  <1>11. CASE s.queue # <<>>
    <2> DEFINE rest == Tail(s.queue)
               more == SetToSeq(new)
    <2>1. v = [keep |-> s.keep \cup new, queue |-> rest \o more] BY <1>1, <1>11
    <2>2. rest \in Seq(U) /\ Len(rest) = Len(s.queue) - 1 /\ Len(rest) \in Nat
      BY <1>2, <1>11
    <2>3. ToSet(s.queue) = {s.queue[1]} \cup ToSet(rest)
      <3>1. s.queue = <<s.queue[1]>> \o rest BY <1>2, <1>11
      <3>2. <<s.queue[1]>> \in Seq(U) BY <1>2, <1>11
      <3>3. ToSet(<<s.queue[1]>>) = {s.queue[1]} BY DEF ToSet
      <3> HIDE DEF rest
      <3>4. ToSet(<<s.queue[1]>> \o rest) = ToSet(<<s.queue[1]>>) \cup ToSet(rest)
        BY <3>2, <2>2, ConcatElements
      <3> QED BY <3>1, <3>3, <3>4
    <2>4. more \in Seq(U) /\ Len(more) = Cardinality(new) /\ ToSet(more) = new
      <3>1. SetToSeq(new) \in Seq(U) BY <1>3, <1>9, Widen
      <3> QED BY <3>1, <1>9
    <2> HIDE DEF rest, more
    <2>5. v.keep = s.keep \cup new /\ v.queue = rest \o more BY <2>1
    <2>6. ToSet(v.queue) = ToSet(rest) \cup new BY <2>2, <2>4, <2>5, ConcatElements
    <2>7. v \in Searches(U)
      <3>1. rest \o more \in Seq(U) BY <2>2, <2>4
      <3>2. s.keep \cup new \in SUBSET U BY <1>2, <1>3
      <3> QED BY <2>1, <3>1, <3>2 DEF Searches
    <2>8. ASSUME NEW n \in Nat, NEW seeds \in SUBSET U, Searching(s, n, seeds, E)
          PROVE  Searching(v, n + 1, seeds, E)
      <3>1. seeds \subseteq v.keep /\ ToSet(v.queue) \subseteq v.keep
        BY <2>3, <2>5, <2>6, <2>8 DEF Searching
      <3>2. ASSUME NEW e \in E, NEW k \in Ends(e) \cap (v.keep \ ToSet(v.queue))
            PROVE  Ends(e) \subseteq v.keep
        <4>1. k \in s.keep /\ k \notin ToSet(rest) BY <3>2, <2>5, <2>6
        <4>2. CASE k = s.queue[1] BY <4>2, <3>2, <1>5, <2>5
        <4>3. CASE k # s.queue[1]
          <5>1. k \in s.keep \ ToSet(s.queue) BY <4>1, <4>3, <2>3
          <5>2. Ends(e) \subseteq s.keep BY <5>1, <3>2, <2>8 DEF Searching
          <5> QED BY <5>2, <2>5
        <4> QED BY <4>2, <4>3
      <3>3. ASSUME NEW D, seeds \subseteq D, ClosedUnder(D, E) PROVE v.keep \subseteq D
        <4>1. s.keep \subseteq D BY <3>3, <2>8 DEF Searching
        <4>2. s.queue[1] \in s.keep BY <2>3, <2>8 DEF Searching
        <4>3. \A x \in touched : Ends(x) \subseteq D BY <4>1, <4>2, <3>3, <1>4 DEF ClosedUnder
        <4>4. new \subseteq D BY <4>3, <1>7
        <4> QED BY <4>1, <4>4, <2>5
      <3>4. Cardinality(v.keep) = Len(v.queue) + (n + 1)
        <4>1. Cardinality(s.keep) = Len(s.queue) + n BY <1>11, <2>8 DEF Searching
        <4>2. Cardinality(s.keep \cup new)
                = Cardinality(s.keep) + Cardinality(new) - Cardinality(s.keep \cap new)
          BY <1>8, FS_Union
        <4>3. Cardinality(s.keep \cap new) = 0
          <5>1. s.keep \cap new = {} BY <1>7
          <5> QED BY <5>1, FS_EmptySet
        <4>4. Len(v.queue) = Len(rest) + Len(more)
          <5>1. Len(rest \o more) = Len(rest) + Len(more) BY <2>2, <2>4
          <5> QED BY <5>1, <2>5
        <4>5. Cardinality(s.keep) \in Nat /\ Cardinality(new) \in Nat BY <1>8, FS_CardinalityType
        <4>6. Len(s.queue) \in Nat BY <1>2
        <4>7. Cardinality(v.keep) = Cardinality(s.keep) + Cardinality(new) - 0
          BY <4>2, <4>3, <2>5
        <4>8. Len(v.queue) = Len(s.queue) - 1 + Cardinality(new) BY <4>4, <2>2, <2>4
        <4> DEFINE a == Cardinality(v.keep)
                   b == Cardinality(s.keep)
                   c == Cardinality(new)
                   d == Len(v.queue)
                   l == Len(s.queue)
        <4> HIDE DEF a, b, c, d, l
        <4>9. b \in Nat /\ c \in Nat /\ l \in Nat BY <4>5, <4>6 DEF b, c, l
        <4>10. b = l + n /\ a = b + c - 0 /\ d = l - 1 + c BY <4>1, <4>7, <4>8 DEF a, b, c, d, l
        <4>11. a = d + (n + 1) BY <4>9, <4>10
        <4> QED BY <4>11 DEF a, d
      <3> QED BY <3>1, <3>2, <3>3, <3>4 DEF Searching
    <2> QED BY <2>7, <2>8 DEF v, E
  <1> QED BY <1>10, <1>11

\* The search marks what is joined to the seeds, and nothing else
\* (Topology.FilterByHostname: the queue runs empty).
LEMMA ComponentIsJoined ==
  ASSUME NEW topo, NEW seeds,
         IsFiniteSet(seeds \cup Incident(topo))
  PROVE  IsJoinedTo(Component(topo, seeds), seeds, ToSet(topo.edges))
  <1> DEFINE U == seeds \cup Incident(topo)
             E == ToSet(topo.edges)
             N == Cardinality(U)
             start == [keep |-> seeds, queue |-> SetToSeq(seeds)]
             V == Searches(U)
             step == [x \in (1..N) \X V |-> Visit(topo, x[2])]
             Def(f) == [n \in 0..N |-> IF n = 0 THEN start ELSE Visit(topo, f[n - 1])]
             P == CHOOSE f : f = Def(f)
  <1>1. IsFiniteSet(U) /\ N \in Nat BY FS_CardinalityType
  <1>2. \A e \in E : Ends(e) \subseteq U BY DEF Incident
  <1>3. IsFiniteSet(seeds) /\ seeds \in SUBSET U BY <1>1, FS_Subset
  <1>4. Component(topo, seeds) = P[N].keep BY DEF Component
  <1>5. /\ SetToSeq(seeds) \in Seq(seeds) /\ Len(SetToSeq(seeds)) = Cardinality(seeds)
        /\ ToSet(SetToSeq(seeds)) = seeds
    BY <1>3, SetToSeqLength
  <1>6. SetToSeq(seeds) \in Seq(U) BY <1>3, <1>5, Widen
  <1> HIDE DEF U, N
  <1>7. start \in V BY <1>3, <1>6 DEF Searches
  <1>8. Searching(start, 0, seeds, E)
    <2>1. Cardinality(seeds) \in Nat BY <1>3, FS_CardinalityType
    <2>2. Cardinality(seeds) = Len(SetToSeq(seeds)) + 0 BY <1>5, <2>1
    <2>3. start.keep = seeds /\ start.queue = SetToSeq(seeds) OBVIOUS
    <2> HIDE DEF start, E
    <2> QED BY <1>5, <2>2, <2>3 DEF Searching
  <1>9. ASSUME NEW s \in V
        PROVE  /\ Visit(topo, s) \in V
               /\ \A n \in Nat : Searching(s, n, seeds, E) => Searching(Visit(topo, s), n + 1, seeds, E)
    BY <1>1, <1>2, <1>3, VisitStep
  <1>10. step \in [(1..N) \X V -> V] BY <1>9
  <1>11. \A i \in 1..N, s \in V : step[<<i, s>>] = Visit(topo, s) OBVIOUS
  <1> HIDE DEF V, E, start, step
  <1>12. PICK f \in [0..N -> V] : Follows(f, N, start, step)
    BY <1>1, <1>7, <1>10, RecursionExists
  <1>13. f[0] = start /\ \A i \in 1..N : f[i] = step[<<i, f[i - 1]>>] BY <1>12 DEF Follows
  <1>14. \A i \in 1..N : f[i - 1] \in V BY <1>1
  <1>15. \A i \in 0..N : f[i] = IF i = 0 THEN start ELSE Visit(topo, f[i - 1])
    <2> TAKE i \in 0..N
    <2>1. CASE i = 0 BY <2>1, <1>13
    <2>2. CASE i # 0
      <3>1. i \in 1..N BY <2>2, <1>1
      <3> QED BY <3>1, <1>11, <1>13, <1>14
    <2> QED BY <2>1, <2>2
  <1>16. f = Def(f) BY <1>15
  <1>17. P = Def(P) BY <1>16
  <1> HIDE DEF P
  <1>18. \A i \in 0..N : P[i] = IF i = 0 THEN start ELSE Visit(topo, P[i - 1]) BY <1>17
  <1> HIDE DEF Def
  <1> DEFINE S == {m \in Nat : m <= N => P[m] \in V /\ Searching(P[m], m, seeds, E)}
  <1>19. 0 \in S
    <2>1. P[0] = start BY <1>18, <1>1
    <2> QED BY <2>1, <1>7, <1>8
  <1>20. ASSUME NEW m \in Nat, m \in S PROVE m + 1 \in S
    <2> SUFFICES ASSUME m + 1 <= N PROVE P[m + 1] \in V /\ Searching(P[m + 1], m + 1, seeds, E)
      OBVIOUS
    <2>1. m + 1 \in 0..N /\ m + 1 # 0 /\ (m + 1) - 1 = m /\ m <= N BY <1>1
    <2>2. P[m + 1] = Visit(topo, P[m]) BY <2>1, <1>18
    <2>3. P[m] \in V /\ Searching(P[m], m, seeds, E) BY <1>20, <2>1
    <2> QED BY <2>2, <2>3, <1>9
  <1> HIDE DEF S
  <1>21. N \in S BY <1>1, <1>19, <1>20, Induct
  <1> DEFINE s == P[N]
  <1>22. s \in V /\ Searching(s, N, seeds, E) BY <1>21, <1>1 DEF S
  <1> HIDE DEF s
  <1>23. s.keep \in SUBSET U /\ s.queue \in Seq(U) BY <1>22 DEF V, Searches
  <1>24. s.queue = <<>>
    <2> SUFFICES ASSUME s.queue # <<>> PROVE FALSE OBVIOUS
    <2>1. Cardinality(s.keep) = Len(s.queue) + N BY <1>22 DEF Searching
    <2>2. Cardinality(s.keep) <= N /\ IsFiniteSet(s.keep) BY <1>1, <1>23, FS_Subset DEF N
    <2>3. Len(s.queue) \in Nat /\ Len(s.queue) # 0 BY <1>23
    <2> DEFINE c == Cardinality(s.keep)
               l == Len(s.queue)
    <2> HIDE DEF c, l
    <2>4. c = l + N /\ c <= N /\ l \in Nat /\ l # 0 BY <2>1, <2>2, <2>3 DEF c, l
    <2> QED BY <2>4, <1>1
  <1>25. ToSet(s.queue) = {} BY <1>24 DEF ToSet
  <1>26. seeds \subseteq s.keep /\ ClosedUnder(s.keep, E)
    BY <1>22, <1>25 DEF Searching, ClosedUnder
  <1>27. \A D : seeds \subseteq D /\ ClosedUnder(D, E) => s.keep \subseteq D
    BY <1>22 DEF Searching
  <1>28. IsJoinedTo(s.keep, seeds, E) BY <1>26, <1>27, Zenon DEF IsJoinedTo
  <1> QED BY <1>4, <1>28 DEF s, E

\* S and the far ends of the edges that have an end in it.
Grown(S, E) == S \cup UNION {Ends(e) : e \in {x \in E : Ends(x) \cap S # {}}}

\* A round adds to a set what its edges touch, nothing else, and nothing to a closed set.
LEMMA GrownGrows ==
  ASSUME NEW S, NEW E
  PROVE  /\ S \subseteq Grown(S, E) /\ (Grown(S, E) = S <=> ClosedUnder(S, E))
         /\ \A D : S \subseteq D /\ ClosedUnder(D, E) => Grown(S, E) \subseteq D
         /\ \A K : S \subseteq K /\ (\A e \in E : Ends(e) \subseteq K) => Grown(S, E) \subseteq K
  BY Zenon DEF Grown, ClosedUnder

\* f holds what the seeds have grown to after each of L rounds.
Rounds(f, seeds, E, L) == \A n \in 0..L : f[n] = IF n = 0 THEN seeds ELSE Grown(f[n - 1], E)

\* Growing the seeds as often as there are nodes gives what is joined to them:
\* every round adds a node until there is none to add.
LEMMA RoundsAreJoined ==
  ASSUME NEW K, NEW E, NEW seeds \in SUBSET K, IsFiniteSet(K), \A e \in E : Ends(e) \subseteq K,
         NEW L \in Nat, Cardinality(K) <= L,
         NEW P, Rounds(P, seeds, E, L)
  PROVE  IsJoinedTo(P[L], seeds, E)
  <1> DEFINE Good(n) == /\ P[n] \in SUBSET K /\ seeds \subseteq P[n]
                        /\ \A D : seeds \subseteq D /\ ClosedUnder(D, E) => P[n] \subseteq D
                        /\ ClosedUnder(P[n], E) \/ Cardinality(P[n]) >= n + 1
             S == {n \in Nat : n <= L => Good(n)}
  <1>1. 0 \in S
    <2>1. P[0] = seeds BY DEF Rounds
    <2>2. CASE seeds = {}
      <3>1. ClosedUnder({}, E) BY DEF ClosedUnder
      <3> QED BY <2>1, <2>2, <3>1
    <2>3. CASE seeds # {}
      <3>1. IsFiniteSet(seeds) BY FS_Subset
      <3>2. Cardinality(seeds) \in Nat /\ Cardinality(seeds) # 0
        BY <2>3, <3>1, FS_CardinalityType, FS_EmptySet
      <3>3. Cardinality(seeds) >= 0 + 1 BY <3>2
      <3> QED BY <2>1, <3>3
    <2> QED BY <2>2, <2>3
  <1>2. ASSUME NEW n \in Nat, n \in S PROVE n + 1 \in S
    <2> SUFFICES ASSUME n + 1 <= L PROVE Good(n + 1) OBVIOUS
    <2>1. n + 1 \in 0..L /\ n + 1 # 0 /\ (n + 1) - 1 = n /\ n <= L OBVIOUS
    <2> DEFINE X == P[n]
               Y == P[n + 1]
    <2>2. Y = Grown(X, E) BY <2>1 DEF Rounds
    <2>3. Good(n) BY <1>2, <2>1
    <2>4. X \subseteq Y /\ (Y = X <=> ClosedUnder(X, E)) BY <2>2, GrownGrows
    <2>5. \A D : X \subseteq D /\ ClosedUnder(D, E) => Y \subseteq D BY <2>2, GrownGrows
    <2>6. Y \subseteq K BY <2>2, <2>3, GrownGrows
    <2> HIDE DEF X, Y
    <2>7. /\ X \in SUBSET K /\ seeds \subseteq X
          /\ \A D : seeds \subseteq D /\ ClosedUnder(D, E) => X \subseteq D
          /\ ClosedUnder(X, E) \/ Cardinality(X) >= n + 1
      BY <2>3 DEF X
    <2>8. \A D : seeds \subseteq D /\ ClosedUnder(D, E) => Y \subseteq D BY <2>5, <2>7
    <2>9. ClosedUnder(Y, E) \/ Cardinality(Y) >= (n + 1) + 1
      <3>1. CASE ClosedUnder(X, E) BY <3>1, <2>4
      <3>2. CASE ~ClosedUnder(X, E)
        <4>1. IsFiniteSet(Y) BY <2>6, FS_Subset
        <4>2. IsFiniteSet(X) /\ Cardinality(X) <= Cardinality(Y)
              /\ Cardinality(X) # Cardinality(Y)
          BY <4>1, <2>4, <3>2, FS_Subset
        <4>3. Cardinality(X) \in Nat /\ Cardinality(Y) \in Nat BY <4>1, <4>2, FS_CardinalityType
        <4>4. Cardinality(X) >= n + 1 BY <2>7, <3>2
        <4> QED BY <4>2, <4>3, <4>4
      <3> QED BY <3>1, <3>2
    <2> QED BY <2>4, <2>6, <2>7, <2>8, <2>9 DEF Y
  <1>3. L \in S
    <2> HIDE DEF S
    <2> QED BY <1>1, <1>2, Induct
  <1> DEFINE X == P[L]
  <1>4. Good(L) BY <1>3
  <1>5. /\ X \in SUBSET K /\ seeds \subseteq X
        /\ \A D : seeds \subseteq D /\ ClosedUnder(D, E) => X \subseteq D
        /\ ClosedUnder(X, E) \/ Cardinality(X) >= L + 1
    BY <1>4
  <1> HIDE DEF X, Good, S
  <1>6. ClosedUnder(X, E)
    <2>1. Cardinality(X) <= Cardinality(K) /\ IsFiniteSet(X) BY <1>5, FS_Subset
    <2>2. Cardinality(X) \in Nat /\ Cardinality(K) \in Nat BY <2>1, FS_CardinalityType
    <2> QED BY <1>5, <2>1, <2>2
  <1>7. IsJoinedTo(X, seeds, E) BY <1>5, <1>6, Zenon DEF IsJoinedTo
  <1> QED BY <1>7 DEF X

\* The rounds of the property, as the function they define.
LEMMA RoundsExist ==
  ASSUME NEW K, NEW E, NEW seeds \in SUBSET K, \A e \in E : Ends(e) \subseteq K, NEW L \in Nat
  PROVE  \E f \in [0..L -> SUBSET K] : Rounds(f, seeds, E, L)
  <1> DEFINE V == SUBSET K
             step == [x \in (1..L) \X V |-> Grown(x[2], E)]
  <1>1. \A S \in V : Grown(S, E) \in V BY GrownGrows
  <1>2. step \in [(1..L) \X V -> V] BY <1>1
  <1>3. \A i \in 1..L, S \in V : step[<<i, S>>] = Grown(S, E) OBVIOUS
  <1> HIDE DEF V, step
  <1>4. seeds \in V BY DEF V
  <1>5. PICK f \in [0..L -> V] : Follows(f, L, seeds, step) BY <1>2, <1>4, RecursionExists
  <1>6. f[0] = seeds /\ \A i \in 1..L : f[i] = step[<<i, f[i - 1]>>] BY <1>5 DEF Follows
  <1>7. \A i \in 1..L : f[i - 1] \in V OBVIOUS
  <1>8. \A i \in 0..L : f[i] = IF i = 0 THEN seeds ELSE Grown(f[i - 1], E)
    <2> TAKE i \in 0..L
    <2>1. CASE i = 0 BY <2>1, <1>6
    <2>2. CASE i # 0
      <3>1. i \in 1..L BY <2>2
      <3> QED BY <3>1, <2>2, <1>3, <1>6, <1>7
    <2> QED BY <2>1, <2>2
  <1> QED BY <1>8 DEF V, Rounds

-----------------------------------------------------------------------------
(* Tracing hostnames.                                                      *)

\* The nodes of the records a trace starts from.
Records(topo, hostnames) ==
  {nodeKey(a) : a \in {x \in ToSet(topo.nodes) :
     x.type = "cloudflare.dns_record"
       /\ Mapped(LowerCase, x.name) \in {Mapped(LowerCase, h) : h \in hostnames}}}

\* A trace keeps the nodes that are joined to its records, and every edge that
\* is left with both its ends (Topology.FilterByHostname).
LEMMA TraceKeeps ==
  ASSUME NEW A, NEW topo, topo.nodes \in Seq(A), EdgeList(topo.edges, Keys(ToSet(topo.nodes))),
         NEW hostnames, hostnames # {},
         NEW t, t = FilterByHostname(topo, hostnames)
  PROVE  /\ IsJoinedTo(Keys(ToSet(t.nodes)), Records(topo, hostnames), ToSet(topo.edges))
         /\ ToSet(t.edges) = {e \in ToSet(topo.edges) : Ends(e) \subseteq Keys(ToSet(t.nodes))}
  <1> DEFINE K == Keys(ToSet(topo.nodes))
             E == ToSet(topo.edges)
             seeds == Records(topo, hostnames)
             keep == Component(topo, seeds)
             I == {i \in DOMAIN topo.nodes : nodeKey(topo.nodes[i]) \in keep}
             J == {i \in DOMAIN topo.edges : Ends(topo.edges[i]) \subseteq keep}
  <1>1. t = [nodes |-> At(topo.nodes, I), edges |-> At(topo.edges, J)]
    BY Zenon DEF FilterByHostname, Records, Filter
  <1>2. seeds \subseteq K BY DEF Records, Keys
  <1>3. \A e \in E : Ends(e) \subseteq K BY DEF EdgeList, IsEdge
  <1>4. Incident(topo) \subseteq K BY <1>3 DEF Incident
  <1>5. IsFiniteSet(K) BY KeysOfList
  <1> HIDE DEF K, seeds
  <1>6. IsFiniteSet(seeds \cup Incident(topo))
    <2>1. seeds \cup Incident(topo) \in SUBSET K BY <1>2, <1>4
    <2> QED BY <2>1, <1>5, FS_Subset
  <1>7. IsJoinedTo(keep, seeds, E) BY <1>6, ComponentIsJoined
  <1> HIDE DEF keep
  <1>8. keep \subseteq K
    <2>1. ClosedUnder(K, E) BY <1>3 DEF ClosedUnder
    <2> QED BY <2>1, <1>2, <1>7 DEF IsJoinedTo
  <1>9. ToSet(t.nodes) = {a \in ToSet(topo.nodes) : nodeKey(a) \in keep}
    <2> DEFINE s == topo.nodes
    <2>1. \A i \in DOMAIN s : i \in I <=> nodeKey(s[i]) \in keep OBVIOUS
    <2>2. DOMAIN s = 1..Len(s) OBVIOUS
    <2> HIDE DEF I, s
    <2>3. ToSet(At(s, I)) = {s[i] : i \in I \cap 1..Len(s)} BY AtElements DEF s
    <2>4. ToSet(At(s, I)) = {a \in ToSet(s) : nodeKey(a) \in keep}
      BY <2>1, <2>2, <2>3 DEF ToSet
    <2> QED BY <1>1, <2>4 DEF s
  <1>10. ToSet(t.edges) = {e \in E : Ends(e) \subseteq keep}
    <2> DEFINE s == topo.edges
    <2>1. \A i \in DOMAIN s : i \in J <=> Ends(s[i]) \subseteq keep OBVIOUS
    <2>2. s \in Seq(ToSet(s)) BY DEF EdgeList, IsList
    <2>3. DOMAIN s = 1..Len(s) BY <2>2
    <2> HIDE DEF J, s
    <2>4. ToSet(At(s, J)) = {s[i] : i \in J \cap 1..Len(s)} BY <2>2, AtElements
    <2>5. ToSet(At(s, J)) = {e \in ToSet(s) : Ends(e) \subseteq keep}
      BY <2>1, <2>3, <2>4 DEF ToSet
    <2> QED BY <1>1, <2>5 DEF s
  <1>11. Keys(ToSet(t.nodes)) = keep BY <1>8, <1>9 DEF Keys, K
  <1> QED BY <1>7, <1>10, <1>11 DEF seeds

-----------------------------------------------------------------------------
(* The collection.                                                         *)

\* What may be collected of the estate.
Collectable == {AsCollected(a) : a \in pool}

\* The invariant of the collection: what is delivered is of the estate.
GraphInv == pool \in Pools /\ collected \in Seq(Collectable)

\* Without its payload an asset holds no list to go through but its tags.
LEMMA StillReadable ==
  ASSUME NEW a, IsAsset(a), IsReadable(a)
  PROVE  IsReadable(AsCollected(a))
  <1> DEFINE b == AsCollected(a)
  <1>1. b.type = a.type /\ b.tags = a.tags /\ b.raw \in {a.raw, NoRaw} BY DEF IsAsset, AsCollected
  <1> HIDE DEF b
  <1>2. \A key : Get(NoRaw, key, <<>>) = <<>> BY DEF Get, NoRaw
  <1>3. \A key : TagList(b, key) = TagList(a, key) BY <1>1 DEF TagList
  <1>4. IsList(<<>>) /\ ToSet(<<>>) = {} BY NoElement DEF ToSet
  <1>5. \A key : Get(b.raw, key, <<>>) \in {Get(a.raw, key, <<>>), <<>>} BY <1>1, <1>2
  <1>6. b.type = "oci.load_balancer" => IsList(TagList(b, "ip_addresses"))
    BY <1>1, <1>3 DEF IsReadable
  <1>7. b.type = "netbird.policy_rule" =>
          \A key \in {"sources", "destinations"} : IsList(TagList(b, key))
    BY <1>1, <1>3 DEF IsReadable
  <1>8. b.type = "tailscale.acl_rule" => \A key \in {"src", "dst"} :
          IsList(TagList(b, key)) /\ \A sel \in ToSet(TagList(b, key)) : sel.form \in SelectorForms
    BY <1>1, <1>3 DEF IsReadable
  <1>9. b.type \in HTTPRoutes =>
          LET rules == Get(b.raw, "rules", <<>>)
          IN IsList(rules) /\ \A rule \in ToSet(rules) : IsList(rule.backendRefs)
    <2> DEFINE r == Get(a.raw, "rules", <<>>)
               s == Get(b.raw, "rules", <<>>)
    <2>1. s \in {r, <<>>} BY <1>5
    <2>2. a.type \in HTTPRoutes => IsList(r) /\ \A rule \in ToSet(r) : IsList(rule.backendRefs)
      BY Zenon DEF IsReadable
    <2> HIDE DEF r, s
    <2>3. b.type \in HTTPRoutes => IsList(s) /\ \A rule \in ToSet(s) : IsList(rule.backendRefs)
      BY <1>1, <1>4, <2>1, <2>2
    <2> QED BY <2>3 DEF s
  <1>10. b.type = "networking.k8s.io/v1.Ingress" =>
           LET rules == Get(b.raw, "rules", <<>>)
           IN IsList(rules) /\ \A rule \in ToSet(rules) : IsList(rule.paths)
    <2> DEFINE r == Get(a.raw, "rules", <<>>)
               s == Get(b.raw, "rules", <<>>)
    <2>1. s \in {r, <<>>} BY <1>5
    <2>2. a.type = "networking.k8s.io/v1.Ingress" =>
            IsList(r) /\ \A rule \in ToSet(r) : IsList(rule.paths)
      BY Zenon DEF IsReadable
    <2> HIDE DEF r, s
    <2>3. b.type = "networking.k8s.io/v1.Ingress" =>
            IsList(s) /\ \A rule \in ToSet(s) : IsList(rule.paths)
      BY <1>1, <1>4, <2>1, <2>2
    <2> QED BY <2>3 DEF s
  <1>11. ASSUME b.type = "networking.k8s.io/v1.NetworkPolicy", NEW key \in {"ingress", "egress"}
         PROVE  LET rules == Get(b.raw, key, <<>>)
                IN IsList(rules) /\ \A rule \in ToSet(rules) : IsList(rule.peers)
    <2> DEFINE r == Get(a.raw, key, <<>>)
               s == Get(b.raw, key, <<>>)
    <2>1. s \in {r, <<>>} BY <1>5
    <2>2. a.type = "networking.k8s.io/v1.NetworkPolicy" =>
            IsList(r) /\ \A rule \in ToSet(r) : IsList(rule.peers)
      BY Zenon DEF IsReadable
    <2> HIDE DEF r, s
    <2>3. IsList(s) /\ \A rule \in ToSet(s) : IsList(rule.peers)
      BY <1>1, <1>4, <1>11, <2>1, <2>2
    <2> QED BY <2>3 DEF s
  <1>12. IsReadable(b) BY <1>6, <1>7, <1>8, <1>9, <1>10, <1>11, Zenon DEF IsReadable
  <1> QED BY <1>12 DEF b

\* What has been collected is of the estate.
LEMMA GraphInvHolds == Spec => []GraphInv
  <1>1. Init => GraphInv BY DEF Init, GraphInv
  <1>2. GraphInv /\ [Next]_vars => GraphInv'
    <2> SUFFICES ASSUME GraphInv, [Next]_vars PROVE GraphInv' OBVIOUS
    <2>1. ASSUME NEW a \in Missing, Deliver(a) PROVE GraphInv'
      <3>1. AsCollected(a) \in Collectable BY DEF Missing, Collectable
      <3>2. Collectable' = Collectable BY <2>1 DEF Deliver, Collectable, AsCollected
      <3>3. collected' \in Seq(Collectable) BY <2>1, <3>1 DEF Deliver, GraphInv
      <3> QED BY <2>1, <3>2, <3>3 DEF Deliver, GraphInv
    <2>2. ASSUME NEW p, Fail(p) PROVE GraphInv'
      BY <2>2 DEF Fail, GraphInv, Collectable, AsCollected
    <2>3. ASSUME NEW req \in Requests, Ask(req) PROVE GraphInv'
      BY <2>3 DEF Ask, GraphInv, Collectable, AsCollected
    <2>4. CASE UNCHANGED vars
      BY <2>4 DEF vars, GraphInv, Collectable, AsCollected
    <2> QED BY <2>1, <2>2, <2>3, <2>4 DEF Next
  <1> QED BY <1>1, <1>2, PTL DEF Spec

\* The graph of what has been collected joins its own nodes.
LEMMA CollectedGraph ==
  ASSUME GraphInv, NEW filter
  PROVE  LET topo == Build(Slice(filter, collected))
         IN /\ topo.nodes \in Seq(Collectable)
            /\ EdgeList(topo.edges, Keys(ToSet(topo.nodes)))
  <1> DEFINE I == {i \in DOMAIN collected : Match(filter, collected[i])}
             assets == Slice(filter, collected)
  <1>1. assets = At(collected, I) BY DEF Slice, Filter
  <1>2. assets \in Seq(Collectable)
    <2> HIDE DEF I
    <2> QED BY <1>1, Picking DEF GraphInv
  <1>3. \A a \in Collectable : IsReadable(a)
    BY StillReadable, PoolsAreCollected DEF Collectable, GraphInv
  <1> HIDE DEF assets
  <1>4. assets \in Seq(ToSet(assets)) BY <1>2, Member DEF IsList
  <1>5. ToSet(assets) \subseteq Collectable BY <1>2 DEF ToSet
  <1>6. EdgeList(Build(assets).edges, Keys(ToSet(assets))) BY <1>3, <1>4, <1>5, BuildJoins
  <1>7. Build(assets).nodes = assets BY DEF Build
  <1> QED BY <1>2, <1>6, <1>7 DEF assets

-----------------------------------------------------------------------------
(* The answers.                                                            *)

\* A diagram answers a request for one; of a traced graph it shows what the
\* trace left.
LEMMA GraphAnswers ==
  ASSUME NEW req, Ask(req), answer'.kind = "graph"
  PROVE  /\ answer'.request = req
         /\ answer'.topo = IF req.includeOrphans THEN Traced(req) ELSE DropOrphans(Traced(req))
  <1>1. answer' \in {topologyAnswer(req), reachAnswer(req)} BY DEF Ask
  <1>2. reachAnswer(req).kind # "graph"
    BY DEF reachAnswer, reachIn, pathsAnswer, Refused
  <1>3. answer' \in {Refused, orphansAnswer(req), renderTopology(req)}
    BY <1>1, <1>2, Zenon DEF topologyAnswer
  <1>4. Refused.kind # "graph" /\ orphansAnswer(req).kind # "graph"
    BY DEF orphansAnswer, reportAnswer, Refused
  <1>5. answer' = renderTopology(req) BY <1>3, <1>4
  <1> QED BY <1>5 DEF renderTopology, graphAnswer

\* What the property says of an answer and the graph it was made of.
Whole(ans, built) ==
  LET wanted == {Mapped(LowerCase, h) : h \in ans.request.hostnames}
      kept == {nodeKey(a) : a \in ToSet(ans.topo.nodes)}
      records == {nodeKey(a) : a \in {x \in ToSet(built.nodes) :
                    x.type = "cloudflare.dns_record" /\ Mapped(LowerCase, x.name) \in wanted}}
      Joined(S) == S \cup UNION {Ends(e) : e \in {x \in ToSet(built.edges) : Ends(x) \cap S # {}}}
      J[n \in 0..Len(built.nodes)] == IF n = 0 THEN records ELSE Joined(J[n - 1])
  IN /\ kept = J[Len(built.nodes)]
     /\ ToSet(ans.topo.edges) = {e \in ToSet(built.edges) : Ends(e) \subseteq kept}

\* A trace of hostnames in a graph of its own nodes is whole.
LEMMA TraceWhole ==
  ASSUME NEW A, NEW built, built.nodes \in Seq(A), EdgeList(built.edges, Keys(ToSet(built.nodes))),
         NEW ans, ans.request.hostnames # {},
         ans.topo = FilterByHostname(built, ans.request.hostnames)
  PROVE  Whole(ans, built)
  <1> DEFINE K == Keys(ToSet(built.nodes))
             E == ToSet(built.edges)
             L == Len(built.nodes)
             records == Records(built, ans.request.hostnames)
             kept == Keys(ToSet(ans.topo.nodes))
             Def(f) == [n \in 0..L |-> IF n = 0 THEN records ELSE Grown(f[n - 1], E)]
             P == CHOOSE f : f = Def(f)
  <1>1. Whole(ans, built) <=> /\ kept = P[L]
                              /\ ToSet(ans.topo.edges) = {e \in E : Ends(e) \subseteq kept}
    BY Zenon DEF Whole, Records, Keys, Grown
  <1>2. /\ IsJoinedTo(kept, records, E)
        /\ ToSet(ans.topo.edges) = {e \in E : Ends(e) \subseteq kept}
    <2> DEFINE hosts == ans.request.hostnames
               t == ans.topo
    <2>1. hosts # {} /\ t = FilterByHostname(built, hosts) OBVIOUS
    <2> HIDE DEF hosts, t
    <2>2. /\ IsJoinedTo(Keys(ToSet(t.nodes)), Records(built, hosts), ToSet(built.edges))
          /\ ToSet(t.edges) = {e \in ToSet(built.edges) : Ends(e) \subseteq Keys(ToSet(t.nodes))}
      BY <2>1, TraceKeeps
    <2> QED BY <2>2 DEF hosts, t
  <1>3. L \in Nat /\ IsFiniteSet(K) /\ Cardinality(K) <= L BY KeysOfList
  <1>4. records \in SUBSET K BY DEF Records, Keys
  <1>5. \A e \in E : Ends(e) \subseteq K BY DEF EdgeList, IsEdge
  <1> HIDE DEF K, E, L, records, kept, P
  <1>6. PICK f \in [0..L -> SUBSET K] : Rounds(f, records, E, L)
    <2> HIDE DEF Def
    <2> QED BY <1>3, <1>4, <1>5, RoundsExist
  <1>7. Rounds(P, records, E, L)
    <2>1. f = Def(f) BY <1>6 DEF Rounds
    <2>2. P = Def(P)
      <3> HIDE DEF Def
      <3> QED BY <2>1, Zenon DEF P
    <2> QED BY <2>2 DEF Rounds
  <1>8. IsJoinedTo(P[L], records, E) BY <1>3, <1>4, <1>5, <1>7, RoundsAreJoined
  <1>9. kept = P[L] BY <1>2, <1>8, OneJoinedTo
  <1> QED BY <1>1, <1>2, <1>9

\* Tracing hostnames keeps the parts of the graph that are connected to one of
\* their records, whole, whatever the estate and the collection
\* (Topology.FilterByHostname).
THEOREM TracesAreWhole == Spec => []HostnameTraceIsWhole
  <1> DEFINE Asked(ans) == ans.kind = "graph" /\ ans.request.includeOrphans
                             /\ ans.request.hostnames # {}
             Of(ans, got) == Build(Slice(ans.request.filter, got))
  <1>1. HostnameTraceIsWhole <=> (Asked(answer) => Whole(answer, Of(answer, collected)))
    BY Zenon DEF HostnameTraceIsWhole, Whole
  <1>2. HostnameTraceIsWhole' <=> (Asked(answer') => Whole(answer', Of(answer', collected')))
    BY Zenon DEF HostnameTraceIsWhole, Whole
  <1>3. Init => HostnameTraceIsWhole
    <2>1. Init => answer.kind # "graph" BY DEF Init, NoAnswer
    <2> QED BY <1>1, <2>1, Zenon
  <1>4. GraphInv /\ HostnameTraceIsWhole /\ [Next]_vars => HostnameTraceIsWhole'
    <2> SUFFICES ASSUME GraphInv, HostnameTraceIsWhole, [Next]_vars
                 PROVE  Asked(answer') => Whole(answer', Of(answer', collected'))
      BY <1>2, Zenon
    <2>1. CASE \E a \in Missing : Deliver(a)
      <3>1. answer'.kind # "graph" BY <2>1 DEF Deliver, NoAnswer
      <3> QED BY <3>1, Zenon
    <2>2. CASE \E p \in ProvidersOf(pool) : Fail(p)
      <3>1. answer'.kind # "graph" BY <2>2 DEF Fail, NoAnswer
      <3> QED BY <3>1, Zenon
    <2>3. ASSUME NEW req \in Requests, Ask(req), Asked(answer')
          PROVE  Whole(answer', Of(answer', collected'))
      <3> DEFINE built == Build(Slice(req.filter, collected))
      <3>1. /\ answer'.request = req
            /\ answer'.topo = IF req.includeOrphans THEN Traced(req) ELSE DropOrphans(Traced(req))
        BY <2>3, GraphAnswers, Zenon
      <3>2. answer'.topo = FilterByHostname(built, answer'.request.hostnames)
        BY <2>3, <3>1, Zenon DEF Traced
      <3>3. Of(answer', collected') = built
        <4>1. collected' = collected BY <2>3, Zenon DEF Ask
        <4> QED BY <3>1, <4>1, Zenon
      <3>4. /\ built.nodes \in Seq(Collectable)
            /\ EdgeList(built.edges, Keys(ToSet(built.nodes)))
        BY CollectedGraph, Zenon
      <3>5. answer'.request.hostnames # {} BY <2>3
      <3> HIDE DEF built, Asked, Of
      <3>6. Whole(answer', built) BY <3>2, <3>4, <3>5, TraceWhole
      <3> QED BY <3>3, <3>6
    <2>4. CASE UNCHANGED vars
      <3>1. answer' = answer /\ collected' = collected BY <2>4 DEF vars
      <3> QED BY <3>1, <1>1, Zenon
    <2> QED BY <2>1, <2>2, <2>3, <2>4, Zenon DEF Next
  <1> QED BY <1>3, <1>4, GraphInvHolds, PTL DEF Spec
-----------------------------------------------------------------------------
(* The summaries.                                                          *)

\* The end of an edge between nodes stands in a node's bucket.
LEMMA BucketHolds ==
  ASSUME NEW A, NEW topo, topo.nodes \in Seq(A), NEW level, NEW dim, NEW ref,
         refKey(ref) \in Keys(ToSet(topo.nodes))
  PROVE  /\ BucketOf(topo, ref, level, dim) # <<>>
         /\ BucketOf(topo, ref, level, dim) \in {bucketKey(a, level, dim) : a \in ToSet(topo.nodes)}
  <1> DEFINE s == topo.nodes
             I == {i \in DOMAIN s : nodeKey(s[i]) = refKey(ref)}
             found == At(s, I)
             a == LastOf(found)
  <1>1. BucketOf(topo, ref, level, dim) = IF a = <<>> THEN <<>> ELSE bucketKey(a[1], level, dim)
    BY Zenon DEF BucketOf, LastWith, Filter, LastOf
  <1>2. \E i \in DOMAIN s : nodeKey(s[i]) = refKey(ref) BY DEF Keys, ToSet
  <1>3. s \in Seq(A) /\ DOMAIN s = 1..Len(s) OBVIOUS
  <1>4. \E i \in I : i \in 1..Len(s) BY <1>2, <1>3
  <1>5. \A x : bucketKey(x, level, dim) # <<>>
    <2> TAKE x
    <2> DEFINE g == IF groupOf(x, dim) = "" THEN x.provider ELSE groupOf(x, dim)
    <2>1. bucketKey(x, level, dim) = IF level = "high" THEN <<g>> ELSE <<g, x.type>>
      BY Zenon DEF bucketKey
    <2> HIDE DEF g
    <2>2. <<g>> # <<>> /\ <<g, x.type>> # <<>> OBVIOUS
    <2> QED BY <2>1, <2>2
  <1> HIDE DEF I, s
  <1>6. found \in Seq(A) /\ ToSet(found) = {s[i] : i \in I \cap 1..Len(s)} BY <1>3, AtElements
  <1> HIDE DEF found
  <1>7. ToSet(found) # {} BY <1>4, <1>6
  <1>8. Len(found) \in 1..Len(found) /\ found # <<>>
    <2>1. Len(found) # 0 BY <1>6, <1>7 DEF ToSet
    <2> QED BY <1>6, <2>1
  <1>9. a = <<found[Len(found)]>> BY <1>8, Zenon DEF LastOf, Last
  <1>10. found[Len(found)] \in ToSet(found) BY <1>6, <1>8 DEF ToSet
  <1>11. ToSet(found) \subseteq ToSet(s) BY <1>6 DEF ToSet, s
  <1>12. a # <<>> /\ a[1] \in ToSet(s) BY <1>9, <1>10, <1>11
  <1> HIDE DEF a
  <1> QED BY <1>1, <1>5, <1>12 DEF s

\* f lists, for the records of a set D, how many elements of s belong to each.
Says(f, s, V, of, D) ==
  /\ f = [i \in DOMAIN SetToSeq(D) |-> f[i]]
  /\ \A i \in DOMAIN SetToSeq(D) : f[i] = Len(Keep(s, {x \in V : of[x] = SetToSeq(D)[i]}))

\* Added up, they are all the elements.
LEMMA SummedUp ==
  ASSUME NEW V, NEW s \in Seq(V), NEW D, IsFiniteSet(D), NEW of \in [V -> D],
         NEW f, Says(f, s, V, of, D)
  PROVE  Total(f \o <<>>) = Len(s)
  <1> DEFINE r == SetToSeq(D)
             t == [i \in 1..Len(r) |-> Len(Keep(s, {x \in V : of[x] = r[i]}))]
  <1>1. r \in Seq(D) BY SetToSeqLists
  <1>2. DOMAIN r = 1..Len(r) BY <1>1
  <1>3. f = t BY <1>2 DEF Says
  <1>4. CountsOf(t, s, V, of, D) BY DEF CountsOf
  <1> HIDE DEF t, r
  <1>5. t \in Seq(Int) /\ Total(t) = Len(s) BY <1>4, GroupsMakeUp
  <1>6. f \o <<>> = t BY <1>3, <1>5
  <1> QED BY <1>5, <1>6

\* What a list's positions are mapped to is finite.
LEMMA FiniteMany ==
  ASSUME NEW n \in Nat, NEW D, NEW f \in [1..n -> D], \A d \in D : \E i \in 1..n : f[i] = d
  PROVE  IsFiniteSet(D)
  <1>1. f \in Surjection(1..n, D) BY DEF Surjection
  <1>2. IsFiniteSet(1..n) BY FS_Interval
  <1> QED BY <1>1, <1>2, FS_Surjection

\* A list holds what is in it.
LEMMA KeptList ==
  ASSUME NEW V, NEW s \in Seq(V), NEW A, A \subseteq ToSet(s)
  PROVE  Keep(s, A) \in Seq(A) /\ ToSet(Keep(s, A)) = A
  <1> DEFINE t == Keep(s, A)
  <1>1. t \in Seq(V) /\ ToSet(t) = ToSet(s) \cap A BY KeepElements
  <1> HIDE DEF t
  <1>2. ToSet(t) = A BY <1>1
  <1>3. \A i \in 1..Len(t) : t[i] \in A BY <1>1, <1>2 DEF ToSet
  <1> QED BY <1>1, <1>2, <1>3 DEF t

\* Filtering by what an operator says of an element is keeping a set.
LEMMA KeepIs ==
  ASSUME NEW V, NEW s \in Seq(V), NEW I, NEW A, \A i \in DOMAIN s : i \in I <=> s[i] \in A,
         I \subseteq DOMAIN s
  PROVE  At(s, I) = Keep(s, A)
  <1>1. I = {i \in DOMAIN s : s[i] \in A} OBVIOUS
  <1> QED BY <1>1 DEF Keep

\* What the property says of a graph and its summary.
Summarised(topo, drawn, level, dim) ==
  LET Bucket(ref) == BucketOf(topo, ref, level, dim)
      StandsFor(e) == {x \in ToSet(topo.edges) :
                         Bucket(x.from) = e.from /\ Bucket(x.to) = e.to /\ x.kind = e.kind}
  IN /\ SumOf(SetToSeq(drawn.nodes), LAMBDA n : n.member_count) = Len(topo.nodes)
     /\ SumOf(SetToSeq(drawn.nodes), LAMBDA n : n.internal_edges)
          + SumOf(SetToSeq(drawn.edges), LAMBDA e : e.count) = Len(topo.edges)
     /\ \A e \in drawn.edges :
          (e.confidence = "heuristic" <=> \E x \in StandsFor(e) : x.confidence = "heuristic")

\* A summary of a graph whose edges join its nodes accounts for all of it.
LEMMA CollapseCounts ==
  ASSUME NEW A, NEW topo, topo.nodes \in Seq(A),
         EdgeList(topo.edges, Keys(ToSet(topo.nodes))), NEW level, NEW groupBy
  PROVE  Summarised(topo, Collapse(topo, level, groupBy), level, bucketDimension(groupBy))
  <1> DEFINE dim == bucketDimension(groupBy)
             nodes == topo.nodes
             edges == topo.edges
             N == ToSet(nodes)
             E == ToSet(edges)
             Key(a) == bucketKey(a, level, dim)
             From(e) == BucketOf(topo, e.from, level, dim)
             To(e) == BucketOf(topo, e.to, level, dim)
             kept == At(edges, {i \in DOMAIN edges : From(edges[i]) # <<>> /\ To(edges[i]) # <<>>})
             crossing == At(kept, {i \in DOMAIN kept : From(kept[i]) # To(kept[i])})
             Triple(e) == <<From(e), To(e), e.kind>>
             Held(k) == At(nodes, {i \in DOMAIN nodes : Key(nodes[i]) = k})
             Internal(k) == Len(At(kept, {i \in DOMAIN kept : From(kept[i]) = k /\ To(kept[i]) = k}))
             Group(k) == At(crossing, {i \in DOMAIN crossing : Triple(crossing[i]) = k})
             Merged(k) == [from |-> k[1], to |-> k[2], kind |-> k[3], count |-> Len(Group(k)),
                           confidence |-> IF \E e \in ToSet(Group(k)) : e.confidence = "heuristic"
                                          THEN "heuristic" ELSE Group(k)[1].confidence]
             Node(k) == collapsedNode(k, Held(k), Internal(k))
             D == {Node(k) : k \in {Key(a) : a \in N}}
             M == {Merged(k) : k \in {Triple(e) : e \in ToSet(crossing)}}
             drawn == Collapse(topo, level, groupBy)
             In == {e \in E : From(e) = To(e)}
             Cr == {e \in E : From(e) # To(e)}
             inside == Keep(edges, In)
  <1>1. drawn.nodes = D /\ drawn.edges = M
    <2>1. drawn = [nodes |-> D, edges |-> M] BY Zenon DEF Collapse, Filter
    <2> HIDE DEF drawn, D, M
    <2> QED BY <2>1
  <1>2. Summarised(topo, drawn, level, dim) <=>
          /\ Total([i \in DOMAIN SetToSeq(drawn.nodes) |-> SetToSeq(drawn.nodes)[i].member_count]
                   \o <<>>) = Len(nodes)
          /\ Total([i \in DOMAIN SetToSeq(drawn.nodes) |-> SetToSeq(drawn.nodes)[i].internal_edges]
                   \o <<>>)
               + Total([i \in DOMAIN SetToSeq(drawn.edges) |-> SetToSeq(drawn.edges)[i].count]
                       \o <<>>) = Len(edges)
          /\ \A e \in drawn.edges :
               (e.confidence = "heuristic" <=>
                  \E x \in {y \in E : From(y) = e.from /\ To(y) = e.to /\ y.kind = e.kind} :
                    x.confidence = "heuristic")
    <2> HIDE DEF drawn
    <2> QED BY Zenon DEF Summarised, SumOf, Map
  <1>3. /\ nodes \in Seq(A) /\ nodes \in Seq(N) /\ edges \in Seq(E)
        /\ DOMAIN nodes = 1..Len(nodes) /\ DOMAIN edges = 1..Len(edges)
    <2>1. nodes \in Seq(A) /\ edges \in Seq(E) BY DEF EdgeList, IsList
    <2>2. nodes \in Seq(N) BY <2>1, Member DEF IsList
    <2> QED BY <2>1, <2>2
  <1>4. \A e \in E : /\ From(e) # <<>> /\ From(e) \in {Key(a) : a \in N}
                     /\ To(e) # <<>> /\ To(e) \in {Key(a) : a \in N}
    <2> TAKE e \in E
    <2>1. {refKey(e.from), refKey(e.to)} \subseteq Keys(ToSet(topo.nodes)) BY DEF EdgeList, IsEdge, Ends
    <2>2. refKey(e.from) \in Keys(ToSet(topo.nodes)) /\ refKey(e.to) \in Keys(ToSet(topo.nodes))
      BY <2>1
    <2>3. From(e) # <<>> /\ From(e) \in {Key(a) : a \in N} BY <2>2, BucketHolds
    <2>4. To(e) # <<>> /\ To(e) \in {Key(a) : a \in N} BY <2>2, BucketHolds
    <2> QED BY <2>3, <2>4
  <1>5. \A k : /\ Node(k).bucket = k /\ Node(k).member_count = Len(Held(k))
               /\ Node(k).internal_edges = Internal(k)
    <2> HIDE DEF Held, Internal
    <2> TAKE k
    <2>1. \E p, a, r, t : Node(k) = [bucket |-> k, provider |-> p, account |-> a, region |-> r,
                                      member_count |-> Len(Held(k)), member_types |-> t,
                                      internal_edges |-> Internal(k)]
      BY Zenon DEF collapsedNode
    <2> HIDE DEF Node
    <2> QED BY <2>1
  <1> HIDE DEF drawn, nodes, edges, Key, From, To, Node
  <1>6. kept = edges
    <2> DEFINE I == {i \in DOMAIN edges : From(edges[i]) # <<>> /\ To(edges[i]) # <<>>}
    <2>1. 1..Len(edges) \subseteq I BY <1>3, <1>4 DEF ToSet
    <2> HIDE DEF I
    <2>2. At(edges, I) = edges BY <1>3, <2>1, AtAll
    <2> QED BY <2>2 DEF I
  <1>7. crossing = Keep(edges, Cr)
    <2>1. \A i \in DOMAIN edges : edges[i] \in E BY DEF ToSet
    <2>2. {i \in DOMAIN edges : From(edges[i]) # To(edges[i])} = {i \in DOMAIN edges : edges[i] \in Cr}
      BY <2>1
    <2> QED BY <1>6, <2>2 DEF Keep
  <1>8. \A k : Held(k) = Keep(nodes, {a \in N : Key(a) = k})
    <2> TAKE k
    <2>1. \A i \in DOMAIN nodes : nodes[i] \in N BY DEF ToSet
    <2>2. {i \in DOMAIN nodes : Key(nodes[i]) = k}
            = {i \in DOMAIN nodes : nodes[i] \in {a \in N : Key(a) = k}} BY <2>1
    <2> QED BY <2>2 DEF Keep
  <1>9. \A k : /\ Merged(k).from = k[1] /\ Merged(k).to = k[2] /\ Merged(k).kind = k[3]
               /\ Merged(k).count = Len(Group(k))
               /\ Merged(k).confidence = IF \E e \in ToSet(Group(k)) : e.confidence = "heuristic"
                                         THEN "heuristic" ELSE Group(k)[1].confidence
    <2> HIDE DEF Group
    <2> QED OBVIOUS
  <1>10. crossing \in Seq(Cr) /\ ToSet(crossing) = Cr /\ inside \in Seq(In)
    BY <1>3, <1>7, KeptList
  <1> HIDE DEF crossing
  <1>11. \A k : Group(k) = Keep(crossing, {e \in Cr : Triple(e) = k})
    <2> TAKE k
    <2>1. \A i \in DOMAIN crossing : crossing[i] \in Cr BY <1>10 DEF ToSet
    <2>2. {i \in DOMAIN crossing : Triple(crossing[i]) = k}
            = {i \in DOMAIN crossing : crossing[i] \in {e \in Cr : Triple(e) = k}} BY <2>1
    <2> QED BY <2>2 DEF Keep
  <1>12. \A k : Internal(k) = Len(Keep(inside, {e \in In : From(e) = k}))
    <2> TAKE k
    <2> DEFINE J == {e \in In : From(e) = k}
    <2>1. \A i \in DOMAIN edges : edges[i] \in E BY DEF ToSet
    <2>2. {i \in DOMAIN edges : From(edges[i]) = k /\ To(edges[i]) = k}
            = {i \in DOMAIN edges : edges[i] \in J} BY <2>1
    <2>3. Internal(k) = Len(Keep(edges, J)) BY <1>6, <2>2 DEF Keep
    <2>4. J = In \cap J OBVIOUS
    <2> HIDE DEF J
    <2>5. Keep(Keep(edges, In), J) = Keep(edges, In \cap J) BY <1>3, KeepKeep
    <2> QED BY <2>3, <2>4, <2>5 DEF J
  <1>13. Len(edges) = Len(inside) + Len(crossing)
    <2>1. In \cap Cr = {} /\ E \subseteq In \cup Cr OBVIOUS
    <2> HIDE DEF In, Cr, E
    <2>2. edges \in Seq(E) BY <1>3
    <2>3. Len(edges) = Len(Keep(edges, In)) + Len(Keep(edges, Cr)) BY ONLY <2>1, <2>2, KeepSplit
    <2> QED BY <1>7, <2>3
  <1>14. IsFiniteSet(D)
    <2> DEFINE f == [i \in 1..Len(nodes) |-> Node(Key(nodes[i]))]
    <2>1. Len(nodes) \in Nat BY <1>3
    <2>2. f \in [1..Len(nodes) -> D] BY <1>3 DEF ToSet
    <2>3. \A d \in D : \E i \in 1..Len(nodes) : f[i] = d BY <1>3 DEF ToSet
    <2> HIDE DEF f, D
    <2> QED BY <2>1, <2>2, <2>3, FiniteMany
  <1>15. IsFiniteSet(M)
    <2> DEFINE f == [i \in 1..Len(crossing) |-> Merged(Triple(crossing[i]))]
    <2> HIDE DEF Merged, Triple
    <2>1. Len(crossing) \in Nat /\ DOMAIN crossing = 1..Len(crossing) BY <1>10
    <2>2. f \in [1..Len(crossing) -> M] BY <2>1 DEF ToSet
    <2>3. \A d \in M : \E i \in 1..Len(crossing) : f[i] = d BY <2>1 DEF ToSet
    <2> HIDE DEF f, M
    <2> QED BY <2>1, <2>2, <2>3, FiniteMany
  <1> DEFINE InBucket == [i \in DOMAIN SetToSeq(D) |-> SetToSeq(D)[i].member_count]
             Loops == [i \in DOMAIN SetToSeq(D) |-> SetToSeq(D)[i].internal_edges]
             Arrows == [i \in DOMAIN SetToSeq(M) |-> SetToSeq(M)[i].count]
  <1>16. Total(InBucket \o <<>>) = Len(nodes)
    <2> DEFINE of == [a \in N |-> Node(Key(a))]
    <2>1. of \in [N -> D] OBVIOUS
    <2>2. \A d \in D : d.member_count = Len(Keep(nodes, {a \in N : of[a] = d}))
      <3> TAKE d \in D
      <3>1. PICK k : d = Node(k) OBVIOUS
      <3>2. \A a \in N : Node(Key(a)) = d <=> Key(a) = k BY <1>5, <3>1
      <3>3. {a \in N : of[a] = d} = {a \in N : Key(a) = k} BY <3>2
      <3> QED BY <1>5, <1>8, <3>1, <3>3
    <2> HIDE DEF of, D, N
    <2>3. SetToSeq(D) \in Seq(D) BY <1>14, SetToSeqLists
    <2>4. \A i \in DOMAIN SetToSeq(D) :
            InBucket[i] = Len(Keep(nodes, {a \in N : of[a] = SetToSeq(D)[i]})) BY <2>2, <2>3
    <2>5. InBucket = [i \in DOMAIN SetToSeq(D) |-> InBucket[i]] OBVIOUS
    <2> HIDE DEF InBucket
    <2>6. Says(InBucket, nodes, N, of, D) BY <2>4, <2>5 DEF Says
    <2>7. nodes \in Seq(N) BY <1>3
    <2> QED BY <1>14, <2>1, <2>6, <2>7, SummedUp
  <1>17. Total(Loops \o <<>>) = Len(inside)
    <2> DEFINE of == [e \in In |-> Node(From(e))]
    <2>1. of \in [In -> D] BY <1>4
    <2>2. \A d \in D : d.internal_edges = Len(Keep(inside, {e \in In : of[e] = d}))
      <3> TAKE d \in D
      <3>1. PICK k : d = Node(k) OBVIOUS
      <3>2. \A e \in In : Node(From(e)) = d <=> From(e) = k BY <1>5, <3>1
      <3>3. {e \in In : of[e] = d} = {e \in In : From(e) = k} BY <3>2
      <3> QED BY <1>5, <1>12, <3>1, <3>3
    <2> HIDE DEF of, D, In, inside
    <2>3. SetToSeq(D) \in Seq(D) BY <1>14, SetToSeqLists
    <2>4. \A i \in DOMAIN SetToSeq(D) :
            Loops[i] = Len(Keep(inside, {e \in In : of[e] = SetToSeq(D)[i]})) BY <2>2, <2>3
    <2>5. Loops = [i \in DOMAIN SetToSeq(D) |-> Loops[i]] OBVIOUS
    <2> HIDE DEF Loops
    <2>6. Says(Loops, inside, In, of, D) BY <2>4, <2>5 DEF Says
    <2>7. inside \in Seq(In) BY <1>10
    <2> QED BY <1>14, <2>1, <2>6, <2>7, SummedUp
  <1>18. Total(Arrows \o <<>>) = Len(crossing)
    <2> DEFINE of == [e \in Cr |-> Merged(Triple(e))]
    <2> HIDE DEF Merged
    <2>1. of \in [Cr -> M] BY <1>10
    <2>2. \A d \in M : d.count = Len(Keep(crossing, {e \in Cr : of[e] = d}))
      <3> TAKE d \in M
      <3>1. PICK c \in Cr : d = Merged(Triple(c)) BY <1>10
      <3>2. \A e \in Cr : Merged(Triple(e)) = d <=> Triple(e) = Triple(c)
        <4> TAKE e \in Cr
        <4>1. /\ Merged(Triple(e)).from = From(e) /\ Merged(Triple(e)).to = To(e)
              /\ Merged(Triple(e)).kind = e.kind
              /\ d.from = From(c) /\ d.to = To(c) /\ d.kind = c.kind
          BY <1>9, <3>1
        <4> QED BY <4>1, <3>1
      <3>3. {e \in Cr : of[e] = d} = {e \in Cr : Triple(e) = Triple(c)} BY <3>2
      <3>4. d.count = Len(Group(Triple(c))) BY <1>9, <3>1
      <3> QED BY <1>11, <3>3, <3>4
    <2> HIDE DEF of, M, Cr, Triple
    <2>3. SetToSeq(M) \in Seq(M) BY <1>15, SetToSeqLists
    <2>4. \A i \in DOMAIN SetToSeq(M) :
            Arrows[i] = Len(Keep(crossing, {e \in Cr : of[e] = SetToSeq(M)[i]})) BY <2>2, <2>3
    <2>5. Arrows = [i \in DOMAIN SetToSeq(M) |-> Arrows[i]] OBVIOUS
    <2> HIDE DEF Arrows
    <2>6. Says(Arrows, crossing, Cr, of, M) BY <2>4, <2>5 DEF Says
    <2>7. crossing \in Seq(Cr) BY <1>10
    <2> QED BY <1>15, <2>1, <2>6, <2>7, SummedUp
  <1>19. \A e \in M : (e.confidence = "heuristic" <=>
            \E x \in {y \in E : From(y) = e.from /\ To(y) = e.to /\ y.kind = e.kind} :
              x.confidence = "heuristic")
    <2> TAKE e \in M
    <2> DEFINE S == {y \in E : From(y) = e.from /\ To(y) = e.to /\ y.kind = e.kind}
    <2>1. PICK c \in Cr : e = Merged(Triple(c)) BY <1>10
    <2> DEFINE g == Group(Triple(c))
    <2>2. e.from = From(c) /\ e.to = To(c) /\ e.kind = c.kind
      <3> HIDE DEF Merged
      <3> QED BY <1>9, <2>1
    <2>3. e.confidence = IF \E x \in ToSet(g) : x.confidence = "heuristic"
                         THEN "heuristic" ELSE g[1].confidence
      <3> HIDE DEF Merged, Group
      <3> QED BY <1>9, <2>1
    <2>4. S = {y \in Cr : Triple(y) = Triple(c)} BY <2>2
    <2>5. g \in Seq(S) /\ ToSet(g) = S
      <3> HIDE DEF Group, Triple
      <3>1. {y \in Cr : Triple(y) = Triple(c)} \subseteq ToSet(crossing) BY <1>10
      <3> QED BY <1>10, <1>11, <2>4, <3>1, KeptList
    <2>6. c \in S BY <2>4
    <2> HIDE DEF g, S
    <2>7. g[1] \in S
      <3>1. Len(g) # 0 BY <2>5, <2>6 DEF ToSet
      <3>2. 1 \in 1..Len(g) BY <2>5, <3>1
      <3> QED BY <2>5, <3>2
    <2>8. e.confidence = "heuristic" <=> \E x \in S : x.confidence = "heuristic"
      BY <2>3, <2>5, <2>7
    <2> QED BY <2>8 DEF S
  <1> HIDE DEF D, M, E, inside
  <1>20. Total(Loops \o <<>>) + Total(Arrows \o <<>>) = Len(edges) BY <1>13, <1>17, <1>18
  <1> QED BY <1>1, <1>2, <1>16, <1>19, <1>20 DEF drawn

-----------------------------------------------------------------------------
(* What is summarised.                                                     *)

\* Joins is what the resolvers make and every cut of the graph keeps: the
\* edges join the graph's own nodes, which are of A.
Joins(topo, A) == topo.nodes \in Seq(A) /\ EdgeList(topo.edges, Keys(ToSet(topo.nodes)))

\* A cut that keeps the edges among the nodes it keeps.
LEMMA CutJoins ==
  ASSUME NEW A, NEW topo, Joins(topo, A), NEW keep, NEW t,
         t.nodes = At(topo.nodes, {i \in DOMAIN topo.nodes : nodeKey(topo.nodes[i]) \in keep}),
         t.edges \in Seq({e \in ToSet(topo.edges) : Ends(e) \subseteq keep})
  PROVE  Joins(t, A)
  <1> DEFINE s == topo.nodes
             I == {i \in DOMAIN s : nodeKey(s[i]) \in keep}
             E == {e \in ToSet(topo.edges) : Ends(e) \subseteq keep}
  <1>1. s \in Seq(A) /\ DOMAIN s = 1..Len(s) BY DEF Joins
  <1>2. t.nodes = At(s, I) /\ t.edges \in Seq(E) OBVIOUS
  <1>3. \A i \in DOMAIN s : i \in I <=> nodeKey(s[i]) \in keep OBVIOUS
  <1>4. \A e \in E : /\ Ends(e) \subseteq keep /\ Ends(e) \subseteq Keys(ToSet(s))
                    /\ e.kind \in EdgeKinds
    BY DEF Joins, EdgeList, IsEdge
  <1> HIDE DEF s, I, E
  <1>5. At(s, I) \in Seq(A) /\ ToSet(At(s, I)) = {s[i] : i \in I \cap 1..Len(s)}
    BY <1>1, AtElements
  <1>6. Keys(ToSet(s)) \cap keep \subseteq Keys(ToSet(t.nodes))
    BY <1>1, <1>2, <1>3, <1>5 DEF Keys, ToSet
  <1>7. IsList(t.edges) BY <1>2, Member
  <1>8. ToSet(t.edges) \subseteq E BY <1>2 DEF ToSet
  <1>9. \A e \in ToSet(t.edges) : IsEdge(e, Keys(ToSet(t.nodes)))
    BY <1>4, <1>6, <1>8 DEF IsEdge
  <1> QED BY <1>2, <1>5, <1>7, <1>9 DEF Joins, EdgeList

\* Tracing hostnames cuts the graph so.
LEMMA TraceJoins ==
  ASSUME NEW A, NEW topo, Joins(topo, A), NEW hostnames
  PROVE  Joins(FilterByHostname(topo, hostnames), A)
  <1>1. CASE hostnames = {}
    <2>1. FilterByHostname(topo, hostnames) = topo BY <1>1, Zenon DEF FilterByHostname
    <2> QED BY <2>1
  <1>2. CASE hostnames # {}
    <2> DEFINE keep == Component(topo, Records(topo, hostnames))
               t == FilterByHostname(topo, hostnames)
               s == topo.edges
               I == {i \in DOMAIN topo.nodes : nodeKey(topo.nodes[i]) \in keep}
               J == {i \in DOMAIN s : Ends(s[i]) \subseteq keep}
               E == {e \in ToSet(s) : Ends(e) \subseteq keep}
    <2>1. t = [nodes |-> At(topo.nodes, I), edges |-> At(s, J)]
      BY <1>2, Zenon DEF FilterByHostname, Records, Filter
    <2> HIDE DEF keep
    <2>2. s \in Seq(ToSet(s)) BY DEF Joins, EdgeList, IsList
    <2>3. \A i \in J : s[i] \in E BY <2>2 DEF ToSet
    <2>4. At(s, J) \in Seq(E)
      <3> HIDE DEF J, E, s
      <3>1. At(s, J) \in Seq(ToSet(s)) /\ ToSet(At(s, J)) = {s[i] : i \in J \cap 1..Len(s)}
        BY <2>2, AtElements
      <3>2. ToSet(At(s, J)) \subseteq E BY <2>3, <3>1
      <3>3. \A i \in 1..Len(At(s, J)) : At(s, J)[i] \in E BY <3>1, <3>2 DEF ToSet
      <3> QED BY <3>1, <3>3
    <2> HIDE DEF t
    <2>5. t.nodes = At(topo.nodes, I) /\ t.edges \in Seq(E) BY <2>1, <2>4
    <2> QED BY <2>5, CutJoins DEF t
  <1> QED BY <1>1, <1>2

\* So does dropping what no edge touches: every edge stays.
LEMMA DropJoins ==
  ASSUME NEW A, NEW topo, Joins(topo, A), topo = [nodes |-> topo.nodes, edges |-> topo.edges]
  PROVE  Joins(DropOrphans(topo), A)
  <1> DEFINE t == DropOrphans(topo)
             keep == Incident(topo)
             I == {i \in DOMAIN topo.nodes : nodeKey(topo.nodes[i]) \in keep}
  <1>1. t = [topo EXCEPT !.nodes = At(@, I)] BY Zenon DEF DropOrphans, Filter
  <1> HIDE DEF t
  <1>2. t.nodes = At(topo.nodes, I) /\ t.edges = topo.edges BY <1>1
  <1>3. \A e \in ToSet(topo.edges) : Ends(e) \subseteq keep BY DEF Incident
  <1>4. {e \in ToSet(topo.edges) : Ends(e) \subseteq keep} = ToSet(topo.edges) BY <1>3
  <1>5. topo.edges \in Seq(ToSet(topo.edges)) BY DEF Joins, EdgeList, IsList
  <1> HIDE DEF keep
  <1>6. t.edges \in Seq({e \in ToSet(topo.edges) : Ends(e) \subseteq keep}) BY <1>2, <1>4, <1>5
  <1> QED BY <1>2, <1>6, CutJoins DEF t

\* The graph a request is answered with joins its own nodes.
LEMMA AnswerJoins ==
  ASSUME GraphInv, NEW req
  PROVE  /\ Joins(Traced(req), Collectable)
         /\ Joins(DropOrphans(Traced(req)), Collectable)
  <1> DEFINE built == Build(Slice(req.filter, collected))
             t == FilterByHostname(built, req.hostnames)
  <1>1. Joins(built, Collectable) BY CollectedGraph DEF Joins
  <1>2. built = [nodes |-> built.nodes, edges |-> built.edges] BY Zenon DEF Build
  <1>3. Traced(req) = t BY Zenon DEF Traced
  <1>4. t = [nodes |-> t.nodes, edges |-> t.edges]
    <2>1. t = built \/ \E n, e : t = [nodes |-> n, edges |-> e] BY Zenon DEF FilterByHostname
    <2> HIDE DEF t, built
    <2> QED BY <1>2, <2>1
  <1> HIDE DEF built
  <1>5. Joins(t, Collectable) BY <1>1, TraceJoins
  <1> HIDE DEF t
  <1>6. Joins(DropOrphans(t), Collectable) BY <1>4, <1>5, DropJoins
  <1> QED BY <1>3, <1>5, <1>6

\* A diagram draws its graph, or the summary of it.
LEMMA DrawnGraph ==
  ASSUME NEW req, Ask(req), answer'.kind = "graph", Detail(answer'.request) # "low"
  PROVE  answer'.drawn = Collapse(answer'.topo, Detail(req), req.groupBy)
  <1>1. answer' \in {topologyAnswer(req), reachAnswer(req)} BY DEF Ask
  <1>2. reachAnswer(req).kind # "graph"
    BY DEF reachAnswer, reachIn, pathsAnswer, Refused
  <1>3. answer' \in {Refused, orphansAnswer(req), renderTopology(req)}
    BY <1>1, <1>2, Zenon DEF topologyAnswer
  <1>4. Refused.kind # "graph" /\ orphansAnswer(req).kind # "graph"
    BY DEF orphansAnswer, reportAnswer, Refused
  <1>5. PICK topo : answer' = graphAnswer(req, topo) BY <1>3, <1>4, Zenon DEF renderTopology
  <1> DEFINE d == Detail(req)
             c == Collapse(topo, d, req.groupBy)
  <1>6. answer' = [kind |-> "graph", request |-> req, topo |-> topo,
                   drawn |-> IF d = "low" THEN topo ELSE c,
                   clusters |-> RenderGroupBy(d, req.groupBy), outcome |-> Partial("ok")]
    BY <1>5, Zenon DEF graphAnswer
  <1> HIDE DEF c
  <1>7. answer'.request = req /\ answer'.topo = topo /\ answer'.drawn = IF d = "low" THEN topo ELSE c
    BY <1>6
  <1>8. d # "low" BY <1>7
  <1> QED BY <1>7, <1>8 DEF c

\* A diagram at a lower level of detail accounts for every asset and every edge
\* of the graph it summarises, and marks as a guess exactly the arrows that
\* stand for one, whatever the estate and the collection (Topology.Collapse).
THEOREM SummariesAreWhole == Spec => []CollapseKeepsEveryEdge
  <1> DEFINE Asked(ans) == ans.kind = "graph" /\ Detail(ans.request) # "low"
             Good(ans) == Summarised(ans.topo, ans.drawn, Detail(ans.request),
                                     bucketDimension(ans.request.groupBy))
  <1>1. CollapseKeepsEveryEdge <=> (Asked(answer) => Good(answer))
    BY Zenon DEF CollapseKeepsEveryEdge, Summarised
  <1>2. CollapseKeepsEveryEdge' <=> (Asked(answer') => Good(answer'))
    BY Zenon DEF CollapseKeepsEveryEdge, Summarised, SumOf, Map
  <1>3. Init => CollapseKeepsEveryEdge
    <2>1. Init => answer.kind # "graph" BY DEF Init, NoAnswer
    <2> QED BY <1>1, <2>1, Zenon
  <1>4. GraphInv /\ CollapseKeepsEveryEdge /\ [Next]_vars => CollapseKeepsEveryEdge'
    <2> SUFFICES ASSUME GraphInv, CollapseKeepsEveryEdge, [Next]_vars
                 PROVE  Asked(answer') => Good(answer')
      BY <1>2, Zenon
    <2>1. CASE \E a \in Missing : Deliver(a)
      <3>1. answer'.kind # "graph" BY <2>1 DEF Deliver, NoAnswer
      <3> QED BY <3>1, Zenon
    <2>2. CASE \E p \in ProvidersOf(pool) : Fail(p)
      <3>1. answer'.kind # "graph" BY <2>2 DEF Fail, NoAnswer
      <3> QED BY <3>1, Zenon
    <2>3. ASSUME NEW req \in Requests, Ask(req), Asked(answer') PROVE Good(answer')
      <3>1. /\ answer'.request = req
            /\ answer'.topo = IF req.includeOrphans THEN Traced(req) ELSE DropOrphans(Traced(req))
        BY <2>3, GraphAnswers, Zenon
      <3>2. answer'.drawn = Collapse(answer'.topo, Detail(req), req.groupBy)
        BY <2>3, DrawnGraph, Zenon
      <3>3. Joins(answer'.topo, Collectable) BY <3>1, AnswerJoins, Zenon
      <3> DEFINE topo == answer'.topo
      <3>4. topo.nodes \in Seq(Collectable) /\ EdgeList(topo.edges, Keys(ToSet(topo.nodes)))
        BY <3>3, Zenon DEF Joins
      <3> HIDE DEF topo
      <3>5. Summarised(topo, Collapse(topo, Detail(req), req.groupBy), Detail(req),
                       bucketDimension(req.groupBy))
        BY <3>4, CollapseCounts
      <3> QED BY <3>1, <3>2, <3>5, Zenon DEF topo
    <2>4. CASE UNCHANGED vars
      <3>1. answer' = answer BY <2>4 DEF vars
      <3> QED BY <3>1, <1>1, Zenon
    <2> QED BY <2>1, <2>2, <2>3, <2>4, Zenon DEF Next
  <1> QED BY <1>3, <1>4, GraphInvHolds, PTL DEF Spec

-----------------------------------------------------------------------------
(* What is reached: the lists and the hops of a search.                    *)

\* What Map makes of a list, at each position.
LEMMA MapHolds ==
  ASSUME NEW V, NEW s, IsList(s), NEW g, g = [i \in DOMAIN s |-> g[i]],
         \A i \in DOMAIN s : g[i] \in V
  PROVE  /\ g \o <<>> = g /\ g \in Seq(V) /\ Len(g) = Len(s)
         /\ ToSet(g) = {g[i] : i \in DOMAIN s}
  <1> DEFINE n == Len(s)
  <1>0. n \in Nat /\ DOMAIN s = 1..n BY DEF IsList
  <1> HIDE DEF n
  <1>1. g \in Seq(V) /\ Len(g) = n /\ ToSet(g) = {g[i] : i \in 1..n}
    <2>1. g = [i \in 1..n |-> g[i]] BY <1>0
    <2> QED BY <1>0, <2>1, AList
  <1>2. g \o <<>> = g BY <1>1
  <1> QED BY <1>0, <1>1, <1>2 DEF n

\* What Each makes of a list: what it makes of the elements, together.
LEMMA EachHolds ==
  ASSUME NEW V, NEW s, IsList(s), NEW g, g = [i \in DOMAIN s |-> g[i]],
         \A i \in DOMAIN s : g[i] \in Seq(V)
  PROVE  /\ FlattenSeq(g \o <<>>) \in Seq(V)
         /\ ToSet(FlattenSeq(g \o <<>>)) = UNION {ToSet(g[i]) : i \in DOMAIN s}
  <1>1. g \o <<>> = g /\ g \in Seq(Seq(V)) /\ Len(g) = Len(s) BY MapHolds
  <1>2. DOMAIN s = 1..Len(s) BY DEF IsList
  <1>3. FlattenSeq(g) \in Seq(V) /\ ToSet(FlattenSeq(g)) = UNION {ToSet(g[i]) : i \in 1..Len(g)}
    BY <1>1, FlattenElements
  <1> QED BY <1>1, <1>2, <1>3

\* t holds, of the positions of s, the first one with each key k.
Firsts(t, s, k) ==
  \E ix \in [1..Len(t) -> 1..Len(s)] :
    /\ \A a \in 1..Len(t) : t[a] = s[ix[a]]
    /\ \A a, b \in 1..Len(t) : a < b => k[ix[a]] # k[ix[b]]
    /\ \A i \in 1..Len(s) : \E a \in 1..Len(t) : k[ix[a]] = k[i]

\* What FirstOfEach picks.
LEMMA FirstsPicked ==
  ASSUME NEW V, NEW s \in Seq(V), NEW k
  PROVE  LET t == At(s, {i \in DOMAIN s : \A j \in 1..(i - 1) : k[j] # k[i]})
         IN t \in Seq(V) /\ Len(t) <= Len(s) /\ Firsts(t, s, k)
  <1> DEFINE I == {i \in DOMAIN s : \A j \in 1..(i - 1) : k[j] # k[i]}
             t == At(s, I)
             n == Len(s)
  <1>1. n \in Nat /\ DOMAIN s = 1..n OBVIOUS
  <1>2. t \in Seq(V) /\ \E ix : Picks(ix, t, s, I, n) BY AtPositions
  <1>3. Len(t) <= n BY AtLength
  <1>4. PICK ix : Picks(ix, t, s, I, n) BY <1>2
  <1>5. \A i \in 1..n : i \in I <=> \A j \in 1..(i - 1) : k[j] # k[i] BY <1>1
  <1> HIDE DEF I, t, n
  <1>6. /\ ix \in [1..Len(t) -> 1..n]
        /\ \A a \in 1..Len(t) : t[a] = s[ix[a]] /\ ix[a] \in I
        /\ \A a, b \in 1..Len(t) : a < b => ix[a] < ix[b]
        /\ \A i \in 1..n : i \in I => \E a \in 1..Len(t) : ix[a] = i
    BY <1>4 DEF Picks
  <1>7. ASSUME NEW a \in 1..Len(t), NEW b \in 1..Len(t), a < b PROVE k[ix[a]] # k[ix[b]]
    <2>1. ix[a] \in 1..n /\ ix[b] \in 1..n /\ ix[a] < ix[b] /\ ix[b] \in I BY <1>6, <1>7
    <2>2. ix[a] \in 1..(ix[b] - 1) BY <2>1, <1>1
    <2> QED BY <2>1, <2>2, <1>5
  <1>8. ASSUME NEW i \in 1..n PROVE \E a \in 1..Len(t) : k[ix[a]] = k[i]
    <2> DEFINE M == {j \in 1..n : k[j] = k[i]}
    <2>0. i \in M OBVIOUS
    <2>1. M \in SUBSET Nat /\ M # {}
      <3>1. M \subseteq 1..n OBVIOUS
      <3> HIDE DEF M
      <3> QED BY <2>0, <3>1, <1>1
    <2>2. PICK m \in M : \A j \in M : m <= j BY <2>1, Least
    <2>3. m \in 1..n /\ k[m] = k[i] OBVIOUS
    <2>4. \A j \in 1..(m - 1) : k[j] # k[m]
      <3> SUFFICES ASSUME NEW j \in 1..(m - 1), k[j] = k[m] PROVE FALSE OBVIOUS
      <3>1. j \in 1..n BY <2>3, <1>1
      <3>2. j \in M BY <3>1, <2>3
      <3> HIDE DEF M
      <3>3. m <= j BY <3>2, <2>2
      <3> QED BY <3>3, <2>3, <1>1
    <2> HIDE DEF M
    <2>5. m \in I BY <2>3, <2>4, <1>5
    <2>6. PICK a \in 1..Len(t) : ix[a] = m BY <2>3, <2>5, <1>6
    <2> QED BY <2>3, <2>6
  <1>9. Firsts(t, s, k) BY <1>6, <1>7, <1>8 DEF Firsts, n
  <1> QED BY <1>2, <1>3, <1>9 DEF t, I, n

\* What a limit leaves of a list.
LEMMA Truncated ==
  ASSUME NEW V, NEW s \in Seq(V), NEW n \in Nat
  PROVE  /\ Truncate(s, n) \in Seq(V)
         /\ Len(Truncate(s, n)) = IF Len(s) < n THEN Len(s) ELSE n
         /\ \A i \in 1..Len(Truncate(s, n)) : Truncate(s, n)[i] = s[i]
  <1> DEFINE b == IF Len(s) < n THEN Len(s) ELSE n
  <1>1. Len(s) \in Nat OBVIOUS
  <1>2. b \in 0..Len(s) /\ b - 0 = b /\ 0 \in 0..Len(s) BY <1>1
  <1>3. Truncate(s, n) = SubSeq(s, 0 + 1, b) BY DEF Truncate
  <1> HIDE DEF b
  <1>4. \A i \in 1..b : 0 + i = i BY <1>1, <1>2
  <1>5. /\ SubSeq(s, 0 + 1, b) \in Seq(V) /\ Len(SubSeq(s, 0 + 1, b)) = b - 0
        /\ \A i \in 1..(b - 0) : SubSeq(s, 0 + 1, b)[i] = s[0 + i]
    BY <1>2, Stretch
  <1> QED BY <1>2, <1>3, <1>4, <1>5 DEF b

\* The edge e is between the nodes a and b, in the direction it is followed.
Leads(dir, e, a, b) ==
  <<refKey(e.from), refKey(e.to)>> = IF dir = "upstream" THEN <<b, a>> ELSE <<a, b>>

\* The hops there are in the graph, and the paths.
HopsOf(topo) == [to : Known(topo), edge : ToSet(topo.edges)]
PathsOf(topo) == [nodes : Seq(Known(topo)), edges : Seq(ToSet(topo.edges))]

\* Eight of them, in a list.
LEMMA EightListed ==
  ASSUME NEW a, NEW b, NEW c, NEW d, NEW e, NEW f, NEW g, NEW h
  PROVE  /\ IsList(<<a, b, c, d, e, f, g, h>>)
         /\ ToSet(<<a, b, c, d, e, f, g, h>>) = {a, b, c, d, e, f, g, h}
  <1> DEFINE s == <<a, b, c, d, e, f, g, h>>
  <1>1. s \in Seq({a, b, c, d, e, f, g, h}) /\ DOMAIN s = 1..8 OBVIOUS
  <1>2. /\ s[1] = a /\ s[2] = b /\ s[3] = c /\ s[4] = d
        /\ s[5] = e /\ s[6] = f /\ s[7] = g /\ s[8] = h OBVIOUS
  <1> HIDE DEF s
  <1>3. 1..8 = {1, 2, 3, 4, 5, 6, 7, 8} OBVIOUS
  <1>4. ToSet(s) = {a, b, c, d, e, f, g, h} BY <1>1, <1>2, <1>3 DEF ToSet
  <1>5. IsList(s) BY <1>1, Member
  <1> QED BY <1>4, <1>5 DEF s

\* A graph that may be searched: its edges join its own nodes, finitely many, and
\* every node has its place in the order.
Searchable(topo) ==
  /\ IsFiniteSet(Known(topo)) /\ EdgeList(topo.edges, Known(topo))
  /\ IsList(Order) /\ Known(topo) \subseteq ToSet(Order)

\* The hops from a node are its edges, with their far ends.
LEMMA HopsAre ==
  ASSUME NEW topo, Searchable(topo), NEW key, NEW dir
  PROVE  /\ Hops(topo, key, dir) \in Seq(HopsOf(topo))
         /\ \A h \in ToSet(Hops(topo, key, dir)) : Leads(dir, h.edge, key, h.to)
         /\ \A e \in ToSet(topo.edges) : \A b :
              Leads(dir, e, key, b)
                => \E h \in ToSet(Hops(topo, key, dir)) : h.to = b /\ h.edge = e
  <1> DEFINE K == Known(topo)
             E == ToSet(topo.edges)
             V == [to : K, edge : E]
             Near(e) == IF dir = "upstream" THEN refKey(e.to) ELSE refKey(e.from)
             Far(e) == IF dir = "upstream" THEN refKey(e.from) ELSE refKey(e.to)
             M == {i \in DOMAIN topo.edges : Near(topo.edges[i]) = key
                                               /\ Ends(topo.edges[i]) \subseteq K}
             mine == At(topo.edges, M)
             kinds == <<"dns", "gateway-route", "lb-backend", "network-containment",
                        "service-backend", "traffic-allow", "traffic-deny", "waf">>
             far == {Far(e) : e \in ToSet(mine)}
             J == {i \in DOMAIN Order : Order[i] \in far}
             ends == At(Order, J)
             I(k, kind) == {i \in DOMAIN mine : Far(mine[i]) = k /\ mine[i].kind = kind}
             some(k, kind) == At(mine, I(k, kind))
             h(k, kind) == [i \in DOMAIN some(k, kind) |-> [to |-> k, edge |-> some(k, kind)[i]]]
             g(k) == [j \in DOMAIN kinds |-> h(k, kinds[j]) \o <<>>]
             f == [i \in DOMAIN ends |-> FlattenSeq(g(ends[i]) \o <<>>)]
             all == FlattenSeq(f \o <<>>)
  <1>1. Hops(topo, key, dir) = all BY Zenon DEF Hops, Each, Map, Filter, SortKeys
  <1>2. topo.edges \in Seq(E) /\ \A e \in E : Ends(e) \subseteq K /\ e.kind \in EdgeKinds
    BY DEF Searchable, EdgeList, IsList, IsEdge
  <1>3. /\ \A e : Leads(dir, e, Near(e), Far(e)) /\ Far(e) \in Ends(e)
        /\ \A e, b : Leads(dir, e, key, b) => key = Near(e) /\ b = Far(e)
    BY DEF Leads, Ends
  <1>4. \A i \in DOMAIN topo.edges : i \in M <=> Near(topo.edges[i]) = key
    <2>1. \A i \in DOMAIN topo.edges : topo.edges[i] \in E BY DEF ToSet
    <2> HIDE DEF Near
    <2> QED BY <1>2, <2>1
  <1>5. ToSet(kinds) = EdgeKinds /\ IsList(kinds) BY EightListed DEF EdgeKinds
  <1> HIDE DEF Near, Far, kinds, M, K, E
  <1>6. mine \in Seq(E) /\ \A e : e \in ToSet(mine) <=> e \in E /\ Near(e) = key
    <2>1. mine \in Seq(E) /\ ToSet(mine) = {topo.edges[i] : i \in M \cap 1..Len(topo.edges)}
      BY <1>2, AtElements
    <2>2. DOMAIN topo.edges = 1..Len(topo.edges) /\ E = {topo.edges[i] : i \in DOMAIN topo.edges}
      BY <1>2 DEF E, ToSet
    <2> HIDE DEF mine
    <2> QED BY <2>1, <2>2, <1>4
  <1> HIDE DEF mine
  <1>7. \A k, kind : /\ some(k, kind) \in Seq(E)
                     /\ \A e : e \in ToSet(some(k, kind))
                          <=> e \in ToSet(mine) /\ Far(e) = k /\ e.kind = kind
    <2> TAKE k, kind
    <2>1. \A i \in DOMAIN mine : i \in I(k, kind) <=> Far(mine[i]) = k /\ mine[i].kind = kind
      OBVIOUS
    <2>2. DOMAIN mine = 1..Len(mine) /\ ToSet(mine) = {mine[i] : i \in DOMAIN mine}
      BY <1>6 DEF ToSet
    <2> HIDE DEF I
    <2>3. /\ some(k, kind) \in Seq(E)
          /\ ToSet(some(k, kind)) = {mine[i] : i \in I(k, kind) \cap 1..Len(mine)}
      BY <1>6, AtElements
    <2> HIDE DEF some
    <2> QED BY <2>1, <2>2, <2>3
  <1> HIDE DEF some
  <1>8. \A k \in K : \A kind :
          /\ h(k, kind) \o <<>> \in Seq(V)
          /\ \A x : x \in ToSet(h(k, kind) \o <<>>)
               <=> \E e \in ToSet(some(k, kind)) : x = [to |-> k, edge |-> e]
    <2> SUFFICES ASSUME NEW k \in K, NEW kind
                 PROVE  /\ h(k, kind) \o <<>> \in Seq(V)
                        /\ \A x : x \in ToSet(h(k, kind) \o <<>>)
                             <=> \E e \in ToSet(some(k, kind)) : x = [to |-> k, edge |-> e]
      OBVIOUS
    <2> DEFINE s == some(k, kind)
               t == h(k, kind)
    <2>1. s \in Seq(E) BY <1>7
    <2>2. t = [i \in DOMAIN s |-> t[i]] /\ \A i \in DOMAIN s : t[i] = [to |-> k, edge |-> s[i]]
      OBVIOUS
    <2>3. IsList(s) /\ \A i \in DOMAIN s : s[i] \in E BY <2>1, Member
    <2> HIDE DEF s, t
    <2>4. \A i \in DOMAIN s : t[i] \in V BY <2>2, <2>3
    <2> HIDE DEF V
    <2>5. t \o <<>> = t /\ t \in Seq(V) /\ ToSet(t) = {t[i] : i \in DOMAIN s}
      BY <2>2, <2>3, <2>4, MapHolds
    <2>6. ToSet(s) = {s[i] : i \in DOMAIN s} BY DEF ToSet
    <2>7. \A x : x \in ToSet(t) <=> \E e \in ToSet(s) : x = [to |-> k, edge |-> e]
      BY <2>2, <2>5, <2>6
    <2> QED BY <2>5, <2>7 DEF s, t
  <1> HIDE DEF h
  <1>9. \A k \in K : LET t == FlattenSeq(g(k) \o <<>>)
                     IN /\ t \in Seq(V)
                        /\ \A x : x \in ToSet(t)
                             <=> \E e \in ToSet(mine) : Far(e) = k /\ x = [to |-> k, edge |-> e]
    <2> TAKE k \in K
    <2> DEFINE t == FlattenSeq(g(k) \o <<>>)
    <2>1. g(k) = [j \in DOMAIN kinds |-> g(k)[j]]
          /\ \A j \in DOMAIN kinds : g(k)[j] = h(k, kinds[j]) \o <<>>
      OBVIOUS
    <2> HIDE DEF g, V
    <2>2. \A j \in DOMAIN kinds : g(k)[j] \in Seq(V) BY <2>1, <1>8
    <2>3. t \in Seq(V) /\ ToSet(t) = UNION {ToSet(g(k)[j]) : j \in DOMAIN kinds}
      BY <1>5, <2>1, <2>2, EachHolds
    <2> HIDE DEF t
    <2>4. \A x : x \in ToSet(t) <=> \E kind \in EdgeKinds : x \in ToSet(h(k, kind) \o <<>>)
      <3>1. \A x : x \in ToSet(t) <=> \E j \in DOMAIN kinds : x \in ToSet(g(k)[j]) BY <2>3
      <3>2. EdgeKinds = {kinds[j] : j \in DOMAIN kinds} BY <1>5 DEF ToSet
      <3>3. \A x : x \in ToSet(t)
                     <=> \E j \in DOMAIN kinds : x \in ToSet(h(k, kinds[j]) \o <<>>)
        BY <2>1, <3>1
      <3> QED BY <3>2, <3>3
    <2>5. \A x : x \in ToSet(t) <=> \E kind \in EdgeKinds : \E e \in ToSet(mine) :
                   Far(e) = k /\ e.kind = kind /\ x = [to |-> k, edge |-> e]
      BY <2>4, <1>7, <1>8
    <2>6. \A e \in ToSet(mine) : e.kind \in EdgeKinds BY <1>2, <1>6
    <2>7. \A x : x \in ToSet(t)
                   <=> \E e \in ToSet(mine) : Far(e) = k /\ x = [to |-> k, edge |-> e]
      BY <2>5, <2>6
    <2> QED BY <2>3, <2>7 DEF t
  <1> HIDE DEF g
  <1>10. far \subseteq K BY <1>2, <1>3, <1>6
  <1>11. IsList(ends) /\ ToSet(ends) = far
    <2>1. \A i \in DOMAIN Order : i \in J <=> Order[i] \in far OBVIOUS
    <2>2. Order \in Seq(ToSet(Order)) /\ K \subseteq ToSet(Order) BY DEF Searchable, IsList, K
    <2>3. DOMAIN Order = 1..Len(Order) /\ ToSet(Order) = {Order[i] : i \in DOMAIN Order}
      BY <2>2 DEF ToSet
    <2> HIDE DEF J, far
    <2>4. /\ ends \in Seq(ToSet(Order))
          /\ ToSet(ends) = {Order[i] : i \in J \cap 1..Len(Order)}
      BY <2>2, AtElements
    <2>5. IsList(ends) BY <2>4, Member
    <2> HIDE DEF ends
    <2> QED BY <1>10, <2>1, <2>2, <2>3, <2>4, <2>5
  <1>12. all \in Seq(V) /\ \A x : x \in ToSet(all)
           <=> \E e \in ToSet(mine) : x = [to |-> Far(e), edge |-> e]
    <2> HIDE DEF ends, V
    <2>1. f = [i \in DOMAIN ends |-> f[i]]
          /\ \A i \in DOMAIN ends : f[i] = FlattenSeq(g(ends[i]) \o <<>>)
      OBVIOUS
    <2>2. \A i \in DOMAIN ends : ends[i] \in K BY <1>10, <1>11 DEF ToSet
    <2> HIDE DEF f
    <2>3. \A i \in DOMAIN ends : f[i] \in Seq(V) BY <2>1, <2>2, <1>9
    <2>4. all \in Seq(V) /\ ToSet(all) = UNION {ToSet(f[i]) : i \in DOMAIN ends}
      BY <2>1, <2>3, <1>11, EachHolds
    <2> HIDE DEF all
    <2>5. \A x : x \in ToSet(all) <=> \E i \in DOMAIN ends : \E e \in ToSet(mine) :
                   Far(e) = ends[i] /\ x = [to |-> ends[i], edge |-> e]
      BY <2>1, <2>2, <2>4, <1>9
    <2>6. \A e \in ToSet(mine) : \E i \in DOMAIN ends : Far(e) = ends[i]
      BY <1>11 DEF ToSet
    <2> QED BY <2>4, <2>5, <2>6
  <1> HIDE DEF all, V
  <1>13. \A x \in ToSet(all) : Leads(dir, x.edge, key, x.to)
    <2> TAKE x \in ToSet(all)
    <2>1. PICK e \in ToSet(mine) : x = [to |-> Far(e), edge |-> e] BY <1>12
    <2> QED BY <2>1, <1>3, <1>6
  <1>14. ASSUME NEW e \in E, NEW b, Leads(dir, e, key, b)
         PROVE  \E x \in ToSet(all) : x.to = b /\ x.edge = e
    <2>1. e \in ToSet(mine) /\ b = Far(e) BY <1>3, <1>6, <1>14
    <2>2. [to |-> b, edge |-> e] \in ToSet(all) BY <2>1, <1>12
    <2> QED BY <2>2
  <1> QED BY <1>1, <1>12, <1>13, <1>14 DEF V, K, E, HopsOf

\* The limits are positive.
LEMMA Limits ==
  ASSUME NEW opts, opts.maxHops \in Int, opts.maxPaths \in Int
  PROVE  maxHops(opts) \in Nat \ {0} /\ maxPaths(opts) \in Nat \ {0}
  BY DEF maxHops, maxPaths

\* The hops a search goes on with from the end of a path.
LEMMA OnwardAre ==
  ASSUME NEW topo, Searchable(topo), NEW path, Target(path) \in Known(topo),
         NEW dir, NEW opts, NEW seen
  PROVE  LET t == Onward(topo, path, dir, opts, seen)
         IN /\ t \in Seq(HopsOf(topo))
            /\ Length(path) >= maxHops(opts) => t = <<>>
            /\ \A h \in ToSet(t) : LeadsOn(topo, dir, opts, h.edge, Target(path), h.to)
                                     /\ h.to \notin seen
            /\ ~(Length(path) >= maxHops(opts)) =>
                 \A e : \A b : LeadsOn(topo, dir, opts, e, Target(path), b) /\ b \notin seen
                                 => \E h \in ToSet(t) : h.to = b
  <1> DEFINE key == Target(path)
             hops == Hops(topo, key, dir)
             I == {i \in DOMAIN hops : hops[i].to \notin seen /\ allows(opts, hops[i].edge)}
             t == Onward(topo, path, dir, opts, seen)
             V == HopsOf(topo)
  <1>1. t = IF Length(path) >= maxHops(opts) THEN <<>> ELSE At(hops, I)
    BY Zenon DEF Onward, Filter
  <1>2. /\ hops \in Seq(V) /\ \A h \in ToSet(hops) : Leads(dir, h.edge, key, h.to)
        /\ \A e \in ToSet(topo.edges) : \A b :
             Leads(dir, e, key, b) => \E h \in ToSet(hops) : h.to = b /\ h.edge = e
    BY HopsAre
  <1>3. \A i \in DOMAIN hops : i \in I <=> hops[i].to \notin seen /\ allows(opts, hops[i].edge)
    OBVIOUS
  <1>4. DOMAIN hops = 1..Len(hops) /\ ToSet(hops) = {hops[i] : i \in DOMAIN hops}
    BY <1>2 DEF ToSet
  <1>5. \A h \in V : h.to \in Known(topo) /\ h.edge \in ToSet(topo.edges) BY DEF HopsOf
  <1>6. \A e : \A b : LeadsOn(topo, dir, opts, e, key, b)
          <=> /\ e \in ToSet(topo.edges) /\ allows(opts, e) /\ b \in Known(topo)
              /\ Leads(dir, e, key, b)
    BY DEF LeadsOn, Leads
  <1> HIDE DEF hops, I, V, key, t
  <1>7. At(hops, I) \in Seq(V) /\ ToSet(At(hops, I)) = {hops[i] : i \in I \cap 1..Len(hops)}
    BY <1>2, AtElements
  <1>8. \A h : h \in ToSet(At(hops, I))
          <=> h \in ToSet(hops) /\ h.to \notin seen /\ allows(opts, h.edge)
    BY <1>3, <1>4, <1>7
  <1>9. ToSet(hops) \subseteq V BY <1>2, <1>4
  <1>10. \A h \in ToSet(At(hops, I)) :
           LeadsOn(topo, dir, opts, h.edge, key, h.to) /\ h.to \notin seen
    BY <1>2, <1>5, <1>6, <1>8, <1>9
  <1>11. ASSUME NEW e, NEW b, LeadsOn(topo, dir, opts, e, key, b), b \notin seen
         PROVE  \E h \in ToSet(At(hops, I)) : h.to = b
    <2>1. PICK h \in ToSet(hops) : h.to = b /\ h.edge = e BY <1>2, <1>6, <1>11
    <2> QED BY <2>1, <1>6, <1>8, <1>11
  <1>12. ToSet(<<>>) = {} /\ <<>> \in Seq(V) BY DEF ToSet
  <1>13. CASE Length(path) >= maxHops(opts) BY <1>1, <1>12, <1>13 DEF t, V, key
  <1>14. CASE ~(Length(path) >= maxHops(opts))
    <2>1. t = At(hops, I) BY <1>1, <1>14
    <2> QED BY <2>1, <1>7, <1>10, <1>11, <1>14 DEF t, V, key
  <1> QED BY <1>13, <1>14

\* A path that follows edges of the graph and does not cross itself.
Sound(topo, dir, opts, p) ==
  /\ p \in PathsOf(topo) /\ Len(p.nodes) = Len(p.edges) + 1
  /\ \A i, j \in 1..Len(p.nodes) : p.nodes[i] = p.nodes[j] => i = j
  /\ \A i \in 1..Len(p.edges) :
       LeadsOn(topo, dir, opts, p.edges[i], p.nodes[i], p.nodes[i + 1])

\* What a sound path is: a route, through nodes of the graph.
LEMMA SoundPath ==
  ASSUME NEW topo, NEW dir, NEW opts, NEW p, Sound(topo, dir, opts, p)
  PROVE  /\ Length(p) \in Nat /\ Target(p) = p.nodes[Length(p) + 1] /\ Target(p) \in Known(topo)
         /\ Target(p) \in ToSet(p.nodes) /\ ToSet(p.nodes) \subseteq Known(topo)
         /\ p.nodes[1] \in Known(topo)
         /\ IsRoute(p, topo, dir, opts)
  <1> DEFINE s == p.nodes
             n == Len(s)
  <1>1. /\ s \in Seq(Known(topo)) /\ p.edges \in Seq(ToSet(topo.edges))
        /\ n = Len(p.edges) + 1
    BY DEF Sound, PathsOf
  <1>2. Length(p) \in Nat /\ n = Length(p) + 1 BY <1>1 DEF Length
  <1>3. Target(p) = s[n] BY DEF Target, Last
  <1>4. n \in 1..n /\ 1 \in 1..n /\ DOMAIN s = 1..n BY <1>1, <1>2
  <1>5. \A i, j \in 1..n : s[i] = s[j] => i = j BY DEF Sound
  <1>6. Cardinality(ToSet(s)) = n
    <2>1. s \in [1..n -> ToSet(s)] BY <1>1, <1>4 DEF ToSet
    <2>2. \A x \in ToSet(s) : \E i \in 1..n : s[i] = x BY <1>4 DEF ToSet
    <2>3. n \in Nat BY <1>2
    <2> HIDE DEF n, s
    <2>4. s \in Injection(1..n, ToSet(s)) BY <2>1, <1>5 DEF Injection, IsInjective
    <2>5. s \in Surjection(1..n, ToSet(s)) BY <2>1, <2>2 DEF Surjection
    <2>6. IsFiniteSet(1..n) /\ Cardinality(1..n) = n BY <2>3, FS_Interval
    <2>7. IsFiniteSet(ToSet(s)) BY <2>5, <2>6, FS_Surjection
    <2>8. Cardinality(1..n) = Cardinality(ToSet(s)) BY <2>4, <2>5, <2>6, <2>7, FS_Injection
    <2> QED BY <2>6, <2>8
  <1>7. \A i \in 1..Length(p) : LeadsOn(topo, dir, opts, p.edges[i], s[i], s[i + 1])
    BY DEF Sound, Length
  <1>8. IsRoute(p, topo, dir, opts) BY <1>2, <1>6, <1>7, Zenon DEF IsRoute
  <1>9. ToSet(s) \subseteq Known(topo) /\ s[n] \in ToSet(s) /\ s[1] \in ToSet(s)
    BY <1>1, <1>4 DEF ToSet
  <1> QED BY <1>2, <1>3, <1>8, <1>9

\* A path of one node is sound.
LEMMA SoundStart ==
  ASSUME NEW topo, NEW dir, NEW opts, NEW k \in Known(topo)
  PROVE  /\ Sound(topo, dir, opts, Start(k)) /\ Length(Start(k)) = 0 /\ Target(Start(k)) = k
         /\ ToSet(Start(k).nodes) = {k} /\ Start(k).nodes[1] = k
  <1> DEFINE p == Start(k)
  <1>1. p.nodes = <<k>> /\ p.edges = <<>> /\ p \in PathsOf(topo) BY DEF Start, PathsOf
  <1> HIDE DEF p
  <1>2. Len(p.nodes) = 1 /\ Len(p.edges) = 0 /\ p.nodes[1] = k BY <1>1
  <1>3. ToSet(p.nodes) = {k} BY <1>1, <1>2 DEF ToSet
  <1>4. Sound(topo, dir, opts, p) BY <1>1, <1>2 DEF Sound
  <1>5. Length(p) = 0 /\ Target(p) = k BY <1>1, <1>2 DEF Length, Target, Last
  <1> QED BY <1>2, <1>3, <1>4, <1>5 DEF p

\* One more hop, to a node not yet on the path, leaves it sound.
LEMMA SoundExtend ==
  ASSUME NEW topo, NEW dir, NEW opts, NEW p, Sound(topo, dir, opts, p),
         NEW h \in HopsOf(topo), LeadsOn(topo, dir, opts, h.edge, Target(p), h.to),
         h.to \notin ToSet(p.nodes)
  PROVE  LET q == Extend(p, h)
         IN /\ Sound(topo, dir, opts, q) /\ Length(q) = Length(p) + 1 /\ Target(q) = h.to
            /\ ToSet(q.nodes) = ToSet(p.nodes) \cup {h.to} /\ q.nodes[1] = p.nodes[1]
  <1> DEFINE q == Extend(p, h)
             s == p.nodes
             es == p.edges
             n == Len(es)
  <1>1. s \in Seq(Known(topo)) /\ es \in Seq(ToSet(topo.edges)) /\ Len(s) = n + 1 /\ n \in Nat
    BY DEF Sound, PathsOf
  <1>2. h.to \in Known(topo) /\ h.edge \in ToSet(topo.edges) BY DEF HopsOf
  <1>3. q.nodes = Append(s, h.to) /\ q.edges = Append(es, h.edge)
        /\ q = [nodes |-> q.nodes, edges |-> q.edges]
    BY DEF Extend
  <1>a. Target(p) = s[n + 1] BY SoundPath DEF Length
  <1>b. /\ \A i, j \in 1..(n + 1) : s[i] = s[j] => i = j
        /\ \A i \in 1..n : LeadsOn(topo, dir, opts, es[i], s[i], s[i + 1])
    BY <1>1 DEF Sound
  <1>c. \A i \in 1..(n + 1) : s[i] # h.to BY <1>1 DEF ToSet
  <1>d. ToSet(s) = {s[i] : i \in 1..(n + 1)} BY <1>1 DEF ToSet
  <1> HIDE DEF q, s, es, n
  <1>4. /\ q.nodes \in Seq(Known(topo)) /\ Len(q.nodes) = n + 2 /\ q.nodes[n + 2] = h.to
        /\ \A i \in 1..(n + 1) : q.nodes[i] = s[i]
    BY <1>1, <1>2, <1>3
  <1>5. /\ q.edges \in Seq(ToSet(topo.edges)) /\ Len(q.edges) = n + 1 /\ q.edges[n + 1] = h.edge
        /\ \A i \in 1..n : q.edges[i] = es[i]
    BY <1>1, <1>2, <1>3 DEF n
  <1>6. q \in PathsOf(topo) BY <1>3, <1>4, <1>5 DEF PathsOf
  <1>7. \A i \in 1..(n + 2) : i = n + 2 \/ i \in 1..(n + 1) BY <1>1
  <1>8. \A i, j \in 1..(n + 2) : q.nodes[i] = q.nodes[j] => i = j
    BY <1>4, <1>7, <1>b, <1>c
  <1>9. \A i \in 1..(n + 1) : LeadsOn(topo, dir, opts, q.edges[i], q.nodes[i], q.nodes[i + 1])
    <2> TAKE i \in 1..(n + 1)
    <2>1. CASE i = n + 1
      <3>1. q.nodes[i] = Target(p) /\ q.nodes[i + 1] = h.to /\ q.edges[i] = h.edge
        BY <2>1, <1>1, <1>4, <1>5, <1>a
      <3> QED BY <3>1
    <2>2. CASE i # n + 1
      <3>1. i \in 1..n /\ i + 1 \in 1..(n + 1) BY <2>2, <1>1
      <3> QED BY <3>1, <1>4, <1>5, <1>b
    <2> QED BY <2>1, <2>2
  <1>10. Len(q.nodes) = Len(q.edges) + 1 BY <1>1, <1>4, <1>5
  <1>11. Sound(topo, dir, opts, q) BY <1>4, <1>5, <1>6, <1>8, <1>9, <1>10 DEF Sound
  <1>12. Length(q) = Length(p) + 1 BY <1>5 DEF Length, n, es
  <1>13. Target(q) = h.to BY <1>4 DEF Target, Last
  <1>14. ToSet(q.nodes) = ToSet(s) \cup {h.to}
    <2>1. ToSet(q.nodes) = {q.nodes[i] : i \in 1..(n + 2)} BY <1>4 DEF ToSet
    <2>2. n + 2 \in 1..(n + 2) /\ \A i \in 1..(n + 1) : i \in 1..(n + 2) BY <1>1
    <2> QED BY <2>1, <2>2, <1>4, <1>7, <1>d
  <1>15. q.nodes[1] = s[1] BY <1>1, <1>4
  <1> QED BY <1>11, <1>12, <1>13, <1>14, <1>15 DEF q, s

\* What one hop leads to.
LEMMA StepIs ==
  ASSUME NEW topo, NEW dir, NEW opts, NEW S
  PROVE  /\ Step(topo, dir, opts, S) \subseteq Known(topo)
         /\ \A b : b \in Step(topo, dir, opts, S)
                     <=> \E a \in S : \E e : LeadsOn(topo, dir, opts, e, a, b)
  BY Zenon DEF Step, LeadsOn

\* W holds what is within each number of hops of the seeds.
Balls(W, topo, dir, opts, seeds) ==
  /\ W[0] = seeds
  /\ \A n \in 1..maxHops(opts) : W[n] = W[n - 1] \cup Step(topo, dir, opts, W[n - 1])
  /\ \A n \in 0..maxHops(opts) : W[n] \in SUBSET Known(topo)
  /\ \A m, n \in 0..maxHops(opts) : m <= n => W[m] \subseteq W[n]

\* Within holds what is within each number of hops: its recursion is followed.
LEMMA WithinIs ==
  ASSUME NEW topo, NEW dir, NEW opts, maxHops(opts) \in Nat, NEW seeds \in SUBSET Known(topo)
  PROVE  Balls(Within(topo, dir, opts, seeds), topo, dir, opts, seeds)
  <1> DEFINE M == maxHops(opts)
             V == SUBSET Known(topo)
             T(S) == S \cup Step(topo, dir, opts, S)
             step == [x \in (1..M) \X V |-> T(x[2])]
             Def(f) == [n \in 0..M |-> IF n = 0 THEN seeds
                                       ELSE f[n - 1] \cup Step(topo, dir, opts, f[n - 1])]
             W == CHOOSE f : f = Def(f)
  <1>1. Within(topo, dir, opts, seeds) = W BY DEF Within
  <1>2. M \in Nat OBVIOUS
  <1>3. \A S \in V : T(S) \in V BY StepIs
  <1>4. \A f : Def(f) = [n \in 0..M |-> IF n = 0 THEN seeds ELSE T(f[n - 1])] OBVIOUS
  <1> HIDE DEF T
  <1>5. step \in [(1..M) \X V -> V] BY <1>3
  <1>6. \A i \in 1..M, S \in V : step[<<i, S>>] = T(S) OBVIOUS
  <1> HIDE DEF M, V, step, Def
  <1>7. seeds \in V BY DEF V
  <1>8. PICK f \in [0..M -> V] : Follows(f, M, seeds, step) BY <1>2, <1>5, <1>7, RecursionExists
  <1>9. f[0] = seeds /\ \A i \in 1..M : f[i] = step[<<i, f[i - 1]>>] BY <1>8 DEF Follows
  <1>10. \A i \in 1..M : i - 1 \in 0..M BY <1>2
  <1>11. \A i \in 0..M : f[i] = IF i = 0 THEN seeds ELSE T(f[i - 1])
    <2> TAKE i \in 0..M
    <2>1. CASE i = 0 BY <2>1, <1>9
    <2>2. CASE i # 0
      <3>1. i \in 1..M BY <2>2, <1>2
      <3> QED BY <3>1, <2>2, <1>6, <1>9, <1>10
    <2> QED BY <2>1, <2>2
  <1>12. f = Def(f)
    <2>1. f = [n \in 0..M |-> f[n]] OBVIOUS
    <2>2. Def(f) = [n \in 0..M |-> IF n = 0 THEN seeds ELSE T(f[n - 1])] BY <1>4
    <2> QED BY <2>1, <2>2, <1>11
  <1>13. W = Def(W) BY <1>12
  <1> HIDE DEF W
  <1>14. W = [n \in 0..M |-> IF n = 0 THEN seeds ELSE T(W[n - 1])] BY <1>4, <1>13
  <1>15. W[0] = seeds /\ \A n \in 1..M : W[n] = T(W[n - 1]) BY <1>14, <1>2
  <1>16. \A n \in 0..M : W[n] \in V
    <2> DEFINE S == {n \in Nat : n <= M => W[n] \in V}
    <2>1. 0 \in S BY <1>7, <1>15
    <2>2. ASSUME NEW n \in Nat, n \in S PROVE n + 1 \in S
      <3> SUFFICES ASSUME n + 1 <= M PROVE W[n + 1] \in V OBVIOUS
      <3>1. n + 1 \in 1..M /\ (n + 1) - 1 = n /\ W[n] \in V BY <2>2, <1>2
      <3> QED BY <3>1, <1>3, <1>15
    <2> HIDE DEF S
    <2>3. Nat \subseteq S BY <2>1, <2>2, Induct
    <2> QED BY <2>3, <1>2 DEF S
  <1>17. \A n \in 1..M : W[n - 1] \subseteq W[n] BY <1>15 DEF T
  <1>18. ASSUME NEW m \in 0..M PROVE \A n \in 0..M : m <= n => W[m] \subseteq W[n]
    <2> DEFINE S == {d \in Nat : m + d <= M => W[m] \subseteq W[m + d]}
    <2>1. 0 \in S BY <1>2
    <2>2. ASSUME NEW d \in Nat, d \in S PROVE d + 1 \in S
      <3> SUFFICES ASSUME m + (d + 1) <= M PROVE W[m] \subseteq W[m + (d + 1)] OBVIOUS
      <3>1. m + d <= M /\ m + (d + 1) \in 1..M /\ (m + (d + 1)) - 1 = m + d BY <1>2
      <3>2. W[m] \subseteq W[m + d] BY <2>2, <3>1
      <3>3. W[m + d] \subseteq W[m + (d + 1)] BY <3>1, <1>17
      <3> QED BY <3>2, <3>3
    <2> HIDE DEF S
    <2>3. Nat \subseteq S BY <2>1, <2>2, Induct
    <2> TAKE n \in 0..M
    <2>4. m <= n => n - m \in Nat /\ m + (n - m) = n BY <1>2
    <2> QED BY <2>3, <2>4, <1>2 DEF S
  <1>19. Balls(W, topo, dir, opts, seeds) BY <1>15, <1>16, <1>18 DEF Balls, T, V, M
  <1> QED BY <1>1, <1>19

\* The hops a search adds: of those that go on, the first to each node, as many
\* as the limit allows; where it does not bite, all that is a hop away is seen.
LEMMA NewHops ==
  ASSUME NEW topo, Searchable(topo), NEW path, Target(path) \in Known(topo),
         NEW dir, NEW opts, NEW seen, NEW n \in Nat, n # 0
  PROVE  LET new == Truncate(FirstOfEach(Onward(topo, path, dir, opts, seen), LAMBDA h : h.to), n)
         IN /\ new \in Seq(HopsOf(topo)) /\ Len(new) <= n
            /\ \A i, j \in 1..Len(new) : new[i].to = new[j].to => i = j
            /\ \A h \in ToSet(new) : /\ ~(Length(path) >= maxHops(opts)) /\ h.to \notin seen
                                     /\ LeadsOn(topo, dir, opts, h.edge, Target(path), h.to)
            /\ Len(new) < n /\ ~(Length(path) >= maxHops(opts)) =>
                 Step(topo, dir, opts, {Target(path)}) \subseteq seen \cup {h.to : h \in ToSet(new)}
  <1> DEFINE t == Onward(topo, path, dir, opts, seen)
             k == [i \in DOMAIN t |-> t[i].to]
             u == At(t, {i \in DOMAIN t : \A j \in 1..(i - 1) : k[j] # k[i]})
             new == Truncate(u, n)
             V == HopsOf(topo)
  <1>1. FirstOfEach(t, LAMBDA h : h.to) = u
    <2> DEFINE I == {i \in DOMAIN t : \A j \in 1..(i - 1) : t[j].to # t[i].to}
    <2>1. FirstOfEach(t, LAMBDA h : h.to) = At(t, I) BY Zenon DEF FirstOfEach
    <2>2. t \in Seq(V) BY OnwardAre
    <2>3. I = {i \in DOMAIN t : \A j \in 1..(i - 1) : k[j] # k[i]}
      <3> HIDE DEF t
      <3>1. \A i \in DOMAIN t : \A j \in 1..(i - 1) : j \in DOMAIN t BY <2>2
      <3> QED BY <3>1
    <2> QED BY <2>1, <2>3
  <1>2. /\ t \in Seq(V)
        /\ Length(path) >= maxHops(opts) => t = <<>>
        /\ \A h \in ToSet(t) : LeadsOn(topo, dir, opts, h.edge, Target(path), h.to)
                                 /\ h.to \notin seen
        /\ ~(Length(path) >= maxHops(opts)) =>
             \A e : \A b : LeadsOn(topo, dir, opts, e, Target(path), b) /\ b \notin seen
                             => \E h \in ToSet(t) : h.to = b
    BY OnwardAre
  <1>3. \A i \in DOMAIN t : k[i] = t[i].to OBVIOUS
  <1> HIDE DEF t, k, V
  <1>4. u \in Seq(V) /\ Len(u) <= Len(t) /\ Firsts(u, t, k) BY <1>2, FirstsPicked
  <1> HIDE DEF u
  <1>5. /\ new \in Seq(V) /\ Len(new) = (IF Len(u) < n THEN Len(u) ELSE n)
        /\ \A i \in 1..Len(new) : new[i] = u[i]
    BY <1>4, Truncated
  <1> HIDE DEF new
  <1>6. Len(new) \in Nat /\ Len(new) <= n /\ Len(new) <= Len(u) BY <1>4, <1>5
  <1>7. PICK ix \in [1..Len(u) -> 1..Len(t)] :
          /\ \A a \in 1..Len(u) : u[a] = t[ix[a]]
          /\ \A a, b \in 1..Len(u) : a < b => k[ix[a]] # k[ix[b]]
          /\ \A i \in 1..Len(t) : \E a \in 1..Len(u) : k[ix[a]] = k[i]
    BY <1>4 DEF Firsts
  <1>8. DOMAIN t = 1..Len(t) BY <1>2
  <1>9. \A a \in 1..Len(u) : u[a].to = k[ix[a]] /\ u[a] \in ToSet(t) BY <1>3, <1>7, <1>8 DEF ToSet
  <1>10. \A a \in 1..Len(new) : a \in 1..Len(u) /\ new[a] = u[a] BY <1>4, <1>5, <1>6
  <1>11. ASSUME NEW i \in 1..Len(new), NEW j \in 1..Len(new), new[i].to = new[j].to PROVE i = j
    <2>1. i \in 1..Len(u) /\ j \in 1..Len(u) BY <1>10
    <2>2. k[ix[i]] = k[ix[j]] BY <2>1, <1>9, <1>10, <1>11
    <2>3. ~(i < j) /\ ~(j < i) BY <2>1, <2>2, <1>7
    <2> QED BY <2>1, <2>3
  <1>12. ToSet(new) = {new[a] : a \in 1..Len(new)} BY <1>5 DEF ToSet
  <1>13. ToSet(new) \subseteq ToSet(t) BY <1>9, <1>10, <1>12
  <1>14. Length(path) >= maxHops(opts) => ToSet(new) = {}
    <2> SUFFICES ASSUME Length(path) >= maxHops(opts) PROVE ToSet(new) = {} OBVIOUS
    <2>1. t = <<>> BY <1>2
    <2>2. ToSet(t) = {} BY <2>1 DEF ToSet
    <2> QED BY <2>2, <1>13
  <1>15. ASSUME Len(new) < n, ~(Length(path) >= maxHops(opts)),
                NEW b \in Step(topo, dir, opts, {Target(path)}), b \notin seen
         PROVE  b \in {h.to : h \in ToSet(new)}
    <2>1. PICK e : LeadsOn(topo, dir, opts, e, Target(path), b) BY StepIs
    <2>2. PICK h \in ToSet(t) : h.to = b BY <2>1, <1>2, <1>15
    <2>3. PICK i \in 1..Len(t) : h = t[i] BY <1>8 DEF ToSet
    <2>4. PICK a \in 1..Len(u) : k[ix[a]] = k[i] BY <1>7
    <2>5. u[a].to = b BY <2>2, <2>3, <2>4, <1>3, <1>8, <1>9
    <2>6. Len(new) = Len(u) BY <1>4, <1>5, <1>15
    <2>7. a \in 1..Len(new) /\ new[a] = u[a] BY <2>6, <1>10
    <2> QED BY <2>5, <2>7, <1>12
  <1>16. /\ new \in Seq(V) /\ Len(new) <= n
         /\ \A i, j \in 1..Len(new) : new[i].to = new[j].to => i = j
         /\ \A h \in ToSet(new) : /\ ~(Length(path) >= maxHops(opts)) /\ h.to \notin seen
                                  /\ LeadsOn(topo, dir, opts, h.edge, Target(path), h.to)
         /\ Len(new) < n /\ ~(Length(path) >= maxHops(opts)) =>
              Step(topo, dir, opts, {Target(path)}) \subseteq seen \cup {h.to : h \in ToSet(new)}
    BY <1>2, <1>5, <1>6, <1>11, <1>13, <1>14, <1>15
  <1>17. Truncate(FirstOfEach(t, LAMBDA h : h.to), n) = new BY <1>1 DEF new
  <1> QED BY <1>16, <1>17, Zenon DEF V, t

-----------------------------------------------------------------------------
(* Reachable: a breadth-first search.                                      *)

SearchesOf(topo) ==
  [queue : Seq(PathsOf(topo)), seen : SUBSET Known(topo), out : Seq(PathsOf(topo))]

\* p is a shortest path from the seeds to its end, among the nodes seen.
Nearest(topo, dir, opts, W, seen, p) ==
  /\ Sound(topo, dir, opts, p) /\ ToSet(p.nodes) \subseteq seen
  /\ Length(p) <= maxHops(opts) /\ Target(p) \in W[Length(p)]
  /\ Length(p) > 0 => Target(p) \notin W[Length(p) - 1]

\* The queue is sorted by length, and its lengths differ by one at most.
Tiered(queue) ==
  \A i, j \in 1..Len(queue) :
    i <= j => Length(queue[i]) <= Length(queue[j]) /\ Length(queue[j]) <= Length(queue[i]) + 1

\* The nodes seen whose neighbours may not have been are the ends of the queue,
\* and those at the limit on the hops.
Settled(topo, dir, opts, W, s) ==
  \A k \in s.seen :
    \/ \E p \in ToSet(s.queue) : Target(p) = k
    \/ k \notin W[maxHops(opts) - 1]
    \/ Step(topo, dir, opts, {k}) \subseteq s.seen

\* What a breadth-first search has found: for every node but the seeds that it
\* has seen, one shortest path, nearest first.
Found(topo, dir, opts, W, seeds, s) ==
  /\ s \in SearchesOf(topo) /\ Len(s.out) <= maxPaths(opts)
  /\ \A p \in ToSet(s.queue) : Nearest(topo, dir, opts, W, s.seen, p)
  /\ \A p \in ToSet(s.out) : /\ Nearest(topo, dir, opts, W, s.seen, p) /\ Length(p) > 0
                             /\ W[Length(p) - 1] \subseteq s.seen
  /\ s.seen = seeds \cup {Target(p) : p \in ToSet(s.out)}
  /\ \A i, j \in 1..Len(s.out) : Target(s.out[i]) = Target(s.out[j]) => i = j
  /\ Tiered(s.queue)
  /\ Len(s.out) < maxPaths(opts) => Settled(topo, dir, opts, W, s)

\* Everything nearer than the path the search takes next has been seen.
LEMMA NearerSeen ==
  ASSUME NEW topo, NEW dir, NEW opts, maxHops(opts) \in Nat \ {0},
         NEW W, NEW seeds, Balls(W, topo, dir, opts, seeds),
         NEW s, Found(topo, dir, opts, W, seeds, s), Len(s.out) < maxPaths(opts),
         NEW L \in 0..maxHops(opts), \A p \in ToSet(s.queue) : Length(p) >= L
  PROVE  W[L] \subseteq s.seen
  <1> DEFINE M == maxHops(opts)
             S == {n \in Nat : n <= L => W[n] \subseteq s.seen}
  <1>1. 0 \in S BY DEF Balls, Found
  <1>2. ASSUME NEW n \in Nat, n \in S PROVE n + 1 \in S
    <2> SUFFICES ASSUME n + 1 <= L PROVE W[n + 1] \subseteq s.seen OBVIOUS
    <2>1. n + 1 \in 1..M /\ (n + 1) - 1 = n /\ n \in 0..M /\ n <= M - 1 /\ M - 1 \in 0..M
      OBVIOUS
    <2>2. W[n] \subseteq s.seen BY <1>2
    <2>3. W[n + 1] = W[n] \cup Step(topo, dir, opts, W[n]) BY <2>1 DEF Balls
    <2>4. ASSUME NEW k \in W[n] PROVE Step(topo, dir, opts, {k}) \subseteq s.seen
      <3>1. k \in s.seen /\ k \in W[M - 1] BY <2>1, <2>2, <2>4 DEF Balls
      <3>2. ASSUME NEW p \in ToSet(s.queue), Target(p) = k PROVE FALSE
        <4>1. Nearest(topo, dir, opts, W, s.seen, p) BY DEF Found
        <4>2. Length(p) \in Nat /\ Length(p) <= M BY <4>1, SoundPath DEF Nearest
        <4>3. Length(p) >= L OBVIOUS
        <4>4. Length(p) - 1 \in 0..M /\ n <= Length(p) - 1 /\ Length(p) > 0 BY <4>2, <4>3
        <4>5. k \notin W[Length(p) - 1] BY <4>1, <4>4, <3>2 DEF Nearest
        <4> QED BY <4>4, <4>5, <2>1, <2>4 DEF Balls
      <3>3. Settled(topo, dir, opts, W, s) BY DEF Found
      <3> QED BY <3>1, <3>2, <3>3 DEF Settled
    <2>5. Step(topo, dir, opts, W[n]) \subseteq s.seen
      <3> SUFFICES ASSUME NEW b \in Step(topo, dir, opts, W[n]) PROVE b \in s.seen OBVIOUS
      <3>1. PICK a \in W[n] : \E e : LeadsOn(topo, dir, opts, e, a, b) BY StepIs
      <3>2. b \in Step(topo, dir, opts, {a}) BY <3>1, StepIs
      <3> QED BY <3>2, <2>4
    <2> QED BY <2>2, <2>3, <2>5
  <1>3. Nat \subseteq S
    <2> HIDE DEF S
    <2> QED BY <1>1, <1>2, Induct
  <1> QED BY <1>3

\* The path that a hop makes of the one taken.
LEMMA NearestExtended ==
  ASSUME NEW topo, NEW dir, NEW opts, maxHops(opts) \in Nat \ {0},
         NEW W, NEW seeds, Balls(W, topo, dir, opts, seeds),
         NEW seen, NEW p, Nearest(topo, dir, opts, W, seen, p), W[Length(p)] \subseteq seen,
         NEW h \in HopsOf(topo), ~(Length(p) >= maxHops(opts)), h.to \notin seen,
         LeadsOn(topo, dir, opts, h.edge, Target(p), h.to),
         NEW more, seen \subseteq more, h.to \in more
  PROVE  LET q == Extend(p, h)
         IN /\ Nearest(topo, dir, opts, W, more, q) /\ Length(q) = Length(p) + 1
            /\ Target(q) = h.to
  <1> DEFINE q == Extend(p, h)
             n == Length(p)
             M == maxHops(opts)
  <1>1. /\ Sound(topo, dir, opts, p) /\ ToSet(p.nodes) \subseteq seen /\ Target(p) \in W[n]
    BY DEF Nearest
  <1>2. n \in Nat /\ n + 1 \in 1..M /\ (n + 1) - 1 = n /\ n \in 0..M /\ n + 1 > 0
    <2>1. n \in Nat BY <1>1, SoundPath
    <2> QED BY <2>1
  <1>3. h.to \notin ToSet(p.nodes) BY <1>1
  <1>4. /\ Sound(topo, dir, opts, q) /\ Length(q) = n + 1 /\ Target(q) = h.to
        /\ ToSet(q.nodes) = ToSet(p.nodes) \cup {h.to}
    BY <1>1, <1>3, SoundExtend
  <1> HIDE DEF q, n, M
  <1>5. h.to \in Step(topo, dir, opts, W[n]) BY <1>1, StepIs
  <1>6. h.to \in W[n + 1] BY <1>2, <1>5 DEF Balls, M
  <1>7. h.to \notin W[n] BY DEF n
  <1>8. Nearest(topo, dir, opts, W, more, q) BY <1>1, <1>2, <1>4, <1>6, <1>7 DEF Nearest, M
  <1> QED BY <1>4, <1>8 DEF q, n

\* t is s after a round: the first path of the queue is taken, with the routes to
\* the new nodes in its place at the end.
Advanced(topo, dir, opts, W, s, t, routes, new) ==
  LET path == s.queue[1]
      L == Length(path)
  IN /\ t = [queue |-> Tail(s.queue) \o routes, seen |-> s.seen \cup new, out |-> s.out \o routes]
     /\ Len(routes) <= maxPaths(opts) - Len(s.out)
     /\ new \cap s.seen = {} /\ new = {Target(r) : r \in ToSet(routes)}
     /\ \A i, j \in 1..Len(routes) : Target(routes[i]) = Target(routes[j]) => i = j
     /\ \A r \in ToSet(routes) :
          Nearest(topo, dir, opts, W, s.seen \cup new, r) /\ Length(r) = L + 1
     /\ W[L] \subseteq s.seen
     /\ Len(routes) < maxPaths(opts) - Len(s.out) /\ L < maxHops(opts) =>
          Step(topo, dir, opts, {Target(path)}) \subseteq s.seen \cup new

\* A round advances the search.
LEMMA TakenIs ==
  ASSUME NEW topo, Searchable(topo), NEW dir, NEW opts,
         maxHops(opts) \in Nat \ {0}, maxPaths(opts) \in Nat \ {0},
         NEW W, NEW seeds, Balls(W, topo, dir, opts, seeds),
         NEW s, Found(topo, dir, opts, W, seeds, s), Len(s.out) < maxPaths(opts), s.queue # <<>>
  PROVE  \E routes \in Seq(PathsOf(topo)) : \E new \in SUBSET Known(topo) :
           Advanced(topo, dir, opts, W, s, Taken(topo, s, dir, opts), routes, new)
  <1> DEFINE path == s.queue[1]
             L == Length(path)
             n == maxPaths(opts) - Len(s.out)
             hops == Truncate(FirstOfEach(Onward(topo, path, dir, opts, s.seen),
                                          LAMBDA h : h.to), n)
             g == [i \in DOMAIN hops |-> Extend(path, hops[i])]
             new == {h.to : h \in ToSet(hops)}
             V == HopsOf(topo)
             P == PathsOf(topo)
             t == Taken(topo, s, dir, opts)
  <1>1. t = [queue |-> Tail(s.queue) \o (g \o <<>>), seen |-> s.seen \cup new,
             out |-> s.out \o (g \o <<>>)]
    <2>1. ~(s.queue = <<>> \/ Len(s.out) >= maxPaths(opts))
      BY DEF Found, SearchesOf
    <2> QED BY <2>1, Zenon DEF Taken, Map
  <1>2. s.queue \in Seq(P) /\ s.out \in Seq(P) /\ s.seen \in SUBSET Known(topo)
    BY DEF Found, SearchesOf
  <1>3. path \in ToSet(s.queue) /\ DOMAIN s.queue = 1..Len(s.queue)
    BY <1>2 DEF ToSet
  <1>4. n \in Nat /\ n # 0 BY <1>2
  <1>5. Nearest(topo, dir, opts, W, s.seen, path) BY <1>3 DEF Found
  <1>6. L \in Nat /\ L <= maxHops(opts) /\ Target(path) \in Known(topo)
    BY <1>5, SoundPath DEF Nearest
  <1>7. W[L] \subseteq s.seen
    <2>1. \A p \in ToSet(s.queue) : Length(p) >= L
      <3> TAKE p \in ToSet(s.queue)
      <3>1. PICK i \in 1..Len(s.queue) : p = s.queue[i] BY <1>3 DEF ToSet
      <3>2. 1 \in 1..Len(s.queue) /\ 1 <= i BY <3>1, <1>2
      <3>3. L <= Length(p) BY <3>1, <3>2 DEF Found, Tiered
      <3>4. Nearest(topo, dir, opts, W, s.seen, p) BY DEF Found
      <3>5. Length(p) \in Nat BY <3>4, SoundPath DEF Nearest
      <3> QED BY <3>3, <3>5, <1>6
    <2> HIDE DEF L
    <2> QED BY <2>1, <1>6, NearerSeen
  <1>8. /\ hops \in Seq(V) /\ Len(hops) <= n
        /\ \A i, j \in 1..Len(hops) : hops[i].to = hops[j].to => i = j
        /\ \A h \in ToSet(hops) : /\ ~(L >= maxHops(opts)) /\ h.to \notin s.seen
                                  /\ LeadsOn(topo, dir, opts, h.edge, Target(path), h.to)
        /\ Len(hops) < n /\ ~(L >= maxHops(opts)) =>
             Step(topo, dir, opts, {Target(path)}) \subseteq s.seen \cup new
    <2> HIDE DEF path, n
    <2> QED BY <1>4, <1>6, NewHops DEF path
  <1>9. \A h \in V : h.to \in Known(topo) BY DEF HopsOf
  <1> HIDE DEF path, hops, n
  <1>10. DOMAIN hops = 1..Len(hops) /\ ToSet(hops) = {hops[i] : i \in 1..Len(hops)}
         /\ \A i \in 1..Len(hops) : hops[i] \in V /\ hops[i] \in ToSet(hops)
    BY <1>8 DEF ToSet
  <1>11. \A i \in 1..Len(hops) :
           /\ Nearest(topo, dir, opts, W, s.seen \cup new, g[i]) /\ Length(g[i]) = L + 1
           /\ Target(g[i]) = hops[i].to
    <2> TAKE i \in 1..Len(hops)
    <2> DEFINE h == hops[i]
               more == s.seen \cup new
    <2>1. g[i] = Extend(path, h) BY <1>10
    <2>2. /\ h \in V /\ h.to \notin s.seen /\ ~(L >= maxHops(opts))
          /\ LeadsOn(topo, dir, opts, h.edge, Target(path), h.to)
      BY <1>8, <1>10
    <2>3. s.seen \subseteq more /\ h.to \in more BY <1>10
    <2> HIDE DEF h, more, g
    <2>4. LET q == Extend(path, h)
          IN /\ Nearest(topo, dir, opts, W, more, q) /\ Length(q) = L + 1 /\ Target(q) = h.to
      BY <1>5, <1>7, <2>2, <2>3, NearestExtended
    <2> QED BY <2>1, <2>4 DEF h, more
  <1>12. \A i \in 1..Len(hops) : g[i] \in P BY <1>11 DEF Nearest, Sound
  <1>13. g \o <<>> = g /\ g \in Seq(P) /\ Len(g) = Len(hops)
         /\ ToSet(g) = {g[i] : i \in 1..Len(hops)}
    <2>1. g = [i \in DOMAIN hops |-> g[i]] OBVIOUS
    <2>2. IsList(hops) BY <1>8, Member
    <2>3. \A i \in DOMAIN hops : g[i] \in P BY <1>10, <1>12
    <2> HIDE DEF g, P
    <2>4. g \o <<>> = g /\ g \in Seq(P) /\ Len(g) = Len(hops) /\ ToSet(g) = {g[i] : i \in DOMAIN hops}
      BY ONLY <2>1, <2>2, <2>3, MapHolds
    <2> QED BY <2>4, <1>10
  <1>a. new = {hops[i].to : i \in 1..Len(hops)}
    BY <1>10
  <1>14. new \in SUBSET Known(topo) /\ new \cap s.seen = {}
    <2> HIDE DEF new
    <2>1. \A i \in 1..Len(hops) : hops[i].to \in Known(topo) /\ hops[i].to \notin s.seen
      BY <1>8, <1>9, <1>10
    <2> QED BY ONLY <2>1, <1>a
  <1>15. new = {Target(r) : r \in ToSet(g)}
    <2> HIDE DEF new, g
    <2>1. \A i \in 1..Len(hops) : Target(g[i]) = hops[i].to BY <1>11
    <2>2. ToSet(g) = {g[i] : i \in 1..Len(hops)} BY <1>13
    <2> QED BY ONLY <2>1, <2>2, <1>a
  <1>16. \A i, j \in 1..Len(g) : Target(g[i]) = Target(g[j]) => i = j BY <1>8, <1>11, <1>13
  <1>17. \A r \in ToSet(g) : Nearest(topo, dir, opts, W, s.seen \cup new, r) /\ Length(r) = L + 1
    BY <1>11, <1>13
  <1>18. ~(L >= maxHops(opts)) <=> L < maxHops(opts) BY <1>6
  <1>19. t = [queue |-> Tail(s.queue) \o g, seen |-> s.seen \cup new, out |-> s.out \o g]
    BY <1>1, <1>13
  <1>20. Len(g) <= n BY <1>8, <1>13
  <1>21. Len(g) < n /\ L < maxHops(opts) =>
           Step(topo, dir, opts, {Target(path)}) \subseteq s.seen \cup new
    BY <1>8, <1>13, <1>18
  <1>22. Advanced(topo, dir, opts, W, s, t, g, new)
    <2> HIDE DEF g, new, t
    <2> QED BY <1>7, <1>14, <1>15, <1>16, <1>17, <1>19, <1>20, <1>21
            DEF Advanced, path, n
  <1>23. g \in Seq(P) BY <1>13
  <1> HIDE DEF g, new, t, L
  <1> QED BY <1>14, <1>22, <1>23 DEF t, P

\* What has been seen only grows: a path stays nearest.
LEMMA NearestStays ==
  ASSUME NEW topo, NEW dir, NEW opts, NEW W, NEW seen, NEW more, seen \subseteq more,
         NEW p, Nearest(topo, dir, opts, W, seen, p)
  PROVE  Nearest(topo, dir, opts, W, more, p)
  BY DEF Nearest

\* The first of a list and the rest.
LEMMA FirstAndRest ==
  ASSUME NEW V, NEW q \in Seq(V), q # <<>>
  PROVE  /\ Len(q) \in Nat /\ Len(q) > 0 /\ Tail(q) \in Seq(V) /\ Len(Tail(q)) = Len(q) - 1
         /\ \A i \in 1..Len(Tail(q)) : Tail(q)[i] = q[i + 1]
         /\ q[1] \in V /\ ToSet(q) = {q[1]} \cup ToSet(Tail(q))
  <1> DEFINE rest == Tail(q)
  <1>1. /\ Len(q) \in Nat /\ Len(q) > 0 /\ rest \in Seq(V) /\ Len(rest) = Len(q) - 1
        /\ \A i \in 1..Len(rest) : rest[i] = q[i + 1]
    OBVIOUS
  <1> HIDE DEF rest
  <1>2. ToSet(rest) = {rest[i] : i \in 1..Len(rest)} /\ ToSet(q) = {q[i] : i \in 1..Len(q)}
    BY <1>1 DEF ToSet
  <1>3. \A i \in 1..Len(q) : i = 1 \/ (i - 1 \in 1..Len(rest) /\ rest[i - 1] = q[i]) BY <1>1
  <1>4. 1 \in 1..Len(q) /\ \A i \in 1..Len(rest) : i + 1 \in 1..Len(q) BY <1>1
  <1>5. ToSet(q) = {q[1]} \cup ToSet(rest) BY <1>1, <1>2, <1>3, <1>4
  <1> QED BY <1>1, <1>4, <1>5 DEF rest

\* Two lists, one after the other.
LEMMA OneAfterOther ==
  ASSUME NEW V, NEW s \in Seq(V), NEW t \in Seq(V)
  PROVE  /\ s \o t \in Seq(V) /\ Len(s \o t) = Len(s) + Len(t)
         /\ \A i \in 1..Len(s) : (s \o t)[i] = s[i]
         /\ \A i \in 1..Len(t) : (s \o t)[Len(s) + i] = t[i]
         /\ ToSet(s \o t) = ToSet(s) \cup ToSet(t)
  BY ConcatElements

\* From s to t one path is taken from the queue, and as many are added as are found.
OneTaken(s, t) == Len(t.queue) + Len(s.out) + 1 = Len(s.queue) + Len(t.out)

\* A round keeps what a search has found right.
LEMMA TakenFinds ==
  ASSUME NEW topo, Searchable(topo), NEW dir, NEW opts,
         maxHops(opts) \in Nat \ {0}, maxPaths(opts) \in Nat \ {0},
         NEW W, NEW seeds, Balls(W, topo, dir, opts, seeds),
         NEW s, Found(topo, dir, opts, W, seeds, s)
  PROVE  /\ Found(topo, dir, opts, W, seeds, Taken(topo, s, dir, opts))
         /\ Len(s.out) < maxPaths(opts) /\ s.queue # <<>> =>
              OneTaken(s, Taken(topo, s, dir, opts))
  <1> DEFINE t == Taken(topo, s, dir, opts)
             N == maxPaths(opts)
             M == maxHops(opts)
  <1>a. s.queue \in Seq(PathsOf(topo)) /\ s.out \in Seq(PathsOf(topo))
        /\ s.seen \in SUBSET Known(topo) /\ Len(s.out) \in Nat
    BY DEF Found, SearchesOf
  <1>1. CASE s.queue = <<>> \/ Len(s.out) >= N
    <2>1. t = s BY <1>1, Zenon DEF Taken
    <2>2. ~(Len(s.out) < N /\ s.queue # <<>>) BY <1>1, <1>a
    <2> QED BY <2>1, <2>2
  <1>2. CASE ~(s.queue = <<>> \/ Len(s.out) >= N)
    <2> DEFINE path == s.queue[1]
               L == Length(path)
               K == Known(topo)
               P == PathsOf(topo)
    <2>1. Len(s.out) < N /\ s.queue # <<>> BY <1>2, <1>a
    <2>r. PICK routes \in Seq(P), new \in SUBSET K :
            Advanced(topo, dir, opts, W, s, t, routes, new)
      BY <2>1, TakenIs
    <2>2. /\ routes \in Seq(P) /\ new \in SUBSET K
          /\ t = [queue |-> Tail(s.queue) \o routes, seen |-> s.seen \cup new,
                  out |-> s.out \o routes]
          /\ Len(routes) <= N - Len(s.out)
          /\ new \cap s.seen = {} /\ new = {Target(r) : r \in ToSet(routes)}
          /\ \A i, j \in 1..Len(routes) : Target(routes[i]) = Target(routes[j]) => i = j
          /\ \A r \in ToSet(routes) :
               Nearest(topo, dir, opts, W, s.seen \cup new, r) /\ Length(r) = L + 1
          /\ W[L] \subseteq s.seen
          /\ Len(routes) < N - Len(s.out) /\ L < M =>
               Step(topo, dir, opts, {Target(path)}) \subseteq s.seen \cup new
      <3> HIDE DEF t
      <3> QED BY <2>r DEF Advanced
    <2>3. DOMAIN s.queue = 1..Len(s.queue) /\ 1 \in 1..Len(s.queue) /\ path \in ToSet(s.queue)
      BY <2>1, <1>a DEF ToSet
    <2>4. Nearest(topo, dir, opts, W, s.seen, path) BY <2>3 DEF Found
    <2>5. L \in Nat /\ L <= M /\ M \in Nat /\ M # 0 BY <2>4, SoundPath DEF Nearest
    <2> DEFINE q == s.queue
               o == s.out
               rest == Tail(q)
               queue == rest \o routes
               out == o \o routes
               seen == s.seen \cup new
    <2>6. /\ q \in Seq(P) /\ Len(q) \in Nat /\ Len(q) > 0
          /\ rest \in Seq(P) /\ Len(rest) = Len(q) - 1 /\ \A i \in 1..Len(rest) : rest[i] = q[i + 1]
          /\ ToSet(q) = {path} \cup ToSet(rest)
      BY <2>1, <1>a, FirstAndRest
    <2> HIDE DEF rest
    <2>8. /\ queue \in Seq(P) /\ Len(queue) = Len(rest) + Len(routes)
          /\ \A i \in 1..Len(rest) : queue[i] = rest[i]
          /\ \A i \in 1..Len(routes) : queue[Len(rest) + i] = routes[i]
          /\ ToSet(queue) = ToSet(rest) \cup ToSet(routes)
      <3>1. rest \in Seq(P) /\ routes \in Seq(P) BY <2>2, <2>6
      <3> QED BY ONLY <3>1, OneAfterOther
    <2>9. /\ out \in Seq(P) /\ Len(out) = Len(o) + Len(routes)
          /\ \A i \in 1..Len(o) : out[i] = o[i]
          /\ \A i \in 1..Len(routes) : out[Len(o) + i] = routes[i]
          /\ ToSet(out) = ToSet(o) \cup ToSet(routes)
      <3> HIDE DEF o
      <3> QED BY <2>2, <1>a, OneAfterOther DEF o
    <2>b. Len(o) \in Nat /\ Len(routes) \in Nat /\ Len(rest) \in Nat /\ N \in Nat
      BY <1>a, <2>2, <2>6
    <2>10. t = [queue |-> queue, seen |-> seen, out |-> out] BY <2>2 DEF rest, q
    <2>c. t.queue = queue /\ t.seen = seen /\ t.out = out BY <2>10
    <2>11. seen \in SUBSET K /\ s.seen \subseteq seen BY <1>a, <2>2
    <2>d. \A i \in 1..Len(o) : o[i] \in ToSet(o) BY <1>a DEF ToSet
    <2>e. \A i \in 1..Len(routes) : routes[i] \in ToSet(routes) BY <2>2 DEF ToSet
    <2>f. /\ \A p \in ToSet(q) : Nearest(topo, dir, opts, W, s.seen, p)
          /\ \A p \in ToSet(o) : /\ Nearest(topo, dir, opts, W, s.seen, p) /\ Length(p) > 0
                                 /\ W[Length(p) - 1] \subseteq s.seen
          /\ s.seen = seeds \cup {Target(p) : p \in ToSet(o)}
          /\ \A i, j \in 1..Len(o) : Target(o[i]) = Target(o[j]) => i = j
          /\ Tiered(q)
      BY DEF Found
    <2> HIDE DEF queue, out, seen, rest, q, o, t, path, L, N, M, K, P
    <2>12. t \in SearchesOf(topo) BY <2>8, <2>9, <2>10, <2>11 DEF SearchesOf, K, P
    <2>13. Len(out) <= N BY <2>2, <2>9, <2>b DEF o
    <2>14. \A p \in ToSet(queue) : Nearest(topo, dir, opts, W, seen, p)
      BY <2>2, <2>6, <2>8, <2>11, <2>f, NearestStays DEF seen
    <2>15. \A p \in ToSet(out) : /\ Nearest(topo, dir, opts, W, seen, p) /\ Length(p) > 0
                                 /\ W[Length(p) - 1] \subseteq seen
      <3> TAKE p \in ToSet(out)
      <3>1. CASE p \in ToSet(o) BY <3>1, <2>11, <2>f, NearestStays
      <3>2. CASE p \in ToSet(routes)
        <4>1. Nearest(topo, dir, opts, W, seen, p) /\ Length(p) = L + 1 BY <3>2, <2>2 DEF seen
        <4>2. Length(p) > 0 /\ Length(p) - 1 = L BY <4>1, <2>5
        <4> QED BY <4>1, <4>2, <2>2, <2>11
      <3> QED BY <3>1, <3>2, <2>9
    <2>16. seen = seeds \cup {Target(p) : p \in ToSet(out)}
      <3>1. {Target(p) : p \in ToSet(out)}
              = {Target(p) : p \in ToSet(o)} \cup {Target(p) : p \in ToSet(routes)}
        BY <2>9
      <3> QED BY <3>1, <2>2, <2>f DEF seen
    <2>17. \A i, j \in 1..Len(out) : Target(out[i]) = Target(out[j]) => i = j
      <3>1. \A i \in 1..Len(out) : \/ i \in 1..Len(o) /\ Target(out[i]) \in s.seen
                                   \/ /\ i - Len(o) \in 1..Len(routes)
                                      /\ out[i] = routes[i - Len(o)] /\ Target(out[i]) \in new
        <4> TAKE i \in 1..Len(out)
        <4>1. CASE i \in 1..Len(o) BY <4>1, <2>9, <2>d, <2>f
        <4>2. CASE i \notin 1..Len(o)
          <5>1. i - Len(o) \in 1..Len(routes) /\ Len(o) + (i - Len(o)) = i
            BY <4>2, <2>9, <2>b
          <5>2. out[i] = routes[i - Len(o)] BY <5>1, <2>9
          <5> QED BY <5>1, <5>2, <2>2, <2>e
        <4> QED BY <4>1, <4>2
      <3> TAKE i, j \in 1..Len(out)
      <3> SUFFICES ASSUME Target(out[i]) = Target(out[j]) PROVE i = j OBVIOUS
      <3>2. CASE i \in 1..Len(o) /\ j \in 1..Len(o) BY <3>2, <2>9, <2>f
      <3>3. CASE i \notin 1..Len(o) /\ j \notin 1..Len(o)
        <4>1. i - Len(o) = j - Len(o) BY <3>1, <3>3, <2>2
        <4> QED BY <4>1, <2>b
      <3>4. CASE ~(i \in 1..Len(o) <=> j \in 1..Len(o))
        <4>1. Target(out[i]) \notin new \cap s.seen BY <2>2
        <4>2. \/ i \in 1..Len(o) /\ j \notin 1..Len(o)
              \/ j \in 1..Len(o) /\ i \notin 1..Len(o) BY <3>4
        <4> QED BY <3>1, <4>1, <4>2, <2>9, <2>d, <2>f
      <3> QED BY <3>2, <3>3, <3>4
    <2>18. Tiered(queue)
      <3>1. \A i \in 1..Len(rest) : /\ Length(rest[i]) \in Nat
                                    /\ L <= Length(rest[i]) /\ Length(rest[i]) <= L + 1
        <4> TAKE i \in 1..Len(rest)
        <4>1. 1 \in 1..Len(q) /\ i + 1 \in 1..Len(q) /\ 1 <= i + 1 /\ rest[i] = q[i + 1] BY <2>6
        <4>2. L <= Length(q[i + 1]) /\ Length(q[i + 1]) <= L + 1
          BY <4>1, <2>f DEF Tiered, L, path, q
        <4>3. q[i + 1] \in ToSet(q) BY <4>1, <2>6 DEF ToSet
        <4>4. Length(q[i + 1]) \in Nat BY <4>3, <2>f, SoundPath DEF Nearest
        <4> QED BY <4>1, <4>2, <4>4
      <3>2. \A i, j \in 1..Len(rest) : i <= j => Length(rest[i]) <= Length(rest[j])
        <4> TAKE i, j \in 1..Len(rest)
        <4>1. /\ i + 1 \in 1..Len(q) /\ j + 1 \in 1..Len(q)
              /\ rest[i] = q[i + 1] /\ rest[j] = q[j + 1] /\ (i <= j => i + 1 <= j + 1)
          BY <2>6
        <4> QED BY <4>1, <2>f DEF Tiered
      <3>3. \A i \in 1..Len(routes) : Length(routes[i]) = L + 1 BY <2>2, <2>e
      <3>4. \A i \in 1..Len(queue) :
              \/ i \in 1..Len(rest) /\ queue[i] = rest[i]
              \/ i > Len(rest) /\ Length(queue[i]) = L + 1
        <4> TAKE i \in 1..Len(queue)
        <4>1. CASE i \in 1..Len(rest) BY <4>1, <2>8
        <4>2. CASE i \notin 1..Len(rest)
          <5>1. /\ i - Len(rest) \in 1..Len(routes) /\ Len(rest) + (i - Len(rest)) = i
                /\ i > Len(rest)
            BY <4>2, <2>8, <2>b
          <5>2. queue[i] = routes[i - Len(rest)] BY <5>1, <2>8
          <5> QED BY <5>1, <5>2, <3>3
        <4> QED BY <4>1, <4>2
      <3> SUFFICES ASSUME NEW i \in 1..Len(queue), NEW j \in 1..Len(queue), i <= j
                   PROVE  /\ Length(queue[i]) <= Length(queue[j])
                          /\ Length(queue[j]) <= Length(queue[i]) + 1
        BY DEF Tiered
      <3>5. CASE j \in 1..Len(rest)
        <4>1. i \in 1..Len(rest) /\ queue[i] = rest[i] /\ queue[j] = rest[j]
          BY <3>4, <3>5, <2>b
        <4> QED BY <4>1, <3>1, <3>2, <3>5, <2>5
      <3>6. CASE j \notin 1..Len(rest)
        <4>1. Length(queue[j]) = L + 1 BY <3>4, <3>6
        <4>2. /\ Length(queue[i]) \in Nat /\ L <= Length(queue[i]) /\ Length(queue[i]) <= L + 1
          BY <3>1, <3>4, <2>5
        <4> QED BY <4>1, <4>2, <2>5
      <3> QED BY <3>5, <3>6
    <2>19. ASSUME Len(out) < N PROVE Settled(topo, dir, opts, W, t)
      <3>1. Settled(topo, dir, opts, W, s) BY <2>1 DEF Found, N
      <3>2. Len(routes) < N - Len(s.out) BY <2>19, <2>9, <2>b DEF o
      <3> SUFFICES ASSUME NEW k \in seen
                   PROVE  \/ \E p \in ToSet(queue) : Target(p) = k
                          \/ k \notin W[M - 1]
                          \/ Step(topo, dir, opts, {k}) \subseteq seen
        BY <2>c, Zenon DEF Settled, M
      <3>3. CASE k \in new BY <3>3, <2>2, <2>8
      <3>4. CASE k \in s.seen
        <4>1. \/ \E p \in ToSet(q) : Target(p) = k
              \/ k \notin W[M - 1]
              \/ Step(topo, dir, opts, {k}) \subseteq s.seen
          BY <3>1, <3>4, Zenon DEF Settled, q, M
        <4>2. CASE Target(path) = k
          <5>1. CASE L < M BY <5>1, <3>2, <4>2, <2>2 DEF seen
          <5>2. CASE ~(L < M)
            <6>1. L = M /\ L > 0 BY <5>2, <2>5
            <6>2. Target(path) \notin W[L - 1] BY <6>1, <2>4 DEF Nearest, L
            <6> QED BY <6>1, <6>2, <4>2
          <5> QED BY <5>1, <5>2
        <4> QED BY <4>1, <4>2, <2>6, <2>8, <2>11
      <3> QED BY <3>3, <3>4 DEF seen
    <2>20. Found(topo, dir, opts, W, seeds, t)
      <3>1. t \in SearchesOf(topo) /\ Len(t.out) <= N BY <2>12, <2>13, <2>c
      <3>2. \A p \in ToSet(t.queue) : Nearest(topo, dir, opts, W, t.seen, p) BY <2>14, <2>c
      <3>3. \A p \in ToSet(t.out) : /\ Nearest(topo, dir, opts, W, t.seen, p) /\ Length(p) > 0
                                    /\ W[Length(p) - 1] \subseteq t.seen
        BY <2>15, <2>c
      <3>4. t.seen = seeds \cup {Target(p) : p \in ToSet(t.out)} BY <2>16, <2>c
      <3>5. \A i, j \in 1..Len(t.out) : Target(t.out[i]) = Target(t.out[j]) => i = j
        BY <2>17, <2>c
      <3>6. Tiered(t.queue) BY <2>18, <2>c
      <3>7. Len(t.out) < N => Settled(topo, dir, opts, W, t) BY <2>19, <2>c
      <3> QED BY <3>1, <3>2, <3>3, <3>4, <3>5, <3>6, <3>7, Zenon DEF Found, N
    <2>21. Len(t.queue) + Len(s.out) + 1 = Len(s.queue) + Len(t.out)
      <3>1. /\ Len(t.queue) = Len(rest) + Len(routes) /\ Len(t.out) = Len(s.out) + Len(routes)
            /\ Len(rest) = Len(s.queue) - 1 /\ Len(s.queue) \in Nat /\ Len(s.out) \in Nat
            /\ Len(routes) \in Nat
        BY <2>6, <2>8, <2>9, <2>b, <2>c DEF o, q
      <3> DEFINE a == Len(s.queue)
                 b == Len(s.out)
                 c == Len(routes)
                 d == Len(t.queue)
                 e == Len(t.out)
      <3>2. a \in Nat /\ b \in Nat /\ c \in Nat /\ d = (a - 1) + c /\ e = b + c
        BY <3>1, Zenon
      <3> HIDE DEF a, b, c, d, e
      <3>3. d + b + 1 = a + e BY <3>2
      <3> QED BY <3>3 DEF a, b, c, d, e
    <2> QED BY <2>20, <2>21 DEF t, OneTaken
  <1> QED BY <1>1, <1>2

\* What a search starts from: each of the seeds once.
FirstOf(topo, seeds) ==
  Filter(FirstOfEach(seeds, LAMBDA k : k), LAMBDA k : k \in Known(topo))

\* They are the seeds.
LEMMA FirstSeeds ==
  ASSUME NEW topo, NEW seeds \in Seq(Known(topo))
  PROVE  /\ FirstOf(topo, seeds) \in Seq(Known(topo)) /\ Len(FirstOf(topo, seeds)) <= Len(seeds)
         /\ ToSet(FirstOf(topo, seeds)) = ToSet(seeds)
  <1> DEFINE K == Known(topo)
             u == At(seeds, {i \in DOMAIN seeds : \A j \in 1..(i - 1) : seeds[j] # seeds[i]})
             I == {i \in DOMAIN u : u[i] \in K}
             first == At(u, I)
  <1>1. FirstOf(topo, seeds) = first BY Zenon DEF FirstOf, Filter, FirstOfEach
  <1>2. u \in Seq(K) /\ Len(u) <= Len(seeds) /\ Firsts(u, seeds, seeds) BY FirstsPicked
  <1> HIDE DEF u
  <1>3. 1..Len(u) \subseteq I BY <1>2
  <1> HIDE DEF I
  <1>4. first = u BY <1>2, <1>3, AtAll
  <1>5. PICK ix \in [1..Len(u) -> 1..Len(seeds)] :
          /\ \A a \in 1..Len(u) : u[a] = seeds[ix[a]]
          /\ \A i \in 1..Len(seeds) : \E a \in 1..Len(u) : seeds[ix[a]] = seeds[i]
    BY <1>2 DEF Firsts
  <1>6. /\ DOMAIN u = 1..Len(u) /\ ToSet(u) = {u[a] : a \in 1..Len(u)}
        /\ ToSet(seeds) = {seeds[i] : i \in 1..Len(seeds)}
    BY <1>2 DEF ToSet
  <1>7. ToSet(u) = ToSet(seeds)
    <2>1. ToSet(u) \subseteq ToSet(seeds) BY <1>5, <1>6
    <2>2. ASSUME NEW i \in 1..Len(seeds) PROVE seeds[i] \in ToSet(u)
      <3>1. PICK a \in 1..Len(u) : seeds[ix[a]] = seeds[i] BY <1>5
      <3>2. u[a] = seeds[i] BY <3>1, <1>5
      <3> QED BY <3>2, <1>6
    <2> QED BY <2>1, <2>2, <1>6
  <1> HIDE DEF first
  <1> QED BY <1>1, <1>2, <1>4, <1>7

\* Where the search begins.
Begun(first) == [queue |-> Map(first, Start), seen |-> ToSet(first), out |-> <<>>]

\* A search begins with nothing found but its seeds.
LEMMA BegunFound ==
  ASSUME NEW topo, NEW dir, NEW opts,
         maxHops(opts) \in Nat \ {0}, maxPaths(opts) \in Nat \ {0},
         NEW first \in Seq(Known(topo)), NEW W, Balls(W, topo, dir, opts, ToSet(first))
  PROVE  /\ Found(topo, dir, opts, W, ToSet(first), Begun(first))
         /\ Len(Begun(first).queue) = Len(first)
  <1> DEFINE s == Begun(first)
             g == [i \in DOMAIN first |-> Start(first[i])]
             P == PathsOf(topo)
             seeds == ToSet(first)
  <1>1. s.queue = g \o <<>> /\ s.seen = seeds /\ s.out = <<>>
        /\ s = [queue |-> s.queue, seen |-> s.seen, out |-> s.out]
    BY Zenon DEF Begun, Map
  <1>2. IsList(first) /\ \A i \in DOMAIN first : first[i] \in Known(topo) BY Member
  <1>3. \A i \in DOMAIN first :
          /\ Sound(topo, dir, opts, g[i]) /\ Length(g[i]) = 0 /\ Target(g[i]) = first[i]
          /\ ToSet(g[i].nodes) = {first[i]} /\ g[i] \in P
    BY <1>2, SoundStart DEF Sound
  <1>4. seeds = {first[i] : i \in DOMAIN first} /\ seeds \subseteq Known(topo)
    BY <1>2 DEF ToSet
  <1>5. s.queue = g /\ g \in Seq(P) /\ Len(g) = Len(first) /\ ToSet(g) = {g[i] : i \in DOMAIN first}
    <2>1. g = [i \in DOMAIN first |-> g[i]] OBVIOUS
    <2>2. \A i \in DOMAIN first : g[i] \in P BY <1>3
    <2> HIDE DEF g, P
    <2>3. g \o <<>> = g /\ g \in Seq(P) /\ Len(g) = Len(first) /\ ToSet(g) = {g[i] : i \in DOMAIN first}
      BY ONLY <1>2, <2>1, <2>2, MapHolds
    <2> QED BY <2>3, <1>1
  <1>6. DOMAIN first = 1..Len(first) OBVIOUS
  <1> HIDE DEF g, s, seeds
  <1>7. W[0] = seeds BY DEF Balls, seeds
  <1>8. \A i \in DOMAIN first : Nearest(topo, dir, opts, W, seeds, g[i])
    <2> TAKE i \in DOMAIN first
    <2>1. first[i] \in seeds BY <1>4
    <2>2. Length(g[i]) <= maxHops(opts) /\ ~(Length(g[i]) > 0) BY <1>3
    <2> QED BY <1>3, <1>7, <2>1, <2>2 DEF Nearest
  <1>9. <<>> \in Seq(P) /\ Len(<<>>) = 0 /\ ToSet(<<>>) = {} BY DEF ToSet
  <1>10. s \in SearchesOf(topo) /\ Len(s.out) <= maxPaths(opts)
    <2>1. s.queue \in Seq(P) /\ s.seen \in SUBSET Known(topo) /\ s.out \in Seq(P)
      BY <1>1, <1>4, <1>5, <1>9
    <2>2. Len(s.out) <= maxPaths(opts) BY <1>1, <1>9
    <2> HIDE DEF P
    <2>3. s \in [queue : Seq(P), seen : SUBSET Known(topo), out : Seq(P)] BY ONLY <1>1, <2>1
    <2> QED BY <2>2, <2>3 DEF SearchesOf, P
  <1>11. \A p \in ToSet(s.queue) : Nearest(topo, dir, opts, W, s.seen, p)
    BY <1>1, <1>5, <1>8
  <1>12. ToSet(s.out) = {} /\ \A i, j \in 1..Len(s.out) : FALSE BY <1>1, <1>9
  <1>13. Tiered(s.queue) BY <1>3, <1>5, <1>6 DEF Tiered
  <1>14. Settled(topo, dir, opts, W, s) BY <1>1, <1>3, <1>4, <1>5 DEF Settled
  <1>15. s.seen = seeds \cup {Target(p) : p \in ToSet(s.out)} BY <1>1, <1>12
  <1>16. Found(topo, dir, opts, W, seeds, s)
    BY <1>10, <1>11, <1>12, <1>13, <1>14, <1>15 DEF Found
  <1> QED BY <1>5, <1>16 DEF s, seeds

\* No more paths are found than there are nodes with an edge.
LEMMA FoundFew ==
  ASSUME NEW topo, Searchable(topo), NEW dir, NEW opts, NEW W, NEW seeds, NEW s,
         Found(topo, dir, opts, W, seeds, s)
  PROVE  /\ Cardinality(Incident(topo)) \in Nat /\ Len(s.out) <= Cardinality(Incident(topo))
  <1> DEFINE o == s.out
             n == Len(o)
             T == Incident(topo)
             f == [i \in 1..n |-> Target(o[i])]
  <1>1. o \in Seq(PathsOf(topo)) /\ n \in Nat BY DEF Found, SearchesOf
  <1>2. /\ \A i, j \in 1..n : Target(o[i]) = Target(o[j]) => i = j
        /\ \A p \in ToSet(o) : Sound(topo, dir, opts, p) /\ Length(p) > 0
    BY DEF Found, Nearest
  <1>3. \A i \in 1..n : o[i] \in ToSet(o) BY <1>1 DEF ToSet
  <1>4. IsFiniteSet(T)
    <2>1. T \subseteq Known(topo) BY DEF Incident, Searchable, EdgeList, IsEdge
    <2> QED BY <2>1, FS_Subset DEF Searchable
  <1>5. ASSUME NEW p, Sound(topo, dir, opts, p), Length(p) > 0 PROVE Target(p) \in T
    <2> DEFINE m == Length(p)
               e == p.edges[m]
    <2>1. m \in Nat /\ Target(p) = p.nodes[m + 1] BY <1>5, SoundPath
    <2>2. m \in 1..m BY <2>1, <1>5
    <2>3. LeadsOn(topo, dir, opts, e, p.nodes[m], p.nodes[m + 1])
      BY <1>5, <2>2 DEF Sound, Length
    <2> HIDE DEF e, m
    <2>4. e \in ToSet(topo.edges) /\ p.nodes[m + 1] \in Ends(e) BY <2>3 DEF LeadsOn, Ends
    <2> QED BY <2>1, <2>4 DEF Incident
  <1>6. f \in [1..n -> T] BY <1>2, <1>3, <1>5
  <1>7. \A i, j \in 1..n : f[i] = f[j] => i = j BY <1>2
  <1> HIDE DEF f, n, T
  <1>8. f \in Injection(1..n, T) BY <1>6, <1>7 DEF Injection, IsInjective
  <1>9. Cardinality(1..n) <= Cardinality(T) BY <1>4, <1>8, FS_Injection
  <1>10. Cardinality(1..n) = n BY <1>1, FS_Interval
  <1>11. Cardinality(T) \in Nat BY <1>4, FS_CardinalityType
  <1> QED BY <1>9, <1>10, <1>11 DEF n, T

\* A search that has ended: nothing is left to take, or enough has been found.
Ended(s, opts) == s.queue = <<>> \/ Len(s.out) >= maxPaths(opts)

\* As many rounds as Reachable makes end a search.
LEMMA ReachableIs ==
  ASSUME NEW topo, Searchable(topo), NEW dir, NEW opts,
         maxHops(opts) \in Nat \ {0}, maxPaths(opts) \in Nat \ {0},
         NEW seeds \in Seq(Known(topo)),
         NEW W, Balls(W, topo, dir, opts, ToSet(seeds))
  PROVE  \E s : /\ Found(topo, dir, opts, W, ToSet(seeds), s) /\ Ended(s, opts)
                /\ Reachable(topo, seeds, dir, opts) = s.out
  <1> DEFINE first == FirstOf(topo, seeds)
             S0 == ToSet(seeds)
             rounds == Len(seeds) + Cardinality(Incident(topo))
             T(s) == Taken(topo, s, dir, opts)
             V == {s \in SearchesOf(topo) : Found(topo, dir, opts, W, S0, s)}
             step == [x \in (1..rounds) \X V |-> T(x[2])]
             Def(f) == [n \in 0..rounds |->
                          IF n = 0 THEN [queue |-> Map(first, Start), seen |-> ToSet(first), out |-> <<>>]
                          ELSE Taken(topo, f[n - 1], dir, opts)]
             after == CHOOSE f : f = Def(f)
  <1>1. Reachable(topo, seeds, dir, opts) = after[rounds].out BY DEF Reachable, FirstOf
  <1>2. first \in Seq(Known(topo)) /\ Len(first) <= Len(seeds) /\ ToSet(first) = S0
    BY FirstSeeds
  <1>3. \A f : Def(f) = [n \in 0..rounds |-> IF n = 0 THEN Begun(first) ELSE T(f[n - 1])]
    BY DEF Begun
  <1>4. \A s \in V : T(s) \in V
    <2> TAKE s \in V
    <2>1. Found(topo, dir, opts, W, S0, T(s)) BY TakenFinds
    <2> HIDE DEF T, S0
    <2> QED BY <2>1 DEF Found
  <1>5. Begun(first) \in V /\ Len(Begun(first).queue) = Len(first) /\ Begun(first).out = <<>>
    <2> HIDE DEF first
    <2>1. Found(topo, dir, opts, W, S0, Begun(first)) /\ Len(Begun(first).queue) = Len(first)
      BY <1>2, BegunFound
    <2>2. Begun(first).out = <<>> BY DEF Begun
    <2> HIDE DEF S0
    <2> QED BY <2>1, <2>2 DEF Found
  <1>6. Len(seeds) \in Nat /\ Len(first) \in Nat /\ Cardinality(Incident(topo)) \in Nat
    <2>1. Cardinality(Incident(topo)) \in Nat BY <1>5, FoundFew
    <2> HIDE DEF first
    <2> QED BY <1>2, <2>1
  <1>7. \A s \in V : /\ Len(s.out) <= Cardinality(Incident(topo)) /\ Len(s.out) \in Nat
                     /\ Len(s.queue) \in Nat /\ (Len(s.queue) = 0 => s.queue = <<>>)
                     /\ Len(T(s).out) \in Nat /\ Len(T(s).queue) \in Nat
    <2>1. \A s \in V : Len(s.out) <= Cardinality(Incident(topo)) BY FoundFew
    <2>2. \A s \in V : s.queue \in Seq(PathsOf(topo)) /\ s.out \in Seq(PathsOf(topo))
      BY DEF SearchesOf
    <2> HIDE DEF V, T
    <2>3. \A s \in V : /\ Len(s.out) \in Nat /\ Len(s.queue) \in Nat
                       /\ (Len(s.queue) = 0 => s.queue = <<>>)
      BY <2>2
    <2> QED BY <2>1, <2>3, <1>4
  <1>8. \A s \in V : Len(s.out) < maxPaths(opts) /\ s.queue # <<>> =>
          Len(T(s).queue) + Len(s.out) + 1 = Len(s.queue) + Len(T(s).out)
    <2> TAKE s \in V
    <2>1. Found(topo, dir, opts, W, S0, s) OBVIOUS
    <2>2. Len(s.out) < maxPaths(opts) /\ s.queue # <<>> =>
            OneTaken(s, Taken(topo, s, dir, opts))
      BY <2>1, TakenFinds
    <2> QED BY <2>2 DEF OneTaken
  <1>9. \A s \in V : Ended(s, opts) => T(s) = s BY Zenon DEF Ended, Taken
  <1>10. \A s \in V : ~Ended(s, opts) => Len(s.out) < maxPaths(opts) /\ s.queue # <<>>
    <2> HIDE DEF V
    <2> QED BY <1>7 DEF Ended
  <1> HIDE DEF first, T
  <1>11. step \in [(1..rounds) \X V -> V] BY <1>4
  <1>12. \A i \in 1..rounds, s \in V : step[<<i, s>>] = T(s) OBVIOUS
  <1>13. rounds \in Nat BY <1>6
  <1> HIDE DEF rounds, V, step, Def
  <1>14. PICK f \in [0..rounds -> V] : Follows(f, rounds, Begun(first), step)
    BY <1>5, <1>11, <1>13, RecursionExists
  <1>15. f[0] = Begun(first) /\ \A i \in 1..rounds : f[i] = step[<<i, f[i - 1]>>]
    BY <1>14 DEF Follows
  <1>16. \A i \in 1..rounds : i - 1 \in 0..rounds BY <1>13
  <1>17. \A i \in 0..rounds : f[i] = IF i = 0 THEN Begun(first) ELSE T(f[i - 1])
    <2> TAKE i \in 0..rounds
    <2>1. CASE i = 0 BY <2>1, <1>15
    <2>2. CASE i # 0
      <3>1. i \in 1..rounds BY <2>2, <1>13
      <3> QED BY <3>1, <2>2, <1>12, <1>15, <1>16
    <2> QED BY <2>1, <2>2
  <1>18. f = Def(f)
    <2>1. f = [n \in 0..rounds |-> f[n]] OBVIOUS
    <2>2. Def(f) = [n \in 0..rounds |-> IF n = 0 THEN Begun(first) ELSE T(f[n - 1])] BY <1>3
    <2> QED BY <2>1, <2>2, <1>17
  <1>19. after = Def(after) BY <1>18
  <1> HIDE DEF after
  <1>20. after = [n \in 0..rounds |-> IF n = 0 THEN Begun(first) ELSE T(after[n - 1])]
    BY <1>3, <1>19
  <1>21. after[0] = Begun(first) /\ \A n \in 1..rounds : after[n] = T(after[n - 1])
    BY <1>20, <1>13
  <1> DEFINE Good(n) == /\ after[n] \in V
                        /\ \/ Ended(after[n], opts)
                           \/ Len(after[n].queue) + n = Len(first) + Len(after[n].out)
             S == {n \in Nat : n <= rounds => Good(n)}
  <1>22. 0 \in S
    <2>1. Len(after[0].queue) + 0 = Len(first) + Len(after[0].out)
      <3>1. Len(<<>>) = 0 OBVIOUS
      <3> QED BY <3>1, <1>5, <1>6, <1>21
    <2> QED BY <2>1, <1>5, <1>21
  <1>23. ASSUME NEW n \in Nat, n \in S PROVE n + 1 \in S
    <2> SUFFICES ASSUME n + 1 <= rounds PROVE Good(n + 1)
      <3> HIDE DEF Good
      <3> QED OBVIOUS
    <2> DEFINE s == after[n]
               t == after[n + 1]
    <2>1. n + 1 \in 1..rounds /\ (n + 1) - 1 = n /\ n <= rounds BY <1>13
    <2>2. Good(n) BY <1>23, <2>1
    <2>3. t = T(s) BY <1>21, <2>1
    <2>4. s \in V /\ (Ended(s, opts) \/ Len(s.queue) + n = Len(first) + Len(s.out)) BY <2>2
    <2> HIDE DEF s
    <2>5. t \in V BY <2>3, <2>4, <1>4
    <2>6. CASE Ended(s, opts)
      <3>1. t = s BY <2>3, <2>4, <2>6, <1>9
      <3>2. Ended(t, opts) BY <3>1, <2>6
      <3> QED BY <3>2, <2>5
    <2>7. CASE ~Ended(s, opts)
      <3> DEFINE a == Len(s.queue)
                 b == Len(s.out)
                 c == Len(t.queue)
                 d == Len(t.out)
                 l == Len(first)
      <3>1. a \in Nat /\ b \in Nat /\ c \in Nat /\ d \in Nat /\ l \in Nat
        BY <2>3, <2>4, <1>6, <1>7
      <3>2. c + b + 1 = a + d BY <2>3, <2>4, <2>7, <1>8, <1>10
      <3>3. a + n = l + b BY <2>4, <2>7
      <3> HIDE DEF a, b, c, d, l
      <3>4. c + (n + 1) = l + d BY <3>1, <3>2, <3>3
      <3> QED BY <2>5, <3>4 DEF c, d, l
    <2> QED BY <2>6, <2>7
  <1>24. Good(rounds)
    <2>1. Nat \subseteq S
      <3> HIDE DEF S
      <3> QED BY <1>22, <1>23, Induct
    <2> QED BY <2>1, <1>13
  <1> DEFINE s == after[rounds]
  <1>25. s \in V /\ (Ended(s, opts) \/ Len(s.queue) + rounds = Len(first) + Len(s.out)) BY <1>24
  <1> HIDE DEF s
  <1>26. Ended(s, opts)
    <2> SUFFICES ASSUME ~Ended(s, opts) PROVE FALSE OBVIOUS
    <2> DEFINE a == Len(s.queue)
               b == Len(s.out)
               l == Len(first)
               c == Cardinality(Incident(topo))
               m == Len(seeds)
    <2>1. /\ a \in Nat /\ b \in Nat /\ l \in Nat /\ c \in Nat /\ m \in Nat /\ b <= c /\ l <= m
          /\ a # 0
      BY <1>2, <1>6, <1>7, <1>10, <1>25
    <2>2. a + (m + c) = l + b BY <1>25 DEF rounds
    <2> HIDE DEF a, b, c, l, m
    <2> QED BY <2>1, <2>2
  <1>27. Found(topo, dir, opts, W, S0, s) BY <1>25 DEF V
  <1> QED BY <1>1, <1>26, <1>27 DEF s

\* What ReachHolds says, of the sets of nodes within each number of hops.
ExactWithin(topo, direction, opts, W, seeds, paths) ==
  LET expected == W[maxHops(opts)] \ seeds
      found == {Target(p) : p \in ToSet(paths)}
      Distance(k) == CHOOSE n \in 1..maxHops(opts) : k \in W[n] /\ k \notin W[n - 1]
  IN /\ found \subseteq expected
     /\ Len(paths) = IF Cardinality(expected) < maxPaths(opts)
                     THEN Cardinality(expected) ELSE maxPaths(opts)
     /\ Cardinality(found) = Len(paths)
     /\ \A p \in ToSet(paths) :
          /\ IsRoute(p, topo, direction, opts) /\ Length(p) = Distance(Target(p))
          /\ \A k \in expected \ found : Distance(k) >= Length(p)

\* The number of hops after which a node is first within reach.
LEMMA Distances ==
  ASSUME NEW topo, NEW dir, NEW opts, maxHops(opts) \in Nat \ {0},
         NEW seeds, NEW W, Balls(W, topo, dir, opts, seeds), NEW k
  PROVE  LET d == CHOOSE n \in 1..maxHops(opts) : k \in W[n] /\ k \notin W[n - 1]
         IN /\ \A n \in 1..maxHops(opts) : k \in W[n] /\ k \notin W[n - 1] => d = n
            /\ k \in W[maxHops(opts)] \ seeds =>
                 d \in 1..maxHops(opts) /\ k \in W[d] /\ k \notin W[d - 1]
  <1> DEFINE M == maxHops(opts)
             At1(n) == k \in W[n] /\ k \notin W[n - 1]
             d == CHOOSE n \in 1..M : At1(n)
  <1>1. \A m, n \in 0..M : m <= n => W[m] \subseteq W[n] BY DEF Balls
  <1>2. M \in Nat \ {0} /\ W[0] = seeds BY DEF Balls
  <1> HIDE DEF M
  <1>3. ASSUME NEW m \in 1..M, NEW n \in 1..M, At1(m), At1(n) PROVE m = n
    <2>1. m \in 0..M /\ n \in 0..M /\ m - 1 \in 0..M /\ n - 1 \in 0..M BY <1>2
    <2>2. ~(m <= n - 1)
      <3> SUFFICES ASSUME m <= n - 1 PROVE FALSE OBVIOUS
      <3>1. W[m] \subseteq W[n - 1] BY <2>1, <1>1
      <3> QED BY <3>1, <1>3
    <2>3. ~(n <= m - 1)
      <3> SUFFICES ASSUME n <= m - 1 PROVE FALSE OBVIOUS
      <3>1. W[n] \subseteq W[m - 1] BY <2>1, <1>1
      <3> QED BY <3>1, <1>3
    <2> QED BY <2>2, <2>3, <1>2
  <1>4. ASSUME k \in W[M], k \notin seeds PROVE \E n \in 1..M : At1(n)
    <2> SUFFICES ASSUME \A n \in 1..M : ~At1(n) PROVE FALSE OBVIOUS
    <2> DEFINE S == {n \in Nat : n <= M => k \notin W[n]}
    <2>1. 0 \in S BY <1>2, <1>4
    <2>2. ASSUME NEW n \in Nat, n \in S PROVE n + 1 \in S
      <3> SUFFICES ASSUME n + 1 <= M PROVE k \notin W[n + 1] OBVIOUS
      <3>1. n + 1 \in 1..M /\ (n + 1) - 1 = n /\ n <= M BY <1>2
      <3>2. k \notin W[n] BY <2>2, <3>1
      <3> QED BY <3>1, <3>2
    <2>3. Nat \subseteq S
      <3> HIDE DEF S
      <3> QED BY <2>1, <2>2, Induct
    <2> QED BY <2>3, <1>2, <1>4
  <1>5. ASSUME NEW n \in 1..M, At1(n) PROVE d = n
    <2>1. d \in 1..M /\ At1(d) BY <1>5
    <2> HIDE DEF d, At1
    <2> QED BY <2>1, <1>3, <1>5
  <1>6. ASSUME k \in W[M], k \notin seeds PROVE d \in 1..M /\ At1(d)
    <2>1. \E n \in 1..M : At1(n) BY <1>4, <1>6
    <2> QED BY <2>1
  <1> HIDE DEF d
  <1> QED BY <1>5, <1>6 DEF M, d

\* As many ends as there are paths, if no two end at the same node.
LEMMA CountEnds ==
  ASSUME NEW V, NEW o \in Seq(V), NEW F, F = {Target(p) : p \in ToSet(o)},
         \A i, j \in 1..Len(o) : Target(o[i]) = Target(o[j]) => i = j
  PROVE  IsFiniteSet(F) /\ Cardinality(F) = Len(o)
  <1> DEFINE n == Len(o)
             f == [i \in 1..n |-> Target(o[i])]
  <1>1. n \in Nat /\ \A i \in 1..n : o[i] \in ToSet(o) BY DEF ToSet
  <1>2. \A p \in ToSet(o) : \E i \in 1..n : p = o[i] BY DEF ToSet
  <1>3. \A i, j \in 1..n : f[i] = f[j] => i = j OBVIOUS
  <1>4. f \in [1..n -> F] BY <1>1
  <1>5. \A y \in F : \E i \in 1..n : f[i] = y BY <1>2
  <1> HIDE DEF f, n
  <1>6. f \in Injection(1..n, F) BY <1>3, <1>4 DEF Injection, IsInjective
  <1>7. f \in Surjection(1..n, F) BY <1>4, <1>5 DEF Surjection
  <1>8. IsFiniteSet(1..n) /\ Cardinality(1..n) = n BY <1>1, FS_Interval
  <1>9. IsFiniteSet(F) /\ Cardinality(F) = n
    <2>1. f \in Bijection(1..n, F) BY <1>6, <1>7 DEF Bijection
    <2>2. ExistsBijection(1..n, F) BY <2>1 DEF ExistsBijection
    <2> QED BY <1>8, <2>1, <2>2, FS_Bijection
  <1> QED BY <1>9 DEF n

\* A search that has ended has found what ReachHolds says.
LEMMA FoundExact ==
  ASSUME NEW topo, Searchable(topo), NEW dir, NEW opts,
         maxHops(opts) \in Nat \ {0}, maxPaths(opts) \in Nat \ {0},
         NEW seeds, NEW W, Balls(W, topo, dir, opts, seeds),
         NEW s, Found(topo, dir, opts, W, seeds, s), Ended(s, opts)
  PROVE  ExactWithin(topo, dir, opts, W, seeds, s.out)
  <1> DEFINE M == maxHops(opts)
             N == maxPaths(opts)
             o == s.out
             E == W[M] \ seeds
             F == {Target(p) : p \in ToSet(o)}
             Distance(k) == CHOOSE n \in 1..M : k \in W[n] /\ k \notin W[n - 1]
  <1>1. /\ o \in Seq(PathsOf(topo)) /\ Len(o) \in Nat /\ Len(o) <= N
        /\ s.queue \in Seq(PathsOf(topo)) /\ s.seen = seeds \cup F
        /\ \A i, j \in 1..Len(o) : Target(o[i]) = Target(o[j]) => i = j
        /\ \A p \in ToSet(o) : /\ Nearest(topo, dir, opts, W, s.seen, p) /\ Length(p) > 0
                               /\ W[Length(p) - 1] \subseteq s.seen
    <2>1. s \in SearchesOf(topo) BY DEF Found
    <2>2. o \in Seq(PathsOf(topo)) /\ s.queue \in Seq(PathsOf(topo)) BY <2>1 DEF SearchesOf
    <2>3. Len(o) \in Nat BY <2>2
    <2> QED BY <2>2, <2>3, Zenon DEF Found
  <1>2. /\ W[0] = seeds /\ \A n \in 0..M : W[n] \in SUBSET Known(topo)
        /\ \A m, n \in 0..M : m <= n => W[m] \subseteq W[n]
    BY DEF Balls
  <1>3. \A k : /\ \A n \in 1..M : k \in W[n] /\ k \notin W[n - 1] => Distance(k) = n
               /\ k \in E => /\ Distance(k) \in 1..M /\ k \in W[Distance(k)]
                             /\ k \notin W[Distance(k) - 1]
    BY Distances
  <1>4. M \in Nat \ {0} /\ N \in Nat \ {0} OBVIOUS
  <1> HIDE DEF Distance, M, N
  <1>5. \A p \in ToSet(o) :
          /\ Length(p) \in 1..M /\ Target(p) \in W[Length(p)] /\ Target(p) \notin W[Length(p) - 1]
          /\ IsRoute(p, topo, dir, opts)
    <2> TAKE p \in ToSet(o)
    <2>1. /\ Sound(topo, dir, opts, p) /\ Length(p) <= M /\ Target(p) \in W[Length(p)]
          /\ Length(p) > 0 /\ Target(p) \notin W[Length(p) - 1]
      BY <1>1 DEF Nearest, M
    <2> QED BY <2>1, <1>4, SoundPath
  <1>6. \A p \in ToSet(o) : Distance(Target(p)) = Length(p) BY <1>3, <1>5
  <1>7. F \subseteq E
    <2> SUFFICES ASSUME NEW p \in ToSet(o) PROVE Target(p) \in E OBVIOUS
    <2> DEFINE n == Length(p)
    <2>1. n \in 1..M /\ Target(p) \in W[n] /\ Target(p) \notin W[n - 1] BY <1>5
    <2> HIDE DEF n
    <2>2. /\ n \in 0..M /\ M \in 0..M /\ n <= M
          /\ 0 \in 0..M /\ n - 1 \in 0..M /\ 0 <= n - 1
      BY <2>1, <1>4
    <2>3. W[n] \subseteq W[M] /\ W[0] \subseteq W[n - 1] BY <2>2, <1>2
    <2> QED BY <2>1, <2>3, <1>2
  <1>8. IsFiniteSet(E)
    <2>1. M \in 0..M BY <1>4
    <2>2. E \subseteq Known(topo) BY <2>1, <1>2
    <2> QED BY <2>2, FS_Subset DEF Searchable
  <1>9. IsFiniteSet(F) /\ Cardinality(F) = Len(o)
    <2>1. \A i, j \in 1..Len(o) : Target(o[i]) = Target(o[j]) => i = j BY <1>1
    <2> QED BY <2>1, <1>1, CountEnds
  <1> HIDE DEF E, F, o
  <1>10. Cardinality(E) \in Nat /\ Cardinality(F) <= Cardinality(E)
    BY <1>7, <1>8, FS_Subset, FS_CardinalityType
  <1>11. CASE Len(o) < N
    <2>1. s.queue = <<>> BY <1>11, <1>1, <1>4 DEF Ended, o, N
    <2>2. ToSet(s.queue) = {} BY <2>1 DEF ToSet
    <2>3. M \in 0..M BY <1>4
    <2>4. W[M] \subseteq s.seen BY <1>11, <2>2, <2>3, NearerSeen DEF M, N, o
    <2>5. E = F BY <2>4, <1>1, <1>7 DEF E
    <2> QED BY <2>5, <1>1, <1>9, <1>11, <1>5, <1>6 DEF ExactWithin, E, F, o, M, N, Distance
  <1>12. CASE ~(Len(o) < N)
    <2>1. Len(o) = N /\ ~(Cardinality(E) < N) BY <1>12, <1>1, <1>4, <1>9, <1>10
    <2>2. ASSUME NEW p \in ToSet(o), NEW k \in E \ F PROVE Distance(k) >= Length(p)
      <3> DEFINE d == Distance(k)
                 n == Length(p)
      <3>1. d \in 1..M /\ k \in W[d] /\ n \in 1..M BY <1>3, <1>5, <2>2
      <3>2. k \notin s.seen BY <1>1, <2>2 DEF E
      <3>3. W[n - 1] \subseteq s.seen BY <1>1, <2>2
      <3> HIDE DEF d, n
      <3>4. ~(d <= n - 1)
        <4> SUFFICES ASSUME d <= n - 1 PROVE FALSE OBVIOUS
        <4>1. d \in 0..M /\ n - 1 \in 0..M BY <3>1, <1>4
        <4>2. W[d] \subseteq W[n - 1] BY <4>1, <1>2
        <4> QED BY <4>2, <3>1, <3>2, <3>3
      <3>5. d >= n BY <3>1, <3>4, <1>4
      <3> QED BY <3>5 DEF d, n
    <2> QED BY <2>1, <2>2, <1>5, <1>6, <1>7, <1>9 DEF ExactWithin, E, F, o, M, N, Distance
  <1> QED BY <1>11, <1>12

\* Reachable is exact.
LEMMA ReachableExact ==
  ASSUME NEW topo, Searchable(topo), NEW dir, NEW opts,
         maxHops(opts) \in Nat \ {0}, maxPaths(opts) \in Nat \ {0},
         NEW seeds \in Seq(Known(topo))
  PROVE  ReachHolds(topo, dir, opts, ToSet(seeds), Reachable(topo, seeds, dir, opts))
  <1> DEFINE S0 == ToSet(seeds)
             W == Within(topo, dir, opts, S0)
             out == Reachable(topo, seeds, dir, opts)
  <1>1. S0 \in SUBSET Known(topo) BY DEF ToSet
  <1>2. Balls(W, topo, dir, opts, S0) BY <1>1, WithinIs
  <1>3. PICK s : /\ Found(topo, dir, opts, W, S0, s) /\ Ended(s, opts) /\ out = s.out
    <2> HIDE DEF W
    <2> QED BY <1>2, ReachableIs
  <1> HIDE DEF W, S0, out
  <1>4. ExactWithin(topo, dir, opts, W, S0, out) BY <1>2, <1>3, FoundExact
  <1>5. ExactWithin(topo, dir, opts, Within(topo, dir, opts, S0), S0, out) BY <1>4 DEF W
  <1>6. ReachHolds(topo, dir, opts, S0, out) BY <1>5, Zenon DEF ReachHolds, ExactWithin
  <1> QED BY <1>6 DEF S0, out

-----------------------------------------------------------------------------
(* Paths: the simple routes from one set of nodes to another.              *)

\* The paths that go on from p.
Longer(topo, p, opts) ==
  LET hops == Onward(topo, p, "downstream", opts, ToSet(p.nodes))
  IN [j \in DOMAIN hops |-> Extend(p, hops[j])] \o <<>>

\* A path from one of the sources, within the limit on the hops.
Walk(topo, opts, sources, p) ==
  /\ Sound(topo, "downstream", opts, p) /\ Length(p) <= maxHops(opts) /\ p.nodes[1] \in sources

\* q is p with one more hop, to v.
OneLonger(q, p, v) ==
  /\ Target(q) = v /\ Length(q) = Length(p) + 1 /\ q.nodes[1] = p.nodes[1]
  /\ ToSet(q.nodes) = ToSet(p.nodes) \cup {v}

\* The paths that go on from a walk are walks, one to each neighbour not on it.
LEMMA LongerAre ==
  ASSUME NEW topo, Searchable(topo), NEW opts, maxHops(opts) \in Nat \ {0},
         NEW sources, NEW p, Walk(topo, opts, sources, p)
  PROVE  /\ Longer(topo, p, opts) \in Seq(PathsOf(topo))
         /\ \A q \in ToSet(Longer(topo, p, opts)) : Walk(topo, opts, sources, q)
         /\ Length(p) < maxHops(opts) => \A e : \A v :
              LeadsOn(topo, "downstream", opts, e, Target(p), v) /\ v \notin ToSet(p.nodes)
                => \E q \in ToSet(Longer(topo, p, opts)) : OneLonger(q, p, v)
  <1> DEFINE hops == Onward(topo, p, "downstream", opts, ToSet(p.nodes))
             g == [j \in DOMAIN hops |-> Extend(p, hops[j])]
             V == HopsOf(topo)
             P == PathsOf(topo)
             M == maxHops(opts)
             L == Length(p)
             seen == ToSet(p.nodes)
  <1>1. Sound(topo, "downstream", opts, p) /\ L \in Nat /\ L <= M /\ M \in Nat
        /\ Target(p) \in Known(topo) /\ p.nodes[1] \in sources
    BY SoundPath DEF Walk
  <1>2. /\ hops \in Seq(V)
        /\ L >= M => hops = <<>>
        /\ \A h \in ToSet(hops) : LeadsOn(topo, "downstream", opts, h.edge, Target(p), h.to)
                                    /\ h.to \notin seen
        /\ ~(L >= M) =>
             \A e : \A b : LeadsOn(topo, "downstream", opts, e, Target(p), b) /\ b \notin seen
                             => \E h \in ToSet(hops) : h.to = b
    BY <1>1, OnwardAre
  <1>3. Longer(topo, p, opts) = g \o <<>> BY Zenon DEF Longer
  <1>4. IsList(hops) /\ DOMAIN hops = 1..Len(hops) /\ \A j \in DOMAIN hops : hops[j] \in V
    <2> HIDE DEF hops, V
    <2> QED BY <1>2, Member
  <1> HIDE DEF hops
  <1>5. ToSet(hops) = {hops[j] : j \in DOMAIN hops} BY <1>4 DEF ToSet
  <1>6. \A j \in DOMAIN hops : ~(L >= M)
    <2> SUFFICES ASSUME NEW j \in DOMAIN hops, L >= M PROVE FALSE OBVIOUS
    <2>1. hops = <<>> BY <1>2
    <2>2. Len(hops) = 0 BY <2>1
    <2> QED BY <2>2, <1>4
  <1>7. \A j \in DOMAIN hops :
          /\ Sound(topo, "downstream", opts, g[j]) /\ Length(g[j]) = L + 1
          /\ OneLonger(g[j], p, hops[j].to)
    <2> TAKE j \in DOMAIN hops
    <2> DEFINE h == hops[j]
    <2>1. g[j] = Extend(p, h) OBVIOUS
    <2>2. h \in V /\ LeadsOn(topo, "downstream", opts, h.edge, Target(p), h.to) /\ h.to \notin seen
      BY <1>2, <1>4, <1>5
    <2> HIDE DEF h, g, L
    <2>3. LET q == Extend(p, h)
          IN /\ Sound(topo, "downstream", opts, q) /\ Length(q) = Length(p) + 1 /\ Target(q) = h.to
             /\ ToSet(q.nodes) = ToSet(p.nodes) \cup {h.to} /\ q.nodes[1] = p.nodes[1]
      BY <1>1, <2>2, SoundExtend
    <2> QED BY <2>1, <2>3 DEF OneLonger, h, L
  <1>8. \A j \in DOMAIN hops : Walk(topo, opts, sources, g[j]) /\ g[j] \in P
    <2> TAKE j \in DOMAIN hops
    <2> HIDE DEF g, L, M
    <2>1. Length(g[j]) <= M /\ g[j].nodes[1] \in sources BY <1>1, <1>6, <1>7 DEF OneLonger
    <2> QED BY <2>1, <1>7 DEF Walk, Sound, M
  <1>9. g \o <<>> = g /\ g \in Seq(P) /\ ToSet(g) = {g[j] : j \in DOMAIN hops}
    <2>1. g = [j \in DOMAIN hops |-> g[j]] OBVIOUS
    <2>2. \A j \in DOMAIN hops : g[j] \in P BY <1>8
    <2> HIDE DEF g, P
    <2> QED BY ONLY <1>4, <2>1, <2>2, MapHolds
  <1>10. Longer(topo, p, opts) = g BY <1>3, <1>9
  <1> HIDE DEF g, P, V
  <1>11. L < M => \A e : \A v :
           LeadsOn(topo, "downstream", opts, e, Target(p), v) /\ v \notin seen
             => \E q \in ToSet(g) : OneLonger(q, p, v)
    <2> SUFFICES ASSUME L < M, NEW e, NEW v,
                        LeadsOn(topo, "downstream", opts, e, Target(p), v), v \notin seen
                 PROVE  \E q \in ToSet(g) : OneLonger(q, p, v)
      OBVIOUS
    <2>1. ~(L >= M) BY <1>1
    <2>2. PICK h \in ToSet(hops) : h.to = v BY <2>1, <1>2
    <2>3. PICK j \in DOMAIN hops : h = hops[j] BY <1>5
    <2> QED BY <2>2, <2>3, <1>7, <1>9
  <1>12. \A q \in ToSet(g) : Walk(topo, opts, sources, q) BY <1>8, <1>9
  <1> QED BY <1>9, <1>10, <1>11, <1>12 DEF P

\* What is known of the routes and the frontier after some levels.
WalksOf(topo) == [frontier : Seq(PathsOf(topo)), out : Seq(PathsOf(topo))]

Walked(topo, opts, sources, targets, s) ==
  /\ s \in WalksOf(topo)
  /\ \A p \in ToSet(s.frontier) : Walk(topo, opts, sources, p)
  /\ \A p \in ToSet(s.out) : Walk(topo, opts, sources, p) /\ Arrived(p, targets)

\* One level further, from s to t: what has arrived is found, the rest goes on.
Further(topo, opts, sources, targets, s, t) ==
  /\ Walked(topo, opts, sources, targets, t)
  /\ s.out # <<>> => t.out # <<>>
  /\ s.out = <<>> => \A p \in ToSet(s.frontier) :
       IF Arrived(p, targets) THEN t.out # <<>>
       ELSE Length(p) < maxHops(opts) => \A e : \A v :
              LeadsOn(topo, "downstream", opts, e, Target(p), v) /\ v \notin ToSet(p.nodes)
                => \E q \in ToSet(t.frontier) : OneLonger(q, p, v)

\* A level goes further.
LEMMA LevelGoes ==
  ASSUME NEW topo, Searchable(topo), NEW opts,
         maxHops(opts) \in Nat \ {0}, maxPaths(opts) \in Nat \ {0},
         NEW sources, NEW targets, NEW s, Walked(topo, opts, sources, targets, s)
  PROVE  Further(topo, opts, sources, targets, s, Level(topo, s, targets, opts))
  <1> DEFINE t == Level(topo, s, targets, opts)
             N == maxPaths(opts)
             P == PathsOf(topo)
             fs == s.frontier
             o == s.out
             I == {i \in DOMAIN fs : Arrived(fs[i], targets)}
             found == At(fs, I)
             g == [i \in DOMAIN fs |-> IF Arrived(fs[i], targets) THEN <<>>
                                       ELSE Longer(topo, fs[i], opts)]
             all == FlattenSeq(g \o <<>>)
             new == Truncate(found, N - Len(o))
  <1>1. fs \in Seq(P) /\ o \in Seq(P) BY DEF Walked, WalksOf
  <1>2. Len(o) \in Nat /\ N \in Nat \ {0} /\ (Len(o) = 0 => o = <<>>) BY <1>1
  <1>3. CASE fs = <<>> \/ Len(o) >= N
    <2>1. t = s BY <1>3, Zenon DEF Level
    <2>2. o = <<>> => fs = <<>>
      <3> SUFFICES ASSUME o = <<>> PROVE ~(Len(o) >= N) BY <1>3
      <3>1. Len(o) = 0 OBVIOUS
      <3> QED BY <3>1, <1>2
    <2>3. fs = <<>> => ToSet(fs) = {} BY DEF ToSet
    <2>4. Further(topo, opts, sources, targets, s, s)
      <3> HIDE DEF t
      <3> QED BY <2>2, <2>3 DEF Further
    <2> QED BY <2>1, <2>4
  <1>4. CASE ~(fs = <<>> \/ Len(o) >= N)
    <2>1. t = [frontier |-> all, out |-> o \o new]
      BY <1>4, Zenon DEF Level, Each, Map, Filter, Longer
    <2>2. IsList(fs) /\ DOMAIN fs = 1..Len(fs) /\ ToSet(fs) = {fs[i] : i \in DOMAIN fs}
      BY <1>1, Member DEF ToSet
    <2>3. \A p \in ToSet(fs) :
            /\ Longer(topo, p, opts) \in Seq(P)
            /\ \A q \in ToSet(Longer(topo, p, opts)) : Walk(topo, opts, sources, q)
            /\ Length(p) < maxHops(opts) => \A e : \A v :
                 LeadsOn(topo, "downstream", opts, e, Target(p), v) /\ v \notin ToSet(p.nodes)
                   => \E q \in ToSet(Longer(topo, p, opts)) : OneLonger(q, p, v)
      BY LongerAre DEF Walked
    <2> HIDE DEF fs
    <2>4. \A i \in DOMAIN fs : g[i] \in Seq(P)
      <3>1. <<>> \in Seq(P) OBVIOUS
      <3> HIDE DEF P
      <3> QED BY <2>2, <2>3, <3>1
    <2>5. all \in Seq(P) /\ ToSet(all) = UNION {ToSet(g[i]) : i \in DOMAIN fs}
      <3>1. g = [i \in DOMAIN fs |-> g[i]] OBVIOUS
      <3> HIDE DEF g, P
      <3> QED BY ONLY <2>2, <2>4, <3>1, EachHolds
    <2>6. \A i \in DOMAIN fs : IF Arrived(fs[i], targets) THEN ToSet(g[i]) = {}
                               ELSE g[i] = Longer(topo, fs[i], opts)
      <3>1. ToSet(<<>>) = {} BY DEF ToSet
      <3> QED BY <3>1
    <2>7. \A q \in ToSet(all) : Walk(topo, opts, sources, q)
      <3> HIDE DEF all, g
      <3> TAKE q \in ToSet(all)
      <3>1. PICK i \in DOMAIN fs : q \in ToSet(g[i]) BY <2>5
      <3>2. q \in ToSet(Longer(topo, fs[i], opts)) BY <3>1, <2>6
      <3> QED BY <3>2, <2>2, <2>3
    <2>8. found \in Seq(P) /\ ToSet(found) = {fs[i] : i \in I}
      <3>1. I \cap 1..Len(fs) = I BY <2>2
      <3> HIDE DEF I
      <3> QED BY <1>1, <3>1, AtElements DEF fs
    <2>9. N - Len(o) \in Nat /\ N - Len(o) > 0 BY <1>2, <1>4
    <2> HIDE DEF g, all, found
    <2>10. /\ new \in Seq(P) /\ Len(new) = IF Len(found) < N - Len(o) THEN Len(found) ELSE N - Len(o)
           /\ \A i \in 1..Len(new) : new[i] = found[i]
      BY <2>8, <2>9, Truncated
    <2> HIDE DEF new
    <2>11. Len(new) \in Nat /\ Len(found) \in Nat /\ Len(new) <= Len(found)
           /\ (Len(found) > 0 => Len(new) > 0) /\ DOMAIN found = 1..Len(found)
      BY <2>8, <2>9, <2>10
    <2>12. ToSet(new) \subseteq ToSet(found)
      <3>1. ToSet(new) = {new[i] : i \in 1..Len(new)} /\ ToSet(found) = {found[i] : i \in 1..Len(found)}
        BY <2>8, <2>10 DEF ToSet
      <3> QED BY <3>1, <2>10, <2>11
    <2>13. o \o new \in Seq(P) /\ Len(o \o new) = Len(o) + Len(new)
           /\ ToSet(o \o new) = ToSet(o) \cup ToSet(new)
      <3> HIDE DEF o
      <3> QED BY <1>1, <2>10, OneAfterOther DEF o
    <2>14. \A p \in ToSet(o) : Walk(topo, opts, sources, p) /\ Arrived(p, targets) BY DEF Walked
    <2>15. \A p \in ToSet(new) : Walk(topo, opts, sources, p) /\ Arrived(p, targets)
      <3>1. \A p \in ToSet(fs) : Walk(topo, opts, sources, p) BY DEF Walked, fs
      <3>2. \A i \in I : fs[i] \in ToSet(fs) /\ Arrived(fs[i], targets) BY <2>2
      <3> HIDE DEF I
      <3> QED BY <3>1, <3>2, <2>8, <2>12
    <2> HIDE DEF t, o, P, N
    <2>16. Walked(topo, opts, sources, targets, t)
      <3>1. t \in WalksOf(topo) BY <2>1, <2>5, <2>13 DEF WalksOf, P
      <3>2. t.frontier = all /\ t.out = o \o new BY <2>1
      <3>3. \A p \in ToSet(o \o new) : Walk(topo, opts, sources, p) /\ Arrived(p, targets)
        BY <2>13, <2>14, <2>15
      <3> QED BY <2>7, <3>1, <3>2, <3>3 DEF Walked
    <2>17. (o # <<>> \/ ToSet(found) # {}) => t.out # <<>>
      <3> SUFFICES ASSUME o # <<>> \/ ToSet(found) # {}, o \o new = <<>> PROVE FALSE BY <2>1
      <3>1. Len(o \o new) = 0 OBVIOUS
      <3>2. Len(o) = 0 /\ Len(new) = 0 BY <3>1, <2>13, <2>11, <1>2
      <3>3. Len(found) = 0 BY <3>2, <2>11
      <3>4. ToSet(found) = {} BY <3>3, <2>11 DEF ToSet
      <3> QED BY <3>2, <3>4, <1>2
    <2>18. ASSUME NEW p \in ToSet(fs), Arrived(p, targets) PROVE t.out # <<>>
      <3>1. p \in ToSet(found) BY <2>2, <2>8, <2>18
      <3> QED BY <3>1, <2>17
    <2>19. ASSUME NEW p \in ToSet(fs), ~Arrived(p, targets)
           PROVE  ToSet(Longer(topo, p, opts)) \subseteq ToSet(t.frontier)
      <3>1. PICK i \in DOMAIN fs : p = fs[i] BY <2>2
      <3>2. g[i] = Longer(topo, p, opts) BY <3>1, <2>6, <2>19
      <3>3. t.frontier = all BY <2>1
      <3> QED BY <3>2, <3>3, <2>5
    <2>20. \A p \in ToSet(fs) :
             IF Arrived(p, targets) THEN t.out # <<>>
             ELSE Length(p) < maxHops(opts) => \A e : \A v :
                    LeadsOn(topo, "downstream", opts, e, Target(p), v) /\ v \notin ToSet(p.nodes)
                      => \E q \in ToSet(t.frontier) : OneLonger(q, p, v)
      <3> TAKE p \in ToSet(fs)
      <3>1. CASE Arrived(p, targets) BY <3>1, <2>18
      <3>2. CASE ~Arrived(p, targets)
        <4> SUFFICES ASSUME Length(p) < maxHops(opts), NEW e, NEW v,
                            LeadsOn(topo, "downstream", opts, e, Target(p), v),
                            v \notin ToSet(p.nodes)
                     PROVE  \E q \in ToSet(t.frontier) : OneLonger(q, p, v)
          BY <3>2, Zenon
        <4>1. \E q \in ToSet(Longer(topo, p, opts)) : OneLonger(q, p, v) BY <2>3
        <4>2. ToSet(Longer(topo, p, opts)) \subseteq ToSet(t.frontier) BY <3>2, <2>19
        <4> QED BY <4>1, <4>2
      <3> QED BY <3>1, <3>2
    <2>21. Further(topo, opts, sources, targets, s, t)
      BY <2>16, <2>17, <2>20, Zenon DEF Further, o, fs
    <2> QED BY <2>21 DEF t
  <1> QED BY <1>3, <1>4

\* Where the walk sets out.
Setout(sources) == [frontier |-> Map(sources, Start), out |-> <<>>]

\* A walk sets out from every source.
LEMMA SetoutWalked ==
  ASSUME NEW topo, NEW opts, maxHops(opts) \in Nat \ {0},
         NEW sources \in Seq(Known(topo)), NEW targets
  PROVE  /\ Walked(topo, opts, ToSet(sources), targets, Setout(sources))
         /\ \A k \in ToSet(sources) : Start(k) \in ToSet(Setout(sources).frontier)
         /\ Setout(sources).out = <<>>
  <1> DEFINE s == Setout(sources)
             g == [i \in DOMAIN sources |-> Start(sources[i])]
             P == PathsOf(topo)
             S0 == ToSet(sources)
  <1>1. s = [frontier |-> g \o <<>>, out |-> <<>>] BY Zenon DEF Setout, Map
  <1>2. IsList(sources) /\ \A i \in DOMAIN sources : sources[i] \in Known(topo) BY Member
  <1>3. S0 = {sources[i] : i \in DOMAIN sources} BY DEF ToSet
  <1>4. \A i \in DOMAIN sources :
          Sound(topo, "downstream", opts, g[i]) /\ Length(g[i]) = 0 /\ g[i].nodes[1] = sources[i]
    BY <1>2, SoundStart
  <1>5. \A i \in DOMAIN sources : Walk(topo, opts, S0, g[i]) /\ g[i] \in P
    BY <1>3, <1>4 DEF Walk, Sound
  <1>6. g \o <<>> = g /\ g \in Seq(P) /\ ToSet(g) = {g[i] : i \in DOMAIN sources}
    <2>1. g = [i \in DOMAIN sources |-> g[i]] OBVIOUS
    <2>2. \A i \in DOMAIN sources : g[i] \in P BY <1>5
    <2>3. IsList(sources) BY <1>2
    <2> HIDE DEF g, P
    <2>4. g \o <<>> = g /\ g \in Seq(P) /\ Len(g) = Len(sources)
          /\ ToSet(g) = {g[i] : i \in DOMAIN sources}
      BY ONLY <2>1, <2>2, <2>3, MapHolds
    <2> QED BY <2>4
  <1>7. s.frontier = g /\ s.out = <<>> /\ s = [frontier |-> g, out |-> <<>>] BY <1>1, <1>6
  <1>8. \A k \in S0 : Start(k) \in ToSet(g) BY <1>3, <1>6
  <1> HIDE DEF g, s, S0
  <1>9. ToSet(<<>>) = {} /\ <<>> \in Seq(P) BY DEF ToSet
  <1>10. s \in WalksOf(topo)
    <2> HIDE DEF P
    <2>1. s \in [frontier : Seq(P), out : Seq(P)] BY <1>6, <1>7, <1>9
    <2> QED BY <2>1 DEF WalksOf, P
  <1>11. \A p \in ToSet(g) : Walk(topo, opts, S0, p) BY <1>5, <1>6
  <1>12. Walked(topo, opts, S0, targets, s) BY <1>7, <1>9, <1>10, <1>11 DEF Walked
  <1> QED BY <1>7, <1>8, <1>12 DEF s, S0

\* The levels that Paths goes through.
Levels(topo, opts, sources, targets, f) ==
  /\ f[0] = Setout(sources)
  /\ \A n \in 0..(maxHops(opts) + 1) : Walked(topo, opts, ToSet(sources), targets, f[n])
  /\ \A n \in 1..(maxHops(opts) + 1) :
       Further(topo, opts, ToSet(sources), targets, f[n - 1], f[n])

\* Paths goes through its levels.
LEMMA PathsIs ==
  ASSUME NEW topo, Searchable(topo), NEW opts,
         maxHops(opts) \in Nat \ {0}, maxPaths(opts) \in Nat \ {0},
         NEW sources \in Seq(Known(topo)), NEW targets, targets # <<>>
  PROVE  \E f : /\ Levels(topo, opts, sources, targets, f)
                /\ Paths(topo, sources, targets, opts) = f[maxHops(opts) + 1].out
  <1> DEFINE start == At(sources, {i \in DOMAIN sources : sources[i] \in Known(topo)})
             levels == maxHops(opts) + 1
             S0 == ToSet(sources)
             T(s) == Level(topo, s, targets, opts)
             V == {s \in WalksOf(topo) : Walked(topo, opts, S0, targets, s)}
             step == [x \in (1..levels) \X V |-> T(x[2])]
             Def(f) == [n \in 0..levels |->
                          IF n = 0 THEN [frontier |-> Map(start, Start), out |-> <<>>]
                          ELSE Level(topo, f[n - 1], targets, opts)]
             after == CHOOSE f : f = Def(f)
  <1>1. Paths(topo, sources, targets, opts) = after[levels].out BY DEF Paths, Filter
  <1>2. start = sources
    <2> DEFINE I == {i \in DOMAIN sources : sources[i] \in Known(topo)}
    <2>1. 1..Len(sources) \subseteq I OBVIOUS
    <2> HIDE DEF I
    <2>2. At(sources, I) = sources BY <2>1, AtAll
    <2> QED BY <2>2 DEF I
  <1>3. \A f : Def(f) = [n \in 0..levels |-> IF n = 0 THEN Setout(start) ELSE T(f[n - 1])]
    BY DEF Setout
  <1>4. \A s \in V : T(s) \in V /\ Further(topo, opts, S0, targets, s, T(s))
    <2> TAKE s \in V
    <2>1. Walked(topo, opts, S0, targets, s) OBVIOUS
    <2> HIDE DEF S0
    <2>2. Further(topo, opts, S0, targets, s, T(s)) BY <2>1, LevelGoes
    <2> HIDE DEF T
    <2> QED BY <2>2 DEF Further, Walked
  <1>5. Setout(start) \in V
    <2> HIDE DEF start
    <2>1. Walked(topo, opts, ToSet(sources), targets, Setout(start)) BY <1>2, SetoutWalked
    <2> QED BY <2>1 DEF Walked
  <1> HIDE DEF start, T
  <1>6. step \in [(1..levels) \X V -> V] BY <1>4
  <1>7. \A i \in 1..levels, s \in V : step[<<i, s>>] = T(s) OBVIOUS
  <1>8. levels \in Nat OBVIOUS
  <1> HIDE DEF levels, V, step, Def, S0
  <1>9. PICK f \in [0..levels -> V] : Follows(f, levels, Setout(start), step)
    BY <1>5, <1>6, <1>8, RecursionExists
  <1>10. f[0] = Setout(start) /\ \A i \in 1..levels : f[i] = step[<<i, f[i - 1]>>]
    BY <1>9 DEF Follows
  <1>11. \A i \in 1..levels : i - 1 \in 0..levels BY <1>8
  <1>12. \A i \in 0..levels : f[i] = IF i = 0 THEN Setout(start) ELSE T(f[i - 1])
    <2> TAKE i \in 0..levels
    <2>1. CASE i = 0 BY <2>1, <1>10
    <2>2. CASE i # 0
      <3>1. i \in 1..levels BY <2>2, <1>8
      <3> QED BY <3>1, <2>2, <1>7, <1>10, <1>11
    <2> QED BY <2>1, <2>2
  <1>13. f = Def(f)
    <2>1. f = [n \in 0..levels |-> f[n]] OBVIOUS
    <2>2. Def(f) = [n \in 0..levels |-> IF n = 0 THEN Setout(start) ELSE T(f[n - 1])] BY <1>3
    <2> QED BY <2>1, <2>2, <1>12
  <1>14. after = Def(after) BY <1>13
  <1> HIDE DEF after
  <1>15. after = [n \in 0..levels |-> IF n = 0 THEN Setout(start) ELSE T(after[n - 1])]
    BY <1>3, <1>14
  <1>16. after[0] = Setout(start) /\ \A n \in 1..levels : after[n] = T(after[n - 1])
    BY <1>15, <1>8
  <1> DEFINE S == {n \in Nat : n <= levels => after[n] \in V}
  <1>17. \A n \in 0..levels : after[n] \in V
    <2>1. 0 \in S BY <1>5, <1>16
    <2>2. ASSUME NEW n \in Nat, n \in S PROVE n + 1 \in S
      <3> SUFFICES ASSUME n + 1 <= levels PROVE after[n + 1] \in V OBVIOUS
      <3>1. n + 1 \in 1..levels /\ (n + 1) - 1 = n /\ n <= levels BY <1>8
      <3>2. after[n] \in V BY <2>2, <3>1
      <3>3. after[n + 1] = T(after[n]) BY <3>1, <1>16
      <3> QED BY <3>2, <3>3, <1>4
    <2>3. Nat \subseteq S
      <3> HIDE DEF S
      <3> QED BY <2>1, <2>2, Induct
    <2> QED BY <2>3, <1>8
  <1>18. \A n \in 0..levels : Walked(topo, opts, S0, targets, after[n]) BY <1>17 DEF V
  <1>19. \A n \in 1..levels : Further(topo, opts, S0, targets, after[n - 1], after[n])
    BY <1>4, <1>11, <1>16, <1>17
  <1>20. Levels(topo, opts, sources, targets, after)
    BY <1>2, <1>16, <1>18, <1>19 DEF Levels, levels, S0
  <1> QED BY <1>1, <1>20 DEF levels

\* A route ends within reach of where it starts, and elsewhere if it has a hop.
LEMMA RouteWithin ==
  ASSUME NEW topo, NEW opts, maxHops(opts) \in Nat \ {0},
         NEW p, Sound(topo, "downstream", opts, p), Length(p) <= maxHops(opts),
         NEW W, Balls(W, topo, "downstream", opts, {p.nodes[1]})
  PROVE  Target(p) \in W[maxHops(opts)] /\ (Length(p) > 0 => Target(p) # p.nodes[1])
  <1> DEFINE M == maxHops(opts)
             L == Length(p)
             S == {i \in Nat : i <= L => p.nodes[i + 1] \in W[i]}
  <1>1. L \in Nat /\ Target(p) = p.nodes[L + 1] /\ M \in Nat BY SoundPath
  <1>2. /\ Len(p.nodes) = L + 1 /\ \A i, j \in 1..Len(p.nodes) : p.nodes[i] = p.nodes[j] => i = j
        /\ \A i \in 1..L : LeadsOn(topo, "downstream", opts, p.edges[i], p.nodes[i], p.nodes[i + 1])
    BY DEF Sound, Length
  <1>3. /\ W[0] = {p.nodes[1]}
        /\ \A n \in 1..M : W[n] = W[n - 1] \cup Step(topo, "downstream", opts, W[n - 1])
        /\ \A m, n \in 0..M : m <= n => W[m] \subseteq W[n]
    BY DEF Balls
  <1>4. L <= M OBVIOUS
  <1> HIDE DEF L, M
  <1>5. 0 \in S BY <1>1, <1>3
  <1>6. ASSUME NEW i \in Nat, i \in S PROVE i + 1 \in S
    <2> SUFFICES ASSUME i + 1 <= L PROVE p.nodes[(i + 1) + 1] \in W[i + 1] OBVIOUS
    <2>1. i + 1 \in 1..L /\ i + 1 \in 1..M /\ (i + 1) - 1 = i /\ i <= L BY <1>1, <1>4
    <2>2. p.nodes[i + 1] \in W[i] BY <1>6, <2>1
    <2>3. LeadsOn(topo, "downstream", opts, p.edges[i + 1], p.nodes[i + 1], p.nodes[(i + 1) + 1])
      BY <1>2, <2>1
    <2>4. p.nodes[(i + 1) + 1] \in Step(topo, "downstream", opts, W[i]) BY <2>2, <2>3, StepIs
    <2> QED BY <1>3, <2>1, <2>4
  <1>7. p.nodes[L + 1] \in W[L]
    <2>1. Nat \subseteq S
      <3> HIDE DEF S
      <3> QED BY <1>5, <1>6, Induct
    <2> QED BY <2>1, <1>1
  <1>8. L \in 0..M /\ M \in 0..M BY <1>1, <1>4
  <1>9. Target(p) \in W[M] BY <1>1, <1>3, <1>4, <1>7, <1>8
  <1>10. ASSUME L > 0 PROVE p.nodes[L + 1] # p.nodes[1]
    <2>1. 1 \in 1..Len(p.nodes) /\ L + 1 \in 1..Len(p.nodes) /\ L + 1 # 1 BY <1>1, <1>2, <1>10
    <2> QED BY <2>1, <1>2
  <1> QED BY <1>1, <1>9, <1>10 DEF L, M

\* What is found at a level stays found.
LEMMA StaysFound ==
  ASSUME NEW topo, NEW opts, maxHops(opts) \in Nat \ {0},
         NEW sources, NEW targets, NEW f, Levels(topo, opts, sources, targets, f),
         NEW n \in 0..(maxHops(opts) + 1), f[n].out # <<>>
  PROVE  f[maxHops(opts) + 1].out # <<>>
  <1> DEFINE M == maxHops(opts)
             S == {j \in Nat : n + j <= M + 1 => f[n + j].out # <<>>}
  <1>1. \A i \in 1..(M + 1) : f[i - 1].out # <<>> => f[i].out # <<>> BY DEF Levels, Further
  <1>2. M \in Nat /\ n \in Nat /\ n <= M + 1 OBVIOUS
  <1> HIDE DEF M
  <1>3. 0 \in S BY <1>2
  <1>4. ASSUME NEW j \in Nat, j \in S PROVE j + 1 \in S
    <2> SUFFICES ASSUME n + (j + 1) <= M + 1 PROVE f[n + (j + 1)].out # <<>> OBVIOUS
    <2>1. n + (j + 1) \in 1..(M + 1) /\ (n + (j + 1)) - 1 = n + j /\ n + j <= M + 1 BY <1>2
    <2>2. f[n + j].out # <<>> BY <1>4, <2>1
    <2> QED BY <1>1, <2>1, <2>2
  <1>5. Nat \subseteq S
    <2> HIDE DEF S
    <2> QED BY <1>3, <1>4, Induct
  <1>6. (M + 1) - n \in Nat /\ n + ((M + 1) - n) = M + 1 BY <1>2
  <1> QED BY <1>5, <1>6 DEF M

\* p is a shortest route from a to v, with i hops.
Direct(W, a, i, v, p) ==
  Target(p) = v /\ Length(p) = i /\ p.nodes[1] = a /\ ToSet(p.nodes) \subseteq W[i]

\* A target within reach is found.
LEMMA WalkFinds ==
  ASSUME NEW topo, Searchable(topo), NEW opts, maxHops(opts) \in Nat \ {0},
         NEW sources \in Seq(Known(topo)), NEW targets,
         NEW f, Levels(topo, opts, sources, targets, f),
         NEW a \in ToSet(sources), NEW W, Balls(W, topo, "downstream", opts, {a}),
         NEW t \in ToSet(targets), t \in W[maxHops(opts)], t # a
  PROVE  f[maxHops(opts) + 1].out # <<>>
  <1> DEFINE M == maxHops(opts)
             S0 == ToSet(sources)
             Near(n) == \E v \in ToSet(targets) : v # a /\ v \in W[n]
  <1>1. SUFFICES ASSUME \A n \in 0..(M + 1) : f[n].out = <<>> PROVE FALSE BY StaysFound
  <1>2. M \in Nat \ {0} /\ Near(M) OBVIOUS
  <1>3. /\ W[0] = {a}
        /\ \A n \in 1..M : W[n] = W[n - 1] \cup Step(topo, "downstream", opts, W[n - 1])
        /\ \A m, n \in 0..M : m <= n => W[m] \subseteq W[n]
    BY DEF Balls
  <1>4. /\ f[0] = Setout(sources)
        /\ \A n \in 0..(M + 1) : Walked(topo, opts, S0, targets, f[n])
        /\ \A n \in 1..(M + 1) : Further(topo, opts, S0, targets, f[n - 1], f[n])
    BY DEF Levels
  <1>a. M = maxHops(opts) OBVIOUS
  <1> HIDE DEF M
  <1>5. PICK d \in 1..M : Near(d) /\ \A n \in 0..M : n < d => ~Near(n)
    <2> DEFINE D == {n \in Nat : n <= M /\ Near(n)}
    <2>1. D \subseteq Nat /\ D # {} BY <1>2
    <2>2. PICK d \in D : \A n \in D : d <= n
      <3> HIDE DEF D
      <3> QED BY <2>1, Least
    <2>3. ~Near(0) BY <1>3
    <2>4. d \in 1..M /\ Near(d) BY <2>2, <2>3, <1>2
    <2>5. \A n \in 0..M : n < d => ~Near(n)
      <3> TAKE n \in 0..M
      <3> SUFFICES ASSUME n < d, Near(n) PROVE FALSE OBVIOUS
      <3>1. n \in D BY <1>2
      <3>2. d <= n BY <2>2, <3>1
      <3> QED BY <2>4, <3>2
    <2> QED BY <2>4, <2>5
  <1> DEFINE First(i, v) == v \in W[i] /\ (i > 0 => v \notin W[i - 1])
             Good(i) == \A v : First(i, v) =>
                          \E p \in ToSet(f[i].frontier) : Direct(W, a, i, v, p)
             S == {i \in Nat : i <= d => Good(i)}
  <1>6. 0 \in S
    <2> SUFFICES ASSUME NEW v, v \in W[0] PROVE \E p \in ToSet(f[0].frontier) : Direct(W, a, 0, v, p)
      OBVIOUS
    <2>1. v = a BY <1>3
    <2>2. a \in Known(topo) BY DEF ToSet
    <2>3. Start(a) \in ToSet(f[0].frontier) BY <1>4, SetoutWalked, <1>2, <1>a
    <2>4. Direct(W, a, 0, v, Start(a)) BY <1>3, <2>1, <2>2, SoundStart DEF Direct
    <2> QED BY <2>3, <2>4
  <1>7. ASSUME NEW i \in Nat, i \in S PROVE i + 1 \in S
    <2> SUFFICES ASSUME i + 1 <= d PROVE Good(i + 1)
      <3> HIDE DEF Good
      <3> QED OBVIOUS
    <2> SUFFICES ASSUME NEW v, First(i + 1, v)
                 PROVE  \E q \in ToSet(f[i + 1].frontier) : Direct(W, a, i + 1, v, q)
      OBVIOUS
    <2>1. /\ i + 1 \in 1..M /\ i + 1 \in 1..(M + 1) /\ i \in 0..(M + 1) /\ i \in 0..M
          /\ (i + 1) - 1 = i /\ i < d /\ i <= d /\ i < M /\ i + 1 \in 0..M /\ i + 1 > 0 /\ i <= i + 1
      BY <1>2, <1>5
    <2>2. Good(i) BY <1>7, <2>1
    <2>3. v \in W[i + 1] /\ v \notin W[i] BY <2>1
    <2>4. PICK u \in W[i] : v \in Step(topo, "downstream", opts, {u})
      <3>1. v \in Step(topo, "downstream", opts, W[i]) BY <1>3, <2>1, <2>3
      <3> QED BY <3>1, StepIs
    <2>5. PICK e : LeadsOn(topo, "downstream", opts, e, u, v) BY <2>4, StepIs
    <2>6. First(i, u)
      <3> SUFFICES ASSUME i > 0, u \in W[i - 1] PROVE FALSE OBVIOUS
      <3>1. i \in 1..M BY <2>1
      <3>2. v \in Step(topo, "downstream", opts, W[i - 1]) BY <2>5, StepIs
      <3>3. v \in W[i] BY <1>3, <3>1, <3>2
      <3> QED BY <3>3, <2>3
    <2>7. PICK p \in ToSet(f[i].frontier) : Direct(W, a, i, u, p) BY <2>2, <2>6
    <2>8. ~Arrived(p, targets)
      <3> SUFFICES ASSUME i > 0, u \in ToSet(targets) PROVE FALSE
        BY <2>7 DEF Arrived, Direct
      <3>1. 0 \in 0..M /\ i - 1 \in 0..M /\ 0 <= i - 1 BY <1>2, <2>1
      <3>2. W[0] \subseteq W[i - 1] BY <1>3, <3>1
      <3>3. u # a BY <1>3, <2>6, <3>2
      <3> QED BY <3>3, <1>5, <2>1
    <2>9. LeadsOn(topo, "downstream", opts, e, Target(p), v) /\ v \notin ToSet(p.nodes)
          /\ Length(p) < maxHops(opts)
      BY <2>1, <2>3, <2>5, <2>7, <1>a DEF Direct
    <2>10. Further(topo, opts, S0, targets, f[i], f[i + 1]) BY <1>4, <2>1
    <2>11. f[i].out = <<>> BY <1>1, <2>1
    <2>12. PICK q \in ToSet(f[i + 1].frontier) : OneLonger(q, p, v)
      BY <2>8, <2>9, <2>10, <2>11 DEF Further
    <2>13. Direct(W, a, i + 1, v, q)
      <3>1. W[i] \subseteq W[i + 1] BY <1>3, <2>1
      <3> QED BY <3>1, <2>3, <2>7, <2>12 DEF Direct, OneLonger
    <2> QED BY <2>13
  <1>8. Good(d)
    <2>1. Nat \subseteq S
      <3> HIDE DEF S
      <3> QED BY <1>6, <1>7, Induct
    <2> QED BY <2>1
  <1> HIDE DEF S, Good
  <1>9. PICK v \in ToSet(targets) : v # a /\ v \in W[d] BY <1>5
  <1>b. /\ d \in 0..M /\ d - 1 \in 0..M /\ d - 1 < d /\ d > 0 /\ d \in 0..(M + 1)
        /\ d + 1 \in 1..(M + 1) /\ (d + 1) - 1 = d /\ d + 1 \in 0..(M + 1)
    BY <1>2, <1>5
  <1>10. First(d, v) BY <1>5, <1>9, <1>b
  <1>11. PICK p \in ToSet(f[d].frontier) : Direct(W, a, d, v, p) BY <1>8, <1>10 DEF Good
  <1>12. Arrived(p, targets) BY <1>9, <1>11, <1>b DEF Arrived, Direct
  <1>13. Further(topo, opts, S0, targets, f[d], f[d + 1]) /\ f[d].out = <<>>
         /\ f[d + 1].out = <<>>
    BY <1>1, <1>4, <1>b
  <1> QED BY <1>11, <1>12, <1>13 DEF Further

\* What ReachIsExact says of the routes from the sources to the targets.
Routed(topo, opts, sources, targets, paths) ==
  LET Far(s) == Within(topo, "downstream", opts, {s})[maxHops(opts)] \ {s}
  IN /\ paths = <<>> <=> \A s \in sources : Far(s) \cap targets = {}
     /\ \A p \in ToSet(paths) :
          /\ IsRoute(p, topo, "downstream", opts)
          /\ p.nodes[1] \in sources /\ Target(p) \in targets

\* Paths is exact.
LEMMA PathsExact ==
  ASSUME NEW topo, Searchable(topo), NEW opts,
         maxHops(opts) \in Nat \ {0}, maxPaths(opts) \in Nat \ {0},
         NEW sources \in Seq(Known(topo)), NEW targets, targets # <<>>
  PROVE  Routed(topo, opts, ToSet(sources), ToSet(targets), Paths(topo, sources, targets, opts))
  <1> DEFINE M == maxHops(opts)
             S0 == ToSet(sources)
             T == ToSet(targets)
             Ball(s) == Within(topo, "downstream", opts, {s})
             paths == Paths(topo, sources, targets, opts)
  <1>1. PICK f : Levels(topo, opts, sources, targets, f) /\ paths = f[M + 1].out BY PathsIs
  <1>2. M + 1 \in 0..(M + 1) OBVIOUS
  <1>3. Walked(topo, opts, S0, targets, f[M + 1]) BY <1>1, <1>2 DEF Levels
  <1>4. \A p \in ToSet(paths) : Walk(topo, opts, S0, p) /\ Arrived(p, targets)
    BY <1>1, <1>3 DEF Walked
  <1>5. paths \in Seq(PathsOf(topo)) BY <1>1, <1>3 DEF Walked, WalksOf
  <1>6. \A s \in Known(topo) : Balls(Ball(s), topo, "downstream", opts, {s}) BY WithinIs
  <1>7. S0 \subseteq Known(topo) BY DEF ToSet
  <1> HIDE DEF paths
  <1>8. \A p \in ToSet(paths) :
          /\ IsRoute(p, topo, "downstream", opts) /\ p.nodes[1] \in S0 /\ Target(p) \in T
          /\ Target(p) \in Ball(p.nodes[1])[M] \ {p.nodes[1]}
    <2> TAKE p \in ToSet(paths)
    <2>1. /\ Sound(topo, "downstream", opts, p) /\ Length(p) <= M /\ p.nodes[1] \in S0
          /\ Length(p) > 0 /\ Target(p) \in T
      BY <1>4 DEF Walk, Arrived
    <2>2. Balls(Ball(p.nodes[1]), topo, "downstream", opts, {p.nodes[1]}) BY <1>6, <1>7, <2>1
    <2> HIDE DEF Ball
    <2>3. Target(p) \in Ball(p.nodes[1])[M] /\ Target(p) # p.nodes[1] BY <2>1, <2>2, RouteWithin
    <2> QED BY <2>1, <2>3, SoundPath
  <1>9. ASSUME paths = <<>>, NEW s \in S0 PROVE (Ball(s)[M] \ {s}) \cap T = {}
    <2> SUFFICES ASSUME NEW t \in T, t \in Ball(s)[M], t # s PROVE FALSE OBVIOUS
    <2>1. Balls(Ball(s), topo, "downstream", opts, {s}) BY <1>6, <1>7
    <2> HIDE DEF Ball
    <2>2. f[M + 1].out # <<>> BY <1>1, <2>1, WalkFinds
    <2> QED BY <2>2, <1>1, <1>9
  <1>10. ASSUME paths # <<>> PROVE \E s \in S0 : (Ball(s)[M] \ {s}) \cap T # {}
    <2>1. PICK p : p \in ToSet(paths)
      <3>1. 1 \in 1..Len(paths) BY <1>5, <1>10
      <3>2. paths[1] \in ToSet(paths) BY <3>1, <1>5 DEF ToSet
      <3> QED BY <3>2
    <2> HIDE DEF Ball, M, T, S0
    <2> QED BY <2>1, <1>8
  <1>11. paths = <<>> <=> \A s \in S0 : (Ball(s)[M] \ {s}) \cap T = {}
    <2> HIDE DEF Ball, M, T, S0
    <2> QED BY <1>9, <1>10
  <1>12. Routed(topo, opts, S0, T, paths)
    <2>1. \A p \in ToSet(paths) : /\ IsRoute(p, topo, "downstream", opts)
                                  /\ p.nodes[1] \in S0 /\ Target(p) \in T
      BY <1>8, Zenon
    <2> HIDE DEF S0, T
    <2> QED BY <2>1, <1>11, Zenon DEF Routed
  <1> QED BY <1>12 DEF paths

-----------------------------------------------------------------------------
(* The answers to reach.                                                   *)

\* What reach answers from.
LEMMA CollectedSearchable ==
  ASSUME GraphInv, NEW filter
  PROVE  Searchable(Build(Slice(filter, collected)))
  <1> DEFINE topo == Build(Slice(filter, collected))
  <1>1. topo.nodes \in Seq(Collectable) /\ EdgeList(topo.edges, Keys(ToSet(topo.nodes)))
    BY CollectedGraph
  <1> HIDE DEF topo
  <1>2. Known(topo) = Keys(ToSet(topo.nodes)) BY DEF Known, Keys
  <1>3. IsFiniteSet(Known(topo)) BY <1>1, <1>2, KeysOfList
  <1>4. ASSUME NEW a \in ToSet(topo.nodes) PROVE nodeKey(a) \in ToSet(Order)
    <2>1. a \in Collectable BY <1>1 DEF ToSet
    <2>2. PICK b \in pool : a = AsCollected(b) BY <2>1 DEF Collectable
    <2>3. IsAsset(b) /\ nodeKey(b) \in ToSet(Order)
      BY PoolsAreCollected, OrderIsComplete DEF GraphInv
    <2>4. nodeKey(a) = nodeKey(b) 
      BY <2>2, <2>3 DEF IsAsset, AsCollected, nodeKey, refKey, AsRef
    <2> QED BY <2>3, <2>4
  <1>5. Searchable(topo) BY <1>1, <1>2, <1>3, <1>4, OrderIsComplete DEF Searchable, Keys
  <1> QED BY <1>5 DEF topo

\* What a selector selects are nodes of the graph.
LEMMA SelectedKnown ==
  ASSUME NEW topo, Searchable(topo), NEW selector
  PROVE  Select(topo, selector) \in Seq(Known(topo))
  <1> DEFINE S == {nodeKey(a) : a \in {n \in ToSet(topo.nodes) : {n.id, n.name} \cap selector # {}}}
             I == {i \in DOMAIN Order : Order[i] \in S}
             t == At(Order, I)
  <1>1. Select(topo, selector) = t BY Zenon DEF Select, SortKeys, Filter
  <1>2. S \subseteq Known(topo) BY DEF Known
  <1>3. Order \in Seq(ToSet(Order)) BY DEF Searchable, IsList
  <1>4. \A i \in I : Order[i] \in S OBVIOUS
  <1> HIDE DEF I, S
  <1>5. t \in Seq(ToSet(Order)) /\ ToSet(t) = {Order[i] : i \in I \cap 1..Len(Order)}
    BY <1>3, AtElements
  <1> HIDE DEF t
  <1>6. \A i \in 1..Len(t) : t[i] \in Known(topo)
    <2>1. \A i \in 1..Len(t) : t[i] \in ToSet(t) BY <1>5 DEF ToSet
    <2> QED BY <2>1, <1>2, <1>4, <1>5
  <1>7. t \in Seq(Known(topo)) BY <1>5, <1>6
  <1> QED BY <1>1, <1>7

\* The answer to "reach" holds the paths of a search.
Searched(req, topo, paths) ==
  LET sources == Select(topo, req.from)
      targets == Select(topo, req.to)
  IN /\ req.from # {} \/ req.to # {}
     /\ req.from = {} => paths = Reachable(topo, targets, "upstream", req.opts)
     /\ req.from # {} /\ req.to = {} => paths = Reachable(topo, sources, "downstream", req.opts)
     /\ req.from # {} /\ req.to # {} =>
          targets # <<>> /\ paths = Paths(topo, sources, targets, req.opts)

\* An answer to reach is of a search of the graph it is given.
LEMMA ReachSearched ==
  ASSUME NEW req, NEW topo, NEW ans, ans = reachIn(req, topo), ans.kind = "reach", ~req.exposed
  PROVE  ans.request = req /\ ans.topo = topo /\ Searched(req, topo, ans.paths)
  <1> DEFINE res == runReach(topo, req, req.opts)
             sources == Select(topo, req.from)
             targets == Select(topo, req.to)
             Is(found) == res = Answer(found, req.opts)
  <1>1. Refused.kind # "reach" BY DEF Refused
  <1>2. ~((req.from = {} /\ req.to = {}) \/ res = MatchedNothing)
    BY <1>1, Zenon DEF reachIn, pathsAnswer
  <1>3. ans = [kind |-> "reach", request |-> req, topo |-> topo, paths |-> res.paths,
               truncated |-> res.truncated, outcome |-> ReachOutcome(req, res.paths)]
    BY <1>1, Zenon DEF reachIn, pathsAnswer
  <1>4. ans.request = req /\ ans.topo = topo /\ ans.paths = res.paths
    <2> HIDE DEF res
    <2> QED BY <1>3
  <1>5. /\ ~(req.to # {} /\ targets = <<>>)
        /\ req.from = {} => Is(Reachable(topo, targets, "upstream", req.opts))
        /\ req.from # {} /\ req.to = {} => Is(Reachable(topo, sources, "downstream", req.opts))
        /\ req.from # {} /\ req.to # {} => Is(Paths(topo, sources, targets, req.opts))
    BY <1>2, Zenon DEF runReach
  <1>6. \A found : Is(found) => res.paths = found
    <2> HIDE DEF res
    <2> QED BY DEF Answer
  <1> HIDE DEF res, Is
  <1> QED BY <1>2, <1>4, <1>5, <1>6, Zenon DEF Searched

\* What ReachIsExact says of an answer.
Right(ans) ==
  LET req == ans.request
      topo == ans.topo
      sources == ToSet(Select(topo, req.from))
      targets == ToSet(Select(topo, req.to))
  IN CASE req.to = {} -> ReachHolds(topo, "downstream", req.opts, sources, ans.paths)
       [] req.from = {} /\ req.to # {} -> ReachHolds(topo, "upstream", req.opts, targets, ans.paths)
       [] OTHER -> Routed(topo, req.opts, sources, targets, ans.paths)

\* What has been searched for is answered right.
LEMMA SearchedRight ==
  ASSUME NEW ans, Searchable(ans.topo), Searched(ans.request, ans.topo, ans.paths),
         ans.request.opts.maxHops \in Int, ans.request.opts.maxPaths \in Int
  PROVE  Right(ans)
  <1> DEFINE req == ans.request
             topo == ans.topo
             opts == req.opts
             sources == Select(topo, req.from)
             targets == Select(topo, req.to)
  <1>1. maxHops(opts) \in Nat \ {0} /\ maxPaths(opts) \in Nat \ {0} BY Limits
  <1>2. sources \in Seq(Known(topo)) /\ targets \in Seq(Known(topo)) BY SelectedKnown
  <1> HIDE DEF sources, targets, opts
  <1>3. CASE req.to = {}
    <2>1. ans.paths = Reachable(topo, sources, "downstream", opts)
      BY <1>3, Zenon DEF Searched, sources, opts
    <2>2. ReachHolds(topo, "downstream", opts, ToSet(sources), ans.paths)
      BY <1>1, <1>2, <2>1, ReachableExact
    <2> QED BY <1>3, <2>2, Zenon DEF Right, sources, opts
  <1>4. CASE req.from = {} /\ req.to # {}
    <2>1. ans.paths = Reachable(topo, targets, "upstream", opts)
      BY <1>4, Zenon DEF Searched, targets, opts
    <2>2. ReachHolds(topo, "upstream", opts, ToSet(targets), ans.paths)
      BY <1>1, <1>2, <2>1, ReachableExact
    <2> QED BY <1>4, <2>2, Zenon DEF Right, targets, opts
  <1>5. CASE req.from # {} /\ req.to # {}
    <2>1. targets # <<>> /\ ans.paths = Paths(topo, sources, targets, opts)
      BY <1>5, Zenon DEF Searched, sources, targets, opts
    <2>2. Routed(topo, opts, ToSet(sources), ToSet(targets), ans.paths)
      BY <1>1, <1>2, <2>1, PathsExact
    <2> QED BY <1>5, <2>2, Zenon DEF Right, sources, targets, opts
  <1> QED BY <1>3, <1>4, <1>5

\* "What can X reach", "what can reach X" and "how can X reach Y" are answered
\* exactly (Reachable and Paths, topology/reach.go), whatever has been collected
\* and in whatever order.
THEOREM RoutesAreExact == Spec => []ReachIsExact
  <1> DEFINE Asked(ans) == ans.kind = "reach" /\ ~ans.request.exposed
  <1>1. ReachIsExact <=> (Asked(answer) => Right(answer))
    BY Zenon DEF ReachIsExact, Right, Routed
  <1>2. ReachIsExact' <=> (Asked(answer') => Right(answer'))
    BY Zenon DEF ReachIsExact, Right, Routed
  <1>3. Init => ReachIsExact
    <2>1. Init => answer.kind # "reach" BY DEF Init, NoAnswer
    <2> QED BY <1>1, <2>1, Zenon
  <1>4. GraphInv /\ ReachIsExact /\ [Next]_vars => ReachIsExact'
    <2> SUFFICES ASSUME GraphInv, ReachIsExact, [Next]_vars, Asked(answer')
                 PROVE  Right(answer')
      BY <1>2, Zenon
    <2>1. CASE \E a \in Missing : Deliver(a)
      <3>1. answer'.kind # "reach" BY <2>1 DEF Deliver, NoAnswer
      <3> QED BY <3>1, Zenon
    <2>2. CASE \E p \in ProvidersOf(pool) : Fail(p)
      <3>1. answer'.kind # "reach" BY <2>2 DEF Fail, NoAnswer
      <3> QED BY <3>1, Zenon
    <2>3. ASSUME NEW req \in Requests, Ask(req) PROVE Right(answer')
      <3> DEFINE topo == Build(Slice(req.filter, collected))
      <3>1. answer' = IF req.command = "topology" THEN topologyAnswer(req) ELSE reachAnswer(req)
        BY <2>3, Zenon DEF Ask
      <3>2. topologyAnswer(req).kind # "reach"
        BY DEF topologyAnswer, orphansAnswer, reportAnswer, renderTopology, graphAnswer, Refused
      <3>3. req.command = "reach" /\ answer' = reachAnswer(req)
        BY <3>1, <3>2, RequestsAreParsed
      <3>4. answer' = reachIn(req, topo) BY <3>3, Zenon DEF reachAnswer
      <3>5. Searchable(topo) BY CollectedSearchable
      <3> HIDE DEF topo
      <3>6. answer'.request = req
        <4>1. answer' # Refused BY DEF Refused
        <4>2. answer' = [kind |-> "reach", request |-> req, topo |-> topo,
                         paths |-> runReach(topo, req, req.opts).paths,
                         truncated |-> runReach(topo, req, req.opts).truncated,
                         outcome |-> ReachOutcome(req, runReach(topo, req, req.opts).paths)]
          BY <3>4, <4>1, Zenon DEF reachIn, pathsAnswer
        <4> QED BY <4>2
      <3>7. /\ answer'.request = req /\ answer'.topo = topo
            /\ Searched(req, topo, answer'.paths)
        BY <3>4, <3>6, ReachSearched
      <3>8. req.opts.maxHops \in Int /\ req.opts.maxPaths \in Int
        BY <3>3, RequestsAreParsed
      <3> QED BY <3>5, <3>7, <3>8, SearchedRight
    <2>4. CASE UNCHANGED vars
      <3>1. answer' = answer BY <2>4 DEF vars
      <3> QED BY <3>1, <1>1, Zenon
    <2> QED BY <2>1, <2>2, <2>3, <2>4, Zenon DEF Next
  <1> QED BY <1>3, <1>4, GraphInvHolds, PTL DEF Spec

-----------------------------------------------------------------------------
(* Of edges with one key, the first.                                       *)

\* What stands at i is the first of its key.
IsLeading(L, i) == i \in 1..Len(L) /\ \A j \in 1..(i - 1) : edgeKey(L[j]) # edgeKey(L[i])
Leading(L) == {L[i] : i \in {j \in 1..Len(L) : IsLeading(L, j)}}

\* Lists with the same edges once duplicates are dropped.
Alike(L, M) == IsList(L) /\ IsList(M) /\ Leading(L) = Leading(M)

\* No two edges have one key.
Keyed(E) == \A e, f \in E : edgeKey(e) = edgeKey(f) => e = f

\* What the graph keeps of a list of edges are the firsts.
LEMMA DedupLeading ==
  ASSUME NEW L, IsList(L)
  PROVE  ToSet(dedupEdges(L)) = Leading(L)
  <1> DEFINE I == {i \in DOMAIN L : \A j \in 1..(i - 1) : edgeKey(L[j]) # edgeKey(L[i])}
             J == {j \in 1..Len(L) : IsLeading(L, j)}
  <1>1. dedupEdges(L) = At(L, I) BY DEF dedupEdges, FirstOfEach
  <1>2. L \in Seq(ToSet(L)) /\ DOMAIN L = 1..Len(L) BY DEF IsList
  <1>3. I \cap 1..Len(L) = J BY <1>2 DEF IsLeading
  <1> HIDE DEF I
  <1>4. ToSet(At(L, I)) = {L[i] : i \in I \cap 1..Len(L)} BY <1>2, AtElements
  <1>5. Leading(L) = {L[i] : i \in J} BY DEF Leading
  <1> QED BY <1>1, <1>3, <1>4, <1>5

\* The firsts are of the list, and every key of the list has one.
LEMMA LeadingFound ==
  ASSUME NEW L, IsList(L)
  PROVE  /\ Leading(L) \subseteq ToSet(L)
         /\ \A x \in ToSet(L) : \E e \in Leading(L) : edgeKey(e) = edgeKey(x)
         /\ Leading(L) = {} => L = <<>>
  <1>1. L \in Seq(ToSet(L)) /\ DOMAIN L = 1..Len(L) /\ Len(L) \in Nat BY DEF IsList
  <1>2. Leading(L) \subseteq ToSet(L) BY <1>1 DEF Leading, ToSet
  <1>3. ASSUME NEW x \in ToSet(L) PROVE \E e \in Leading(L) : edgeKey(e) = edgeKey(x)
    <2> DEFINE S == {j \in 1..Len(L) : edgeKey(L[j]) = edgeKey(x)}
    <2>1. S \in SUBSET Nat /\ S # {} BY <1>1 DEF ToSet
    <2>2. \A j \in 1..Len(L) : edgeKey(L[j]) = edgeKey(x) <=> j \in S OBVIOUS
    <2> HIDE DEF S
    <2>3. PICK m \in S : \A n \in S : m <= n BY <2>1, Least
    <2>4. m \in 1..Len(L) /\ edgeKey(L[m]) = edgeKey(x) BY <2>1, <2>2, <2>3 DEF S
    <2>5. ASSUME NEW j \in 1..(m - 1) PROVE edgeKey(L[j]) # edgeKey(L[m])
      <3>1. j \in 1..Len(L) /\ ~(m <= j) BY <2>4, <1>1
      <3> QED BY <3>1, <2>2, <2>3, <2>4
    <2>6. IsLeading(L, m) BY <2>4, <2>5 DEF IsLeading
    <2> QED BY <2>4, <2>6 DEF Leading
  <1>4. ASSUME L # <<>> PROVE Leading(L) # {}
    <2>1. 1 \in DOMAIN L BY <1>1, <1>4
    <2>2. L[1] \in ToSet(L) BY <2>1 DEF ToSet
    <2> QED BY <2>2, <1>3
  <1> QED BY <1>2, <1>3, <1>4

\* Where no two edges have one key, all are firsts.
LEMMA KeyedLeading ==
  ASSUME NEW L, IsList(L), Keyed(ToSet(L))
  PROVE  Leading(L) = ToSet(L)
  <1>1. ASSUME NEW x \in ToSet(L) PROVE x \in Leading(L)
    <2>1. PICK e \in Leading(L) : edgeKey(e) = edgeKey(x) BY LeadingFound
    <2>2. e \in ToSet(L) BY LeadingFound
    <2> QED BY <2>1, <2>2 DEF Keyed
  <1> QED BY <1>1, LeadingFound

\* Lists of the same edges are alike when no two have one key.
LEMMA KeyedAlike ==
  ASSUME NEW L, NEW M, IsList(L), IsList(M), ToSet(L) = ToSet(M), Keyed(ToSet(L))
  PROVE  Alike(L, M)
  BY KeyedLeading DEF Alike

\* The firsts of two lists, one after the other.
LEMMA LeadingConcat ==
  ASSUME NEW L, NEW M, IsList(L), IsList(M)
  PROVE  /\ IsList(L \o M)
         /\ Leading(L \o M)
              = Leading(L) \cup {e \in Leading(M) : \A x \in Leading(L) : edgeKey(x) # edgeKey(e)}
  <1> DEFINE s == L \o M
             l == Len(L)
             m == Len(M)
             V == ToSet(L) \cup ToSet(M)
  <1>1. L \in Seq(ToSet(L)) /\ M \in Seq(ToSet(M)) BY DEF IsList
  <1>2. L \in Seq(V) /\ M \in Seq(V) BY <1>1, Widen
  <1> HIDE DEF V
  <1>3. /\ s \in Seq(V) /\ Len(s) = l + m /\ l \in Nat /\ m \in Nat
        /\ \A i \in 1..l : s[i] = L[i]
        /\ \A i \in 1..m : s[l + i] = M[i]
    BY <1>2
  <1>4. IsList(s) BY BothLists
  <1>5. DOMAIN L = 1..l /\ DOMAIN M = 1..m BY <1>2
  <1> HIDE DEF s, l, m
  <1>6. ASSUME NEW i \in 1..l PROVE IsLeading(s, i) <=> IsLeading(L, i)
    <2>1. i \in 1..Len(s) /\ \A j \in 1..(i - 1) : s[j] = L[j] BY <1>3
    <2> QED BY <2>1, <1>3 DEF IsLeading, l
  <1>7. ASSUME NEW i \in 1..m
        PROVE  IsLeading(s, l + i)
                 <=> IsLeading(M, i) /\ \A x \in ToSet(L) : edgeKey(x) # edgeKey(M[i])
    <2>1. l + i \in 1..Len(s) /\ s[l + i] = M[i] BY <1>3
    <2>2. ASSUME IsLeading(s, l + i), NEW x \in ToSet(L) PROVE edgeKey(x) # edgeKey(M[i])
      <3>1. PICK j \in 1..l : x = L[j] BY <1>5 DEF ToSet
      <3>2. j \in 1..((l + i) - 1) /\ s[j] = x BY <3>1, <1>3
      <3> QED BY <3>2, <2>1, <2>2 DEF IsLeading
    <2>3. ASSUME IsLeading(s, l + i) PROVE IsLeading(M, i)
      <3>1. ASSUME NEW j \in 1..(i - 1) PROVE edgeKey(M[j]) # edgeKey(M[i])
        <4>1. l + j \in 1..((l + i) - 1) /\ s[l + j] = M[j] BY <1>3
        <4> QED BY <4>1, <2>1, <2>3 DEF IsLeading
      <3> QED BY <3>1 DEF IsLeading, m
    <2>4. ASSUME IsLeading(M, i), \A x \in ToSet(L) : edgeKey(x) # edgeKey(M[i])
          PROVE  IsLeading(s, l + i)
      <3>1. ASSUME NEW j \in 1..((l + i) - 1) PROVE edgeKey(s[j]) # edgeKey(M[i])
        <4>1. CASE j <= l
          <5>1. j \in 1..l BY <4>1
          <5>2. s[j] \in ToSet(L) BY <5>1, <1>3, <1>5 DEF ToSet
          <5> QED BY <5>2, <2>4
        <4>2. CASE j > l
          <5>1. j - l \in 1..(i - 1) /\ j - l \in 1..m /\ l + (j - l) = j BY <4>2, <1>3
          <5>2. s[j] = M[j - l] BY <5>1, <1>3
          <5> QED BY <5>1, <5>2, <2>4 DEF IsLeading
        <4> QED BY <4>1, <4>2, <1>3
      <3> QED BY <3>1, <2>1 DEF IsLeading
    <2> QED BY <2>2, <2>3, <2>4
  <1>8. ASSUME NEW k
        PROVE  (\A x \in ToSet(L) : edgeKey(x) # k) <=> \A x \in Leading(L) : edgeKey(x) # k
    BY LeadingFound
  <1>9. ASSUME NEW e \in Leading(s)
        PROVE  \/ e \in Leading(L)
               \/ e \in Leading(M) /\ \A x \in Leading(L) : edgeKey(x) # edgeKey(e)
    <2>1. PICK i \in 1..Len(s) : IsLeading(s, i) /\ e = s[i] BY DEF Leading
    <2>2. CASE i <= l
      <3>1. i \in 1..l BY <2>2
      <3>2. IsLeading(L, i) /\ e = L[i] BY <3>1, <2>1, <1>3, <1>6
      <3> QED BY <3>1, <3>2 DEF Leading, l
    <2>3. CASE i > l
      <3>1. i - l \in 1..m /\ l + (i - l) = i BY <2>3, <1>3
      <3>2. IsLeading(M, i - l) /\ e = M[i - l] /\ \A x \in ToSet(L) : edgeKey(x) # edgeKey(e)
        BY <3>1, <2>1, <1>3, <1>7
      <3>3. e \in Leading(M) BY <3>1, <3>2 DEF Leading, m
      <3> QED BY <3>2, <3>3, <1>8
    <2> QED BY <2>2, <2>3, <1>3
  <1>10. ASSUME NEW e \in Leading(L) PROVE e \in Leading(s)
    <2>1. PICK i \in 1..l : IsLeading(L, i) /\ e = L[i] BY DEF Leading, l
    <2>2. IsLeading(s, i) /\ e = s[i] /\ i \in 1..Len(s) BY <2>1, <1>3, <1>6
    <2> QED BY <2>2 DEF Leading
  <1>11. ASSUME NEW e \in Leading(M), \A x \in Leading(L) : edgeKey(x) # edgeKey(e)
         PROVE  e \in Leading(s)
    <2>1. PICK i \in 1..m : IsLeading(M, i) /\ e = M[i] BY DEF Leading, m
    <2>2. \A x \in ToSet(L) : edgeKey(x) # edgeKey(M[i]) BY <2>1, <1>8, <1>11
    <2>3. IsLeading(s, l + i) BY <2>1, <2>2, <1>7
    <2>4. e = s[l + i] /\ l + i \in 1..Len(s) BY <2>1, <1>3
    <2> QED BY <2>3, <2>4 DEF Leading
  <1> QED BY <1>4, <1>9, <1>10, <1>11 DEF s

\* Lists made of alike lists are alike.
LEMMA AlikeConcat ==
  ASSUME NEW L1, NEW L2, NEW M1, NEW M2, Alike(L1, M1), Alike(L2, M2)
  PROVE  Alike(L1 \o L2, M1 \o M2)
  <1>1. /\ IsList(L1) /\ IsList(L2) /\ IsList(M1) /\ IsList(M2)
        /\ Leading(L1) = Leading(M1) /\ Leading(L2) = Leading(M2)
    BY DEF Alike
  <1>2. /\ IsList(L1 \o L2)
        /\ Leading(L1 \o L2)
             = Leading(L1) \cup {e \in Leading(L2) : \A x \in Leading(L1) : edgeKey(x) # edgeKey(e)}
    BY <1>1, LeadingConcat
  <1>3. /\ IsList(M1 \o M2)
        /\ Leading(M1 \o M2)
             = Leading(M1) \cup {e \in Leading(M2) : \A x \in Leading(M1) : edgeKey(x) # edgeKey(e)}
    BY <1>1, LeadingConcat
  <1>4. Leading(L1 \o L2) = Leading(M1 \o M2) BY <1>1, <1>2, <1>3, Zenon
  <1> QED BY <1>2, <1>3, <1>4 DEF Alike

-----------------------------------------------------------------------------
(* What Each makes.                                                        *)

\* What Map makes of a list: its elements.
LEMMA MapMakes ==
  ASSUME NEW s, IsList(s), NEW g, g = [i \in DOMAIN s |-> g[i]]
  PROVE  IsList(g \o <<>>) /\ ToSet(g \o <<>>) = {g[i] : i \in DOMAIN s}
  <1> DEFINE V == {g[i] : i \in DOMAIN s}
  <1>1. \A i \in DOMAIN s : g[i] \in V OBVIOUS
  <1> HIDE DEF V
  <1>2. g \o <<>> = g /\ g \in Seq(V) /\ ToSet(g) = {g[i] : i \in DOMAIN s} BY <1>1, MapHolds
  <1> QED BY <1>2, Member

\* Lists are lists over what they hold together.
LEMMA ListsOf ==
  ASSUME NEW s, IsList(s), NEW g, g = [i \in DOMAIN s |-> g[i]], \A i \in DOMAIN s : IsList(g[i])
  PROVE  LET V == UNION {ToSet(g[i]) : i \in DOMAIN s}
         IN \A i \in DOMAIN s : g[i] \in Seq(V)
  <1> DEFINE V == UNION {ToSet(g[i]) : i \in DOMAIN s}
  <1>1. ASSUME NEW i \in DOMAIN s PROVE g[i] \in Seq(V)
    <2>1. ToSet(g[i]) \subseteq V OBVIOUS
    <2> HIDE DEF V
    <2> QED BY <2>1, Widen DEF IsList
  <1> QED BY <1>1

\* What Each appends: the elements of all the lists.
LEMMA EachMakes ==
  ASSUME NEW s, IsList(s), NEW g, g = [i \in DOMAIN s |-> g[i]], \A i \in DOMAIN s : IsList(g[i])
  PROVE  /\ IsList(FlattenSeq(g \o <<>>))
         /\ ToSet(FlattenSeq(g \o <<>>)) = UNION {ToSet(g[i]) : i \in DOMAIN s}
  <1> DEFINE V == UNION {ToSet(g[i]) : i \in DOMAIN s}
  <1>1. \A i \in DOMAIN s : g[i] \in Seq(V) BY ListsOf
  <1> HIDE DEF V
  <1>2. /\ FlattenSeq(g \o <<>>) \in Seq(V)
        /\ ToSet(FlattenSeq(g \o <<>>)) = UNION {ToSet(g[i]) : i \in DOMAIN s}
    BY <1>1, EachHolds
  <1> QED BY <1>2, Member

\* Lists that are alike piece by piece are alike.
LEMMA AlikeEach ==
  ASSUME NEW s, IsList(s), NEW g, NEW h, g = [i \in DOMAIN s |-> g[i]],
         h = [i \in DOMAIN s |-> h[i]], \A i \in DOMAIN s : Alike(g[i], h[i])
  PROVE  Alike(FlattenSeq(g \o <<>>), FlattenSeq(h \o <<>>))
  <1> DEFINE n == Len(s)
  <1>0. n \in Nat /\ DOMAIN s = 1..n BY DEF IsList
  <1>1. \A i \in DOMAIN s : IsList(g[i]) /\ IsList(h[i]) BY DEF Alike
  <1> DEFINE U == UNION {ToSet(g[i]) : i \in DOMAIN s}
             W == UNION {ToSet(h[i]) : i \in DOMAIN s}
  <1>10. (\A i \in DOMAIN s : g[i] \in Seq(U)) /\ (\A i \in DOMAIN s : h[i] \in Seq(W))
    BY <1>1, ListsOf
  <1> HIDE DEF U, W
  <1>2. g \in Seq(Seq(U)) /\ Len(g) = Len(s) /\ g \o <<>> = g BY <1>10, MapHolds
  <1>3. h \in Seq(Seq(W)) /\ Len(h) = Len(s) /\ h \o <<>> = h BY <1>10, MapHolds
  <1>4. PICK f \in [0..Len(g) -> Seq(U)] :
           /\ f[0] = <<>> /\ FlattenSeq(g) = f[Len(g)]
           /\ \A i \in 1..Len(g) : f[i] = f[i - 1] \o g[i]
    BY <1>2, FlattenSteps
  <1>5. PICK k \in [0..Len(h) -> Seq(W)] :
           /\ k[0] = <<>> /\ FlattenSeq(h) = k[Len(h)]
           /\ \A i \in 1..Len(h) : k[i] = k[i - 1] \o h[i]
    BY <1>3, FlattenSteps
  <1> DEFINE S == {m \in Nat : m <= n => Alike(f[m], k[m])}
  <1>6. 0 \in S BY <1>4, <1>5, NoElement DEF Alike
  <1>7. ASSUME NEW m \in Nat, m \in S PROVE m + 1 \in S
    <2> SUFFICES ASSUME m + 1 <= n PROVE Alike(f[m + 1], k[m + 1]) OBVIOUS
    <2>1. m + 1 \in 1..n /\ (m + 1) - 1 = m BY <1>0
    <2>2. f[m + 1] = f[m] \o g[m + 1] /\ k[m + 1] = k[m] \o h[m + 1]
      <3>1. m + 1 \in 1..Len(g) /\ m + 1 \in 1..Len(h) BY <2>1, <1>2, <1>3
      <3>2. f[m + 1] = f[(m + 1) - 1] \o g[m + 1] BY <3>1, <1>4
      <3>3. k[m + 1] = k[(m + 1) - 1] \o h[m + 1] BY <3>1, <1>5
      <3> QED BY <2>1, <3>2, <3>3
    <2>3. Alike(f[m], k[m]) BY <1>7, <1>0
    <2>4. Alike(g[m + 1], h[m + 1]) BY <2>1, <1>0
    <2> QED BY <2>2, <2>3, <2>4, AlikeConcat
  <1>8. n \in S
    <2> HIDE DEF S, n
    <2> QED BY <1>0, <1>6, <1>7, Induct
  <1>9. Alike(f[n], k[n]) BY <1>8, <1>0
  <1> QED BY <1>2, <1>3, <1>4, <1>5, <1>9

\* Lists with a key in common have the same firsts.
Apart(g, D) ==
  \A i, j \in D : \A x \in ToSet(g[i]), y \in ToSet(g[j]) :
    edgeKey(x) = edgeKey(y) => Leading(g[i]) = Leading(g[j])

\* The firsts of such lists, appended one after the other.
LEMMA EachLeading ==
  ASSUME NEW s, IsList(s), NEW g, g = [i \in DOMAIN s |-> g[i]], \A i \in DOMAIN s : IsList(g[i]),
         Apart(g, DOMAIN s)
  PROVE  Leading(FlattenSeq(g \o <<>>)) = UNION {Leading(g[i]) : i \in DOMAIN s}
  <1> DEFINE n == Len(s)
  <1>0. n \in Nat /\ DOMAIN s = 1..n BY DEF IsList
  <1> DEFINE U == UNION {ToSet(g[i]) : i \in DOMAIN s}
  <1>1. \A i \in DOMAIN s : g[i] \in Seq(U) BY ListsOf
  <1> HIDE DEF U
  <1>2. g \in Seq(Seq(U)) /\ Len(g) = Len(s) /\ g \o <<>> = g BY <1>1, MapHolds
  <1>4. PICK f \in [0..Len(g) -> Seq(U)] :
           /\ f[0] = <<>> /\ FlattenSeq(g) = f[Len(g)]
           /\ \A i \in 1..Len(g) : f[i] = f[i - 1] \o g[i]
    BY <1>2, FlattenSteps
  <1> DEFINE Upto(m) == Leading(f[m]) = UNION {Leading(g[i]) : i \in 1..m}
             S == {m \in Nat : m <= n => Upto(m)}
  <1>6. 0 \in S
    <2>1. Leading(f[0]) = {} BY <1>4 DEF Leading
    <2>2. 1..0 = {} OBVIOUS
    <2>3. Upto(0) BY <2>1, <2>2
    <2> HIDE DEF Upto
    <2> QED BY <2>3
  <1>7. ASSUME NEW m \in Nat, m \in S PROVE m + 1 \in S
    <2> SUFFICES ASSUME m + 1 <= n PROVE Upto(m + 1)
      <3> HIDE DEF Upto
      <3> QED OBVIOUS
    <2>1. m + 1 \in 1..n /\ (m + 1) - 1 = m /\ m \in 0..n BY <1>0
    <2>2. f[m + 1] = f[m] \o g[m + 1]
      <3>1. m + 1 \in 1..Len(g) BY <2>1, <1>2
      <3>2. f[m + 1] = f[(m + 1) - 1] \o g[m + 1] BY <3>1, <1>4
      <3> QED BY <2>1, <3>2
    <2>3. Leading(f[m]) = UNION {Leading(g[i]) : i \in 1..m}
      <3>1. Upto(m)
        <4> HIDE DEF Upto
        <4> QED BY <1>7, <1>0
      <3> QED BY <3>1
    <2>4. f[m] \in Seq(U) /\ IsList(g[m + 1]) BY <2>1, <1>0, <1>2, <1>4
    <2>5. IsList(f[m]) BY <2>4, Member
    <2> DEFINE A == Leading(f[m])
               B == Leading(g[m + 1])
    <2>6. Leading(f[m + 1]) = A \cup {e \in B : \A x \in A : edgeKey(x) # edgeKey(e)}
      BY <2>2, <2>4, <2>5, LeadingConcat
    <2>7. ASSUME NEW e \in B, NEW x \in A, edgeKey(x) = edgeKey(e) PROVE e \in A
      <3>1. PICK i \in 1..m : x \in Leading(g[i]) BY <2>3
      <3>2. i \in DOMAIN s /\ m + 1 \in DOMAIN s BY <2>1, <1>0
      <3>3. x \in ToSet(g[i]) /\ e \in ToSet(g[m + 1]) BY <3>1, <3>2, LeadingFound
      <3>4. Leading(g[i]) = B BY <3>2, <3>3, <2>7 DEF Apart
      <3> QED BY <3>4, <2>3
    <2> HIDE DEF A, B
    <2>8. Leading(f[m + 1]) = A \cup B BY <2>6, <2>7
    <2>9. 1..(m + 1) = 1..m \cup {m + 1} BY <2>1
    <2>10. UNION {Leading(g[i]) : i \in 1..(m + 1)} = (UNION {Leading(g[i]) : i \in 1..m}) \cup B
      BY <2>9 DEF B
    <2> QED BY <2>3, <2>8, <2>10 DEF A
  <1>8. n \in S
    <2> HIDE DEF S, n
    <2> QED BY <1>0, <1>6, <1>7, Induct
  <1>9. Leading(f[n]) = UNION {Leading(g[i]) : i \in 1..n}
    <2>1. Upto(n)
      <3> HIDE DEF Upto
      <3> QED BY <1>8, <1>0
    <2> QED BY <2>1
  <1> QED BY <1>0, <1>2, <1>4, <1>9

-----------------------------------------------------------------------------
(* What is looked up, as a set.                                            *)

\* Only the empty list holds nothing.
LEMMA NoneListed ==
  ASSUME NEW s, IsList(s)
  PROVE  s = <<>> <=> ToSet(s) = {}
  <1>1. s \in Seq(ToSet(s)) BY DEF IsList
  <1>2. s = <<>> => ToSet(s) = {} BY DEF ToSet
  <1>3. ASSUME s # <<>> PROVE ToSet(s) # {}
    <2>1. 1 \in DOMAIN s BY <1>1, <1>3
    <2> QED BY <2>1 DEF ToSet
  <1> QED BY <1>2, <1>3

\* Two lists, one after the other, hold what the two hold.
LEMMA Together ==
  ASSUME NEW s, NEW t, IsList(s), IsList(t)
  PROVE  IsList(s \o t) /\ ToSet(s \o t) = ToSet(s) \cup ToSet(t)
  <1> DEFINE V == ToSet(s) \cup ToSet(t)
  <1>1. s \in Seq(V) /\ t \in Seq(V) BY DEF IsList
  <1> HIDE DEF V
  <1>2. ToSet(s \o t) = ToSet(s) \cup ToSet(t) BY <1>1, ConcatElements
  <1> QED BY <1>2, BothLists

\* What is picked of a list, if it is picked by what it is.
LEMMA PickedAre ==
  ASSUME NEW s, IsList(s), NEW I, NEW P, \A i \in DOMAIN s : i \in I <=> s[i] \in P
  PROVE  IsList(At(s, I)) /\ ToSet(At(s, I)) = ToSet(s) \cap P
  <1>1. s \in Seq(ToSet(s)) /\ DOMAIN s = 1..Len(s) BY DEF IsList
  <1>2. At(s, I) \in Seq(ToSet(s)) /\ ToSet(At(s, I)) = {s[i] : i \in I \cap 1..Len(s)}
    BY <1>1, AtElements
  <1>3. {s[i] : i \in I \cap 1..Len(s)} = ToSet(s) \cap P BY <1>1 DEF ToSet
  <1> QED BY <1>2, <1>3, Member

\* Of a list that holds one thing at most, the last.
LEMMA LastIs ==
  ASSUME NEW t, IsList(t), \A x, y \in ToSet(t) : x = y
  PROVE  /\ IsList(LastOf(t)) /\ ToSet(LastOf(t)) = ToSet(t)
         /\ LastOf(t) = <<>> \/ \E x \in ToSet(t) : LastOf(t) = <<x>>
  <1>1. t \in Seq(ToSet(t)) BY DEF IsList
  <1>2. CASE t = <<>> BY <1>2, NoElement DEF LastOf
  <1>3. CASE t # <<>>
    <2>1. Len(t) \in DOMAIN t BY <1>1, <1>3
    <2> DEFINE x == Last(t)
    <2>2. x \in ToSet(t) /\ LastOf(t) = <<x>> BY <1>3, <2>1 DEF ToSet, Last, LastOf
    <2> HIDE DEF x
    <2>3. ToSet(<<x>>) = {x} BY DEF ToSet
    <2>4. ToSet(t) = {x} BY <2>2
    <2> QED BY <2>2, <2>3, <2>4, OneElement
  <1> QED BY <1>2, <1>3

\* What Map and Each make, when they make it of what the elements are.
Makes(m, s, G) == IsList(m) /\ ToSet(m) = {G[x] : x \in ToSet(s)}

\* Map: one thing of every element.
LEMMA MapOver ==
  ASSUME NEW s, IsList(s), NEW g, g = [i \in DOMAIN s |-> g[i]],
         NEW G, \A i \in DOMAIN s : g[i] = G[s[i]]
  PROVE  Makes(g \o <<>>, s, G)
  <1>1. {g[i] : i \in DOMAIN s} = {G[x] : x \in ToSet(s)} BY DEF ToSet
  <1> QED BY <1>1, MapMakes DEF Makes

\* Each: all the things of every element.
LEMMA EachOver ==
  ASSUME NEW s, IsList(s), NEW g, g = [i \in DOMAIN s |-> g[i]],
         NEW G, \A i \in DOMAIN s : IsList(g[i]) /\ ToSet(g[i]) = G[s[i]]
  PROVE  /\ IsList(FlattenSeq(g \o <<>>))
         /\ ToSet(FlattenSeq(g \o <<>>)) = UNION {G[x] : x \in ToSet(s)}
  <1>1. UNION {ToSet(g[i]) : i \in DOMAIN s} = UNION {G[x] : x \in ToSet(s)}
    BY DEF ToSet
  <1> QED BY <1>1, EachMakes

\* No two assets share an id.
Sole(S) == \A a, b \in S : a.id = b.id => a = b

\* a answers on the address or name, or points at it.
Answers(a, key) == LET ad == AssetAddresses(a) IN key \in ad.ips \cup ad.hosts \cup ad.targets

\* All assets of a type are found.
LEMMA ByTypeIs ==
  ASSUME NEW s, IsList(s), NEW type
  PROVE  IsList(ByType(s, type)) /\ ToSet(ByType(s, type)) = {a \in ToSet(s) : a.type = type}
  <1> DEFINE I == {i \in DOMAIN s : s[i].type = type}
             P == {a \in ToSet(s) : a.type = type}
  <1>1. ByType(s, type) = At(s, I) BY DEF ByType, Filter
  <1>2. \A i \in DOMAIN s : i \in I <=> s[i] \in P BY DEF ToSet
  <1>3. P = ToSet(s) \cap P OBVIOUS
  <1>4. IsList(At(s, I)) /\ ToSet(At(s, I)) = ToSet(s) \cap P
    <2> HIDE DEF I, P
    <2> QED BY <1>2, PickedAre
  <1> QED BY <1>1, <1>3, <1>4

\* All assets that answer on an address are found.
LEMMA ByAddressIs ==
  ASSUME NEW s, IsList(s), NEW key
  PROVE  IsList(ByAddress(s, key)) /\ ToSet(ByAddress(s, key)) = {a \in ToSet(s) : Answers(a, key)}
  <1> DEFINE I == {i \in DOMAIN s : LET ad == AssetAddresses(s[i])
                                    IN key \in ad.ips \cup ad.hosts \cup ad.targets}
             P == {a \in ToSet(s) : Answers(a, key)}
  <1>1. ByAddress(s, key) = At(s, I) BY DEF ByAddress, Filter
  <1>2. \A i \in DOMAIN s : i \in I <=> s[i] \in P BY DEF ToSet, Answers
  <1>3. P = ToSet(s) \cap P OBVIOUS
  <1>4. IsList(At(s, I)) /\ ToSet(At(s, I)) = ToSet(s) \cap P
    <2> HIDE DEF I, P
    <2> QED BY <1>2, PickedAre
  <1> QED BY <1>1, <1>3, <1>4

\* The asset with an id is found, where ids are not shared.
LEMMA ByIdIs ==
  ASSUME NEW s, IsList(s), Sole(ToSet(s)), NEW id
  PROVE  IsList(ById(s, id)) /\ ToSet(ById(s, id)) = {a \in ToSet(s) : a.id = id}
  <1> DEFINE I == {i \in DOMAIN s : s[i].id = id}
             P == {a \in ToSet(s) : a.id = id}
             t == At(s, I)
  <1>1. ById(s, id) = LastOf(t) BY DEF ById, LastWith, Filter, LastOf
  <1>2. \A i \in DOMAIN s : i \in I <=> s[i] \in P BY DEF ToSet
  <1>3. P = ToSet(s) \cap P OBVIOUS
  <1>4. IsList(t) /\ ToSet(t) = P
    <2> HIDE DEF I, P
    <2> QED BY <1>2, <1>3, PickedAre
  <1>5. \A x, y \in P : x = y BY DEF Sole
  <1>6. \A x, y \in ToSet(t) : x = y
    <2> HIDE DEF t, P
    <2> QED BY <1>4, <1>5
  <1>7. IsList(LastOf(t)) /\ ToSet(LastOf(t)) = ToSet(t)
    <2> HIDE DEF t
    <2> QED BY <1>4, <1>6, LastIs
  <1> QED BY <1>1, <1>4, <1>7

\* Services found by namespace and name.
Placed(S, ns, name) == {a \in S : a.type = "v1.Service" /\ Tag(a, "namespace") = ns /\ a.name = name}

\* The Service at a place is found, where places are not shared.
LEMMA ServiceNamedIs ==
  ASSUME NEW s, IsList(s), Unambiguous(ToSet(s)), NEW ns, NEW name
  PROVE  LET t == ServiceNamed(s, ns, name)
             P == Placed(ToSet(s), ns, name)
         IN /\ IsList(t) /\ ToSet(t) = P
            /\ t = <<>> \/ \E x \in P : t = <<x>>
  <1> DEFINE I == {i \in DOMAIN s : /\ s[i].type = "v1.Service" /\ Tag(s[i], "namespace") = ns
                                    /\ s[i].name = name}
             P == Placed(ToSet(s), ns, name)
             t == At(s, I)
  <1>1. ServiceNamed(s, ns, name) = LastOf(t) BY DEF ServiceNamed, LastWith, Filter, LastOf
  <1>2. \A i \in DOMAIN s : i \in I <=> s[i] \in P BY DEF ToSet, Placed
  <1>3. P = ToSet(s) \cap P BY DEF Placed
  <1>4. IsList(t) /\ ToSet(t) = P
    <2> HIDE DEF I, P
    <2> QED BY <1>2, <1>3, PickedAre
  <1>5. \A x, y \in P : x = y
    <2>1. \A x, y \in P : /\ x \in ToSet(s) /\ y \in ToSet(s)
                          /\ x.type = "v1.Service" /\ y.type = "v1.Service"
                          /\ Tag(x, "namespace") = Tag(y, "namespace") /\ x.name = y.name
      BY DEF Placed
    <2>2. \A x, y \in ToSet(s) :
            x.type = "v1.Service" /\ y.type = "v1.Service"
              /\ <<Tag(x, "namespace"), x.name>> = <<Tag(y, "namespace"), y.name>> => x = y
      BY Zenon DEF Unambiguous
    <2> HIDE DEF P
    <2> QED BY <2>1, <2>2
  <1>6. \A x, y \in ToSet(t) : x = y
    <2> HIDE DEF t, P
    <2> QED BY <1>4, <1>5
  <1>7. /\ IsList(LastOf(t)) /\ ToSet(LastOf(t)) = ToSet(t)
        /\ LastOf(t) = <<>> \/ \E x \in ToSet(t) : LastOf(t) = <<x>>
    <2> HIDE DEF t
    <2> QED BY <1>4, <1>6, LastIs
  <1> QED BY <1>1, <1>4, <1>7

\* Pods of an account, or of a namespace of it.
LEMMA PodsOfIs ==
  ASSUME NEW s, IsList(s), NEW account
  PROVE  /\ IsList(PodsOf(s, account))
         /\ ToSet(PodsOf(s, account)) = {a \in ToSet(s) : a.type = "v1.Pod" /\ a.account = account}
  <1> DEFINE pods == ByType(s, "v1.Pod")
             I == {i \in DOMAIN pods : pods[i].account = account}
             P == {a \in ToSet(pods) : a.account = account}
  <1>1. PodsOf(s, account) = At(pods, I) BY DEF PodsOf, Filter
  <1>2. IsList(pods) /\ ToSet(pods) = {a \in ToSet(s) : a.type = "v1.Pod"} BY ByTypeIs
  <1>3. (\A i \in DOMAIN pods : i \in I <=> pods[i] \in P) /\ P = ToSet(pods) \cap P
    BY DEF ToSet
  <1>4. IsList(At(pods, I)) /\ ToSet(At(pods, I)) = P
    <2> HIDE DEF I, P, pods
    <2> QED BY <1>2, <1>3, PickedAre
  <1>5. P = {a \in ToSet(s) : a.type = "v1.Pod" /\ a.account = account}
    <2> HIDE DEF pods
    <2> QED BY <1>2
  <1> QED BY <1>1, <1>4, <1>5

Pods(S, account, ns) ==
  {a \in S : a.type = "v1.Pod" /\ a.account = account /\ Tag(a, "namespace") = ns}

\* All pods of a namespace are found.
LEMMA PodsInIs ==
  ASSUME NEW s, IsList(s), NEW account, NEW ns
  PROVE  /\ IsList(PodsIn(s, account, ns))
         /\ ToSet(PodsIn(s, account, ns)) = Pods(ToSet(s), account, ns)
  <1> DEFINE pods == PodsOf(s, account)
             I == {i \in DOMAIN pods : Tag(pods[i], "namespace") = ns}
             P == {a \in ToSet(pods) : Tag(a, "namespace") = ns}
  <1>1. PodsIn(s, account, ns) = At(pods, I) BY DEF PodsIn, Filter
  <1>2. /\ IsList(pods)
        /\ ToSet(pods) = {a \in ToSet(s) : a.type = "v1.Pod" /\ a.account = account}
    BY PodsOfIs
  <1>3. (\A i \in DOMAIN pods : i \in I <=> pods[i] \in P) /\ P = ToSet(pods) \cap P
    BY DEF ToSet
  <1>4. IsList(At(pods, I)) /\ ToSet(At(pods, I)) = P
    <2> HIDE DEF I, P, pods
    <2> QED BY <1>2, <1>3, PickedAre
  <1>5. P = Pods(ToSet(s), account, ns)
    <2> HIDE DEF pods
    <2> QED BY <1>2 DEF Pods
  <1> QED BY <1>1, <1>4, <1>5

-----------------------------------------------------------------------------
(* The resolvers that join two assets for what the two are.                *)

\* What a resolver reads of an asset is the same of both.
Twin(a, b) ==
  /\ AsRef(a) = AsRef(b) /\ a.name = b.name /\ a.tags = b.tags
  /\ AssetAddresses(a) = AssetAddresses(b)
  /\ a.type \in rawDependentTypes => a.raw = b.raw
Twins(S, T) == (\A a \in S : \E b \in T : Twin(a, b)) /\ (\A b \in T : \E a \in S : Twin(a, b))

\* The DNS record a names what b is.
Names(a, b) ==
  /\ Tag(a, "content") # ""
  /\ \/ /\ Tag(a, "type") \in {"A", "AAAA"}
        /\ Answers(b, Tag(a, "content")) /\ b.type # "cloudflare.dns_record"
     \/ Tag(a, "type") = "CNAME" /\ Answers(b, normalizeHost(Tag(a, "content")))

Selector(a) == Without(Get(a.raw, "selector", NoRaw), "namespace")
Zoned == {"cloudflare.ruleset", "cloudflare.access_app", "cloudflare.tunnel", "cloudflare.page_rule"}

\* An edge of the kind k leads from a to b.
Related(k, a, b) ==
  \/ k = "dns" /\ a.type = "cloudflare.dns_record" /\ b.id # a.id /\ Names(a, b)
  \/ k = "waf" /\ a.type \in Zoned /\ Tag(a, "zone_id") # "" /\ b.id = Tag(a, "zone_id")
  \/ /\ k = "lb-backend" /\ a.type = "oci.load_balancer" /\ b.id # a.id /\ b.provider = "kubernetes"
     /\ \E ip \in ToSet(TagList(a, "ip_addresses")) : Answers(b, ip)
  \/ /\ k = "service-backend" /\ a.type = "v1.Service" /\ DOMAIN Selector(a) # {}
     /\ b.type = "v1.Pod" /\ b.account = a.account /\ Tag(b, "namespace") = Tag(a, "namespace")
     /\ labelsMatch(Selector(a), b.tags)
  \/ /\ k = "network-containment"
     /\ \E rule \in ToSet(ociContainmentRules) :
          a.type = rule[1] /\ Tag(a, rule[2]) # "" /\ b.id = Tag(a, rule[2]) /\ b.id # a.id

EdgeOf(k, a, b) ==
  Edge(a, b, k, IF k = "dns" THEN a.name ELSE "", 0,
       IF k \in {"dns", "lb-backend"} THEN "heuristic" ELSE "exact")
Linked(k, S) == {EdgeOf(k, p[1], p[2]) : p \in {q \in S \X S : Related(k, q[1], q[2])}}

\* What twins have in common, field by field and look-up by look-up.
LEMMA TwinIs ==
  ASSUME NEW a, NEW b, Twin(a, b)
  PROVE  /\ a.provider = b.provider /\ a.account = b.account /\ a.type = b.type /\ a.id = b.id
         /\ a.name = b.name /\ a.tags = b.tags /\ nodeKey(a) = nodeKey(b) /\ AsRef(a) = AsRef(b)
         /\ \A key : Tag(a, key) = Tag(b, key) /\ TagList(a, key) = TagList(b, key)
         /\ \A key : Answers(a, key) <=> Answers(b, key)
         /\ a.type \in rawDependentTypes => a.raw = b.raw
  BY DEF Twin, AsRef, nodeKey, refKey, Tag, TagList, Answers

\* A twin of an asset has it as its twin.
LEMMA TwinSym == ASSUME NEW a, NEW b, Twin(a, b) PROVE Twin(b, a)
  <1>1. a.type = b.type BY TwinIs
  <1> QED BY <1>1 DEF Twin

\* Twins of related assets are related, by the same edge.
LEMMA RelatedTwins ==
  ASSUME NEW a, NEW b, NEW c, NEW d, Twin(a, c), Twin(b, d), NEW k, Related(k, a, b)
  PROVE  Related(k, c, d) /\ EdgeOf(k, a, b) = EdgeOf(k, c, d)
  <1>1. /\ a.type = c.type /\ a.account = c.account /\ a.id = c.id /\ a.name = c.name
        /\ AsRef(a) = AsRef(c)
        /\ \A key : Tag(a, key) = Tag(c, key) /\ TagList(a, key) = TagList(c, key)
        /\ a.type \in rawDependentTypes => a.raw = c.raw
    BY TwinIs
  <1>2. /\ b.type = d.type /\ b.account = d.account /\ b.id = d.id /\ b.provider = d.provider
        /\ b.tags = d.tags /\ AsRef(b) = AsRef(d)
        /\ \A key : Tag(b, key) = Tag(d, key)
        /\ \A key : Answers(b, key) <=> Answers(d, key)
    BY TwinIs
  <1>3. EdgeOf(k, a, b) = EdgeOf(k, c, d) BY <1>1, <1>2 DEF EdgeOf, Edge
  <1>4. a.type = "v1.Service" => Selector(a) = Selector(c)
    BY <1>1 DEF Selector, rawDependentTypes
  <1>5. Names(a, b) => Names(c, d) BY <1>1, <1>2 DEF Names
  <1>6. Related(k, c, d) BY <1>1, <1>2, <1>4, <1>5 DEF Related
  <1> QED BY <1>3, <1>6

\* The edges of one kind between twins are the same.
LEMMA LinkedTwins ==
  ASSUME NEW S, NEW T, Twins(S, T), NEW k
  PROVE  Linked(k, S) = Linked(k, T)
  <1>1. ASSUME NEW U, NEW V, \A a \in U : \E b \in V : Twin(a, b), NEW e \in Linked(k, U)
        PROVE  e \in Linked(k, V)
    <2>1. PICK a \in U, b \in U : Related(k, a, b) /\ e = EdgeOf(k, a, b) BY DEF Linked
    <2>2. PICK c \in V, d \in V : Twin(a, c) /\ Twin(b, d) BY <1>1
    <2>3. Related(k, c, d) /\ e = EdgeOf(k, c, d) BY <2>1, <2>2, RelatedTwins
    <2>4. <<c, d>> \in V \X V /\ <<c, d>>[1] = c /\ <<c, d>>[2] = d OBVIOUS
    <2> QED BY <2>3, <2>4 DEF Linked
  <1>2. (\A a \in S : \E b \in T : Twin(a, b)) /\ \A b \in T : \E a \in S : Twin(b, a)
    BY TwinSym DEF Twins
  <1>3. \A e \in Linked(k, S) : e \in Linked(k, T) BY <1>1, <1>2, Zenon
  <1>4. \A e \in Linked(k, T) : e \in Linked(k, S) BY <1>1, <1>2, Zenon
  <1> QED BY <1>3, <1>4

\* No two edges of one kind have one key, where ids are not shared.
LEMMA LinkedKeyed ==
  ASSUME NEW S, Sole(S), NEW k
  PROVE  Keyed(Linked(k, S))
  <1>1. ASSUME NEW e \in Linked(k, S), NEW f \in Linked(k, S), edgeKey(e) = edgeKey(f) PROVE e = f
    <2>1. PICK a \in S, b \in S : e = EdgeOf(k, a, b) BY DEF Linked
    <2>2. PICK c \in S, d \in S : f = EdgeOf(k, c, d) BY DEF Linked
    <2>3. a.id = c.id /\ b.id = d.id BY <2>1, <2>2, <1>1 DEF edgeKey, EdgeOf, Edge, refKey, AsRef
    <2>4. a = c /\ b = d BY <2>3 DEF Sole
    <2> QED BY <2>1, <2>2, <2>4
  <1> QED BY <1>1 DEF Keyed

\* Edges between related assets, one for all that are, are the edges of the kind.
LEMMA LinkedIs ==
  ASSUME NEW k, NEW S, NEW E,
         \A e \in E : \E a, b \in S : Related(k, a, b) /\ e = EdgeOf(k, a, b),
         \A a, b \in S : Related(k, a, b) => EdgeOf(k, a, b) \in E
  PROVE  E = Linked(k, S)
  <1>1. ASSUME NEW e \in E PROVE e \in Linked(k, S)
    <2>1. PICK a \in S, b \in S : Related(k, a, b) /\ e = EdgeOf(k, a, b) OBVIOUS
    <2>2. <<a, b>> \in S \X S /\ <<a, b>>[1] = a /\ <<a, b>>[2] = b OBVIOUS
    <2> QED BY <2>1, <2>2 DEF Linked
  <1>2. \A e \in Linked(k, S) : e \in E BY DEF Linked
  <1> QED BY <1>1, <1>2

\* Lists of the edges of one kind between twins are alike.
LEMMA LinkedAlike ==
  ASSUME NEW S, NEW T, Twins(S, T), Sole(S), NEW k, NEW L, NEW M, IsList(L), IsList(M),
         ToSet(L) = Linked(k, S), ToSet(M) = Linked(k, T)
  PROVE  Alike(L, M)
  BY LinkedTwins, LinkedKeyed, KeyedAlike

\* A DNS record is matched with all it names.
LEMMA DnsMatchesAre ==
  ASSUME NEW s, IsList(s), NEW a
  PROVE  /\ IsList(dnsMatches(s, a))
         /\ ToSet(dnsMatches(s, a)) = {b \in ToSet(s) : Names(a, b)}
  <1> DEFINE key == Tag(a, "content")
             found == ByAddress(s, key)
             I == {i \in DOMAIN found : found[i].type # "cloudflare.dns_record"}
             P == {b \in ToSet(found) : b.type # "cloudflare.dns_record"}
             named == ByAddress(s, normalizeHost(key))
  <1>1. dnsMatches(s, a) =
          CASE key # "" /\ Tag(a, "type") \in {"A", "AAAA"} -> At(found, I)
            [] key # "" /\ Tag(a, "type") = "CNAME" -> named
            [] OTHER -> <<>>
    BY Zenon DEF dnsMatches, Filter
  <1>2. /\ IsList(found) /\ ToSet(found) = {b \in ToSet(s) : Answers(b, key)}
        /\ IsList(named) /\ ToSet(named) = {b \in ToSet(s) : Answers(b, normalizeHost(key))}
    BY ByAddressIs
  <1>3. (\A i \in DOMAIN found : i \in I <=> found[i] \in P) /\ P = ToSet(found) \cap P
    BY DEF ToSet
  <1>4. P = {b \in ToSet(s) : Answers(b, key) /\ b.type # "cloudflare.dns_record"}
    <2> HIDE DEF found, key
    <2> QED BY <1>2
  <1>5. IsList(At(found, I)) /\ ToSet(At(found, I)) = P
    <2> HIDE DEF I, P, found
    <2> QED BY <1>2, <1>3, PickedAre
  <1> DEFINE picked == At(found, I)
  <1> HIDE DEF found, I, P, named
  <1>6. CASE key # "" /\ Tag(a, "type") \in {"A", "AAAA"}
    <2>1. dnsMatches(s, a) = picked BY <1>1, <1>6
    <2>2. {b \in ToSet(s) : Names(a, b)} = P BY <1>4, <1>6 DEF Names
    <2> QED BY <2>1, <2>2, <1>5
  <1>7. CASE key # "" /\ Tag(a, "type") = "CNAME"
    <2>1. dnsMatches(s, a) = named BY <1>1, <1>7
    <2>2. {b \in ToSet(s) : Names(a, b)} = ToSet(named) BY <1>2, <1>7 DEF Names
    <2> QED BY <2>1, <2>2, <1>2
  <1>8. CASE key = "" \/ Tag(a, "type") \notin {"A", "AAAA", "CNAME"}
    <2>1. dnsMatches(s, a) = <<>> BY <1>1, <1>8
    <2>2. {b \in ToSet(s) : Names(a, b)} = {} BY <1>8 DEF Names
    <2>3. ToSet(<<>>) = {} BY DEF ToSet
    <2> QED BY <2>1, <2>2, <2>3, NoElement
  <1> QED BY <1>6, <1>7, <1>8

\* What is not the asset itself.
LEMMA OthersAre ==
  ASSUME NEW s, IsList(s), NEW a
  PROVE  LET t == At(s, {i \in DOMAIN s : s[i].id # a.id})
         IN IsList(t) /\ ToSet(t) = {b \in ToSet(s) : b.id # a.id}
  <1> DEFINE I == {i \in DOMAIN s : s[i].id # a.id}
             P == {b \in ToSet(s) : b.id # a.id}
  <1>1. (\A i \in DOMAIN s : i \in I <=> s[i] \in P) /\ P = ToSet(s) \cap P BY DEF ToSet
  <1>2. IsList(At(s, I)) /\ ToSet(At(s, I)) = P
    <2> HIDE DEF I, P
    <2> QED BY <1>1, PickedAre
  <1> QED BY <1>2

\* The edges of the DNS records are those between a record and what it names.
LEMMA DnsIs ==
  ASSUME NEW s, IsList(s)
  PROVE  IsList(dnsToTarget(s)) /\ ToSet(dnsToTarget(s)) = Linked("dns", ToSet(s))
  <1> DEFINE S == ToSet(s)
             recs == ByType(s, "cloudflare.dns_record")
             found(a) == dnsMatches(s, a)
             on(a) == At(found(a), {i \in DOMAIN found(a) : found(a)[i].id # a.id})
             Made(a, b) == Edge(a, b, "dns", a.name, 0, "heuristic")
             h(a) == [j \in DOMAIN on(a) |-> Made(a, on(a)[j])]
             g == [i \in DOMAIN recs |-> h(recs[i]) \o <<>>]
             G == [a \in S |-> {Made(a, b) : b \in {c \in S : Names(a, c) /\ c.id # a.id}}]
  <1>1. dnsToTarget(s) = FlattenSeq(g \o <<>>) BY Zenon DEF dnsToTarget, Each, Map, Filter
  <1>2. ASSUME NEW a \in S PROVE IsList(h(a) \o <<>>) /\ ToSet(h(a) \o <<>>) = G[a]
    <2>1. IsList(found(a)) /\ ToSet(found(a)) = {b \in S : Names(a, b)} BY DnsMatchesAre
    <2> HIDE DEF found
    <2>2. IsList(on(a)) /\ ToSet(on(a)) = {b \in ToSet(found(a)) : b.id # a.id} BY <2>1, OthersAre
    <2>3. ToSet(on(a)) = {c \in S : Names(a, c) /\ c.id # a.id} BY <2>1, <2>2
    <2> HIDE DEF on
    <2> DEFINE F == [b \in S |-> Made(a, b)]
               t == on(a)
    <2>4. h(a) = [j \in DOMAIN t |-> h(a)[j]] OBVIOUS
    <2>5. \A j \in DOMAIN t : h(a)[j] = F[t[j]]
      <3>1. \A j \in DOMAIN t : t[j] \in S BY <2>3 DEF ToSet
      <3> QED BY <3>1
    <2> HIDE DEF t, h
    <2>6. IsList(h(a) \o <<>>) /\ ToSet(h(a) \o <<>>) = {F[b] : b \in ToSet(t)}
      <3> HIDE DEF F
      <3>2. Makes(h(a) \o <<>>, t, F) BY <2>2, <2>4, <2>5, MapOver DEF t
      <3> QED BY <3>2 DEF Makes
    <2>7. {F[b] : b \in ToSet(t)} = G[a] BY <2>3 DEF t
    <2> QED BY <2>6, <2>7
  <1>3. IsList(recs) /\ ToSet(recs) = {a \in S : a.type = "cloudflare.dns_record"} BY ByTypeIs
  <1> HIDE DEF h, recs
  <1>4. g = [i \in DOMAIN recs |-> g[i]] OBVIOUS
  <1>5. \A i \in DOMAIN recs : IsList(g[i]) /\ ToSet(g[i]) = G[recs[i]]
    <2>1. \A i \in DOMAIN recs : recs[i] \in S BY <1>3 DEF ToSet
    <2> HIDE DEF G
    <2> QED BY <2>1, <1>2
  <1>6. /\ IsList(FlattenSeq(g \o <<>>))
        /\ ToSet(FlattenSeq(g \o <<>>)) = UNION {G[a] : a \in ToSet(recs)}
    <2> HIDE DEF g, G
    <2> QED BY <1>3, <1>4, <1>5, EachOver
  <1>7. UNION {G[a] : a \in ToSet(recs)} = Linked("dns", S)
    <2> HIDE DEF S
    <2>1. \A a, b \in S : EdgeOf("dns", a, b) = Made(a, b) BY DEF EdgeOf
    <2>2. \A a, b \in S : Related("dns", a, b) <=>
            a.type = "cloudflare.dns_record" /\ b.id # a.id /\ Names(a, b) BY DEF Related
    <2> HIDE DEF Made
    <2>3. ASSUME NEW e \in UNION {G[a] : a \in ToSet(recs)}
          PROVE  \E a, b \in S : Related("dns", a, b) /\ e = EdgeOf("dns", a, b)
      BY <1>3, <2>1, <2>2
    <2>4. \A a, b \in S : Related("dns", a, b) =>
            EdgeOf("dns", a, b) \in UNION {G[c] : c \in ToSet(recs)}
      BY <1>3, <2>1, <2>2
    <2> HIDE DEF G
    <2> QED BY <2>3, <2>4, LinkedIs
  <1> QED BY <1>1, <1>6, <1>7

\* The edges of what protects a zone are those to the zone with the id.
LEMMA WafIs ==
  ASSUME NEW s, IsList(s), Sole(ToSet(s))
  PROVE  IsList(wafBinding(s)) /\ ToSet(wafBinding(s)) = Linked("waf", ToSet(s))
  <1> DEFINE S == ToSet(s)
             types == <<"cloudflare.ruleset", "cloudflare.access_app",
                        "cloudflare.tunnel", "cloudflare.page_rule">>
             Zone(a) == IF Tag(a, "zone_id") = "" THEN <<>> ELSE ById(s, Tag(a, "zone_id"))
             Made(a, zone) == Exact(a, zone, "waf")
             h(a) == [k \in DOMAIN Zone(a) |-> Made(a, Zone(a)[k])]
             g(t) == [j \in DOMAIN ByType(s, t) |-> h(ByType(s, t)[j]) \o <<>>]
             f == [i \in DOMAIN types |-> FlattenSeq(g(types[i]) \o <<>>)]
             Zones(a) == {b \in S : Tag(a, "zone_id") # "" /\ b.id = Tag(a, "zone_id")}
             H == [a \in S |-> {Made(a, b) : b \in Zones(a)}]
             G == [t \in Zoned |-> UNION {H[a] : a \in {b \in S : b.type = t}}]
  <1>1. wafBinding(s) = FlattenSeq(f \o <<>>) BY Zenon DEF wafBinding, Each, Map
  <1>2. \A a, b : EdgeOf("waf", a, b) = Made(a, b) BY DEF EdgeOf, Exact
  <1>3. ASSUME NEW a \in S PROVE IsList(h(a) \o <<>>) /\ ToSet(h(a) \o <<>>) = H[a]
    <2> DEFINE t == Zone(a)
               F == [b \in S |-> Made(a, b)]
    <2>1. IsList(t) /\ ToSet(t) = Zones(a)
      <3>1. CASE Tag(a, "zone_id") = ""
        <4>1. t = <<>> /\ Zones(a) = {} BY <3>1
        <4>2. ToSet(<<>>) = {} BY DEF ToSet
        <4> HIDE DEF t
        <4> QED BY <4>1, <4>2, NoElement
      <3>2. CASE Tag(a, "zone_id") # ""
        <4>1. t = ById(s, Tag(a, "zone_id")) /\ Zones(a) = {b \in S : b.id = Tag(a, "zone_id")}
          BY <3>2
        <4> HIDE DEF t
        <4> QED BY <4>1, ByIdIs
      <3> QED BY <3>1, <3>2
    <2>2. h(a) = [k \in DOMAIN t |-> h(a)[k]] OBVIOUS
    <2>3. \A k \in DOMAIN t : h(a)[k] = F[t[k]]
      <3>1. \A k \in DOMAIN t : t[k] \in S BY <2>1 DEF ToSet
      <3> HIDE DEF Made
      <3> QED BY <3>1
    <2> HIDE DEF t, h, Zone
    <2>4. IsList(h(a) \o <<>>) /\ ToSet(h(a) \o <<>>) = {F[b] : b \in ToSet(t)}
      <3>1. IsList(t) BY <2>1
      <3> HIDE DEF F
      <3>2. Makes(h(a) \o <<>>, t, F) BY <3>1, <2>2, <2>3, MapOver
      <3> QED BY <3>2 DEF Makes
    <2>5. {F[b] : b \in ToSet(t)} = H[a]
      <3> HIDE DEF t, Made
      <3> QED BY <2>1
    <2> QED BY <2>4, <2>5
  <1> HIDE DEF h, Made
  <1>4. ASSUME NEW t \in Zoned
        PROVE  IsList(FlattenSeq(g(t) \o <<>>)) /\ ToSet(FlattenSeq(g(t) \o <<>>)) = G[t]
    <2> DEFINE r == ByType(s, t)
    <2>1. IsList(r) /\ ToSet(r) = {b \in S : b.type = t} BY ByTypeIs
    <2>2. g(t) = [j \in DOMAIN r |-> g(t)[j]] OBVIOUS
    <2>3. \A j \in DOMAIN r : IsList(g(t)[j]) /\ ToSet(g(t)[j]) = H[r[j]]
      <3>1. \A j \in DOMAIN r : r[j] \in S BY <2>1 DEF ToSet
      <3> HIDE DEF H
      <3> QED BY <3>1, <1>3
    <2>4. /\ IsList(FlattenSeq(g(t) \o <<>>))
          /\ ToSet(FlattenSeq(g(t) \o <<>>)) = UNION {H[a] : a \in ToSet(r)}
      <3> HIDE DEF g, r, H
      <3> QED BY <2>1, <2>2, <2>3, EachOver
    <2> HIDE DEF r, g, H
    <2> QED BY <2>1, <2>4
  <1>5. IsList(types) BY FourListed
  <1>6. ToSet(types) = Zoned BY DEF ToSet, Zoned
  <1> HIDE DEF g, types
  <1>7. \A i \in DOMAIN types : IsList(f[i]) /\ ToSet(f[i]) = G[types[i]]
    <2>1. \A i \in DOMAIN types : types[i] \in Zoned BY <1>6 DEF ToSet
    <2> HIDE DEF G
    <2> QED BY <2>1, <1>4
  <1>8. f = [i \in DOMAIN types |-> f[i]] OBVIOUS
  <1>9. /\ IsList(FlattenSeq(f \o <<>>))
        /\ ToSet(FlattenSeq(f \o <<>>)) = UNION {G[t] : t \in Zoned}
    <2> HIDE DEF f, G
    <2> QED BY <1>5, <1>6, <1>7, <1>8, EachOver
  <1>10. UNION {G[t] : t \in Zoned} = Linked("waf", S)
    <2> HIDE DEF S
    <2>1. \A a, b \in S : Related("waf", a, b) <=> a.type \in Zoned /\ b \in Zones(a) BY DEF Related
    <2> HIDE DEF Zones
    <2>2. ASSUME NEW e \in UNION {G[t] : t \in Zoned}
          PROVE  \E a, b \in S : Related("waf", a, b) /\ e = EdgeOf("waf", a, b)
      <3>1. PICK t \in Zoned, a \in S : a.type = t /\ e \in H[a] OBVIOUS
      <3>2. PICK b \in Zones(a) : e = Made(a, b) BY <3>1
      <3>3. b \in S BY <3>2 DEF Zones
      <3> QED BY <3>1, <3>2, <3>3, <2>1, <1>2
    <2>3. \A a, b \in S : Related("waf", a, b) => EdgeOf("waf", a, b) \in UNION {G[t] : t \in Zoned}
      BY <2>1, <1>2
    <2> HIDE DEF G
    <2> QED BY <2>2, <2>3, LinkedIs
  <1> QED BY <1>1, <1>9, <1>10

\* The edges of the load balancers are those to what answers on their addresses.
LEMMA LbIs ==
  ASSUME NEW s, IsList(s), \A a \in ToSet(s) : IsReadable(a)
  PROVE  IsList(lbToGateway(s)) /\ ToSet(lbToGateway(s)) = Linked("lb-backend", ToSet(s))
  <1> DEFINE S == ToSet(s)
             lbs == ByType(s, "oci.load_balancer")
             found(ip) == ByAddress(s, ip)
             I(lb, ip) == {i \in DOMAIN found(ip) :
                             found(ip)[i].id # lb.id /\ found(ip)[i].provider = "kubernetes"}
             on(lb, ip) == At(found(ip), I(lb, ip))
             Made(lb, t) == Edge(lb, t, "lb-backend", "", 0, "heuristic")
             h(lb, ip) == [k \in DOMAIN on(lb, ip) |-> Made(lb, on(lb, ip)[k])]
             g(lb) == [j \in DOMAIN TagList(lb, "ip_addresses") |->
                         h(lb, TagList(lb, "ip_addresses")[j]) \o <<>>]
             f == [i \in DOMAIN lbs |-> FlattenSeq(g(lbs[i]) \o <<>>)]
             Backing(lb, ip) == {b \in S : Answers(b, ip) /\ b.id # lb.id /\ b.provider = "kubernetes"}
             Made2(lb, ip) == {Made(lb, b) : b \in Backing(lb, ip)}
             G == [lb \in S |-> UNION {Made2(lb, ip) : ip \in ToSet(TagList(lb, "ip_addresses"))}]
  <1>1. lbToGateway(s) = FlattenSeq(f \o <<>>) BY Zenon DEF lbToGateway, Each, Map, Filter
  <1>2. \A a, b : EdgeOf("lb-backend", a, b) = Made(a, b) BY DEF EdgeOf
  <1>3. ASSUME NEW lb \in S, NEW ip PROVE IsList(on(lb, ip)) /\ ToSet(on(lb, ip)) = Backing(lb, ip)
    <2> DEFINE t == found(ip)
               P == {b \in ToSet(t) : b.id # lb.id /\ b.provider = "kubernetes"}
               J == I(lb, ip)
    <2>1. IsList(t) /\ ToSet(t) = {b \in S : Answers(b, ip)} BY ByAddressIs
    <2>2. (\A i \in DOMAIN t : i \in J <=> t[i] \in P) /\ P = ToSet(t) \cap P BY DEF ToSet
    <2>3. on(lb, ip) = At(t, J) OBVIOUS
    <2>4. IsList(At(t, J)) /\ ToSet(At(t, J)) = P
      <3> HIDE DEF t, P, J
      <3> QED BY <2>1, <2>2, PickedAre
    <2>5. P = Backing(lb, ip)
      <3> HIDE DEF t
      <3> QED BY <2>1
    <2> QED BY <2>3, <2>4, <2>5
  <1> HIDE DEF on
  <1>4. ASSUME NEW lb \in S, NEW ip
        PROVE  IsList(h(lb, ip) \o <<>>) /\ ToSet(h(lb, ip) \o <<>>) = Made2(lb, ip)
    <2> DEFINE t == on(lb, ip)
               F == [b \in S |-> Made(lb, b)]
               m == h(lb, ip)
    <2>1. IsList(t) /\ ToSet(t) = Backing(lb, ip) BY <1>3
    <2>2. m = [k \in DOMAIN t |-> m[k]] OBVIOUS
    <2>3. \A k \in DOMAIN t : m[k] = F[t[k]]
      <3>1. \A k \in DOMAIN t : t[k] \in S BY <2>1 DEF ToSet
      <3> HIDE DEF Made
      <3> QED BY <3>1
    <2> HIDE DEF t, m
    <2>4. IsList(m \o <<>>) /\ ToSet(m \o <<>>) = {F[b] : b \in ToSet(t)}
      <3>1. IsList(t) BY <2>1
      <3> HIDE DEF F
      <3>2. Makes(m \o <<>>, t, F) BY <3>1, <2>2, <2>3, MapOver
      <3> QED BY <3>2 DEF Makes
    <2>5. {F[b] : b \in ToSet(t)} = Made2(lb, ip)
      <3> HIDE DEF Made
      <3> QED BY <2>1
    <2> QED BY <2>4, <2>5 DEF m
  <1> HIDE DEF h, Made2, Made
  <1>5. IsList(lbs) /\ ToSet(lbs) = {a \in S : a.type = "oci.load_balancer"} BY ByTypeIs
  <1>6. ASSUME NEW lb \in ToSet(lbs)
        PROVE  IsList(FlattenSeq(g(lb) \o <<>>)) /\ ToSet(FlattenSeq(g(lb) \o <<>>)) = G[lb]
    <2> DEFINE ips == TagList(lb, "ip_addresses")
               m == g(lb)
               F == [ip \in ToSet(ips) |-> Made2(lb, ip)]
    <2>1. lb \in S /\ lb.type = "oci.load_balancer" BY <1>5
    <2>2. IsList(ips) BY <2>1, Zenon DEF IsReadable
    <2>3. m = [j \in DOMAIN ips |-> m[j]] OBVIOUS
    <2>4. \A j \in DOMAIN ips : IsList(m[j]) /\ ToSet(m[j]) = F[ips[j]]
      <3>1. \A j \in DOMAIN ips : ips[j] \in ToSet(ips) BY DEF ToSet
      <3> QED BY <3>1, <2>1, <1>4
    <2>5. /\ IsList(FlattenSeq(m \o <<>>))
          /\ ToSet(FlattenSeq(m \o <<>>)) = UNION {F[ip] : ip \in ToSet(ips)}
      <3> HIDE DEF ips, m, F
      <3> QED BY <2>2, <2>3, <2>4, EachOver
    <2>6. UNION {F[ip] : ip \in ToSet(ips)} = G[lb]
      <3> HIDE DEF lbs
      <3> QED BY <2>1
    <2> QED BY <2>5, <2>6
  <1>7. f = [i \in DOMAIN lbs |-> f[i]] OBVIOUS
  <1>8. \A i \in DOMAIN lbs : IsList(f[i]) /\ ToSet(f[i]) = G[lbs[i]]
    <2>1. \A i \in DOMAIN lbs : lbs[i] \in ToSet(lbs) BY DEF ToSet
    <2> HIDE DEF G, g, lbs
    <2> QED BY <2>1, <1>6
  <1>9. /\ IsList(FlattenSeq(f \o <<>>))
        /\ ToSet(FlattenSeq(f \o <<>>)) = UNION {G[lb] : lb \in ToSet(lbs)}
    <2> HIDE DEF f, G, lbs
    <2> QED BY <1>5, <1>7, <1>8, EachOver
  <1>10. UNION {G[lb] : lb \in ToSet(lbs)} = Linked("lb-backend", S)
    <2> HIDE DEF S, lbs
    <2>1. \A a, b \in S : Related("lb-backend", a, b) <=>
            /\ a.type = "oci.load_balancer"
            /\ \E ip \in ToSet(TagList(a, "ip_addresses")) : b \in Backing(a, ip)
      BY DEF Related
    <2> HIDE DEF Backing
    <2>2. ASSUME NEW e \in UNION {G[lb] : lb \in ToSet(lbs)}
          PROVE  \E a, b \in S : Related("lb-backend", a, b) /\ e = EdgeOf("lb-backend", a, b)
      <3>1. PICK a \in S : a.type = "oci.load_balancer" /\ e \in G[a] BY <1>5
      <3>2. PICK ip \in ToSet(TagList(a, "ip_addresses")) : e \in Made2(a, ip) BY <3>1
      <3>3. PICK b \in Backing(a, ip) : e = Made(a, b) BY <3>2 DEF Made2
      <3>4. b \in S BY <3>3 DEF Backing
      <3> QED BY <3>1, <3>2, <3>3, <3>4, <2>1, <1>2
    <2>3. ASSUME NEW a \in S, NEW b \in S, Related("lb-backend", a, b)
          PROVE  EdgeOf("lb-backend", a, b) \in UNION {G[lb] : lb \in ToSet(lbs)}
      <3>1. PICK ip \in ToSet(TagList(a, "ip_addresses")) : b \in Backing(a, ip) BY <2>1, <2>3
      <3>2. a \in ToSet(lbs) BY <2>1, <2>3, <1>5
      <3>3. Made(a, b) \in Made2(a, ip) BY <3>1 DEF Made2
      <3>4. Made(a, b) \in G[a] BY <3>1, <3>3
      <3> QED BY <3>2, <3>4, <1>2
    <2> HIDE DEF G
    <2> QED BY <2>2, <2>3, LinkedIs
  <1> QED BY <1>1, <1>9, <1>10

\* Pods that a selector matches.
LEMMA LabelledAre ==
  ASSUME NEW s, IsList(s), NEW sel
  PROVE  LET t == At(s, {i \in DOMAIN s : labelsMatch(sel, s[i].tags)})
         IN IsList(t) /\ ToSet(t) = {b \in ToSet(s) : labelsMatch(sel, b.tags)}
  <1> DEFINE I == {i \in DOMAIN s : labelsMatch(sel, s[i].tags)}
             P == {b \in ToSet(s) : labelsMatch(sel, b.tags)}
  <1>1. (\A i \in DOMAIN s : i \in I <=> s[i] \in P) /\ P = ToSet(s) \cap P BY DEF ToSet
  <1>2. IsList(At(s, I)) /\ ToSet(At(s, I)) = P
    <2> HIDE DEF I, P
    <2> QED BY <1>1, PickedAre
  <1> QED BY <1>2

\* The edges of the Services are those to the pods their selector matches.
LEMMA ServiceIs ==
  ASSUME NEW s, IsList(s)
  PROVE  /\ IsList(serviceToWorkload(s))
         /\ ToSet(serviceToWorkload(s)) = Linked("service-backend", ToSet(s))
  <1> DEFINE S == ToSet(s)
             svcs == ByType(s, "v1.Service")
             pods(svc) == PodsIn(s, svc.account, Tag(svc, "namespace"))
             I(svc) == {i \in DOMAIN pods(svc) : labelsMatch(Selector(svc), pods(svc)[i].tags)}
             on(svc) == At(pods(svc), I(svc))
             Made(svc, pod) == Exact(svc, pod, "service-backend")
             h(svc) == [k \in DOMAIN on(svc) |-> Made(svc, on(svc)[k])]
             g(svc) == IF DOMAIN Selector(svc) = {} THEN <<>> ELSE h(svc) \o <<>>
             f == [i \in DOMAIN svcs |-> g(svcs[i])]
             Backends(a) == {b \in Pods(S, a.account, Tag(a, "namespace")) : labelsMatch(Selector(a), b.tags)}
             G == [a \in S |-> IF DOMAIN Selector(a) = {} THEN {} ELSE {Made(a, b) : b \in Backends(a)}]
  <1>1. serviceToWorkload(s) = FlattenSeq(f \o <<>>)
    BY Zenon DEF serviceToWorkload, Each, Map, Filter, Selector
  <1>2. \A a, b : EdgeOf("service-backend", a, b) = Made(a, b) BY DEF EdgeOf, Exact
  <1>3. ASSUME NEW a \in S PROVE IsList(on(a)) /\ ToSet(on(a)) = Backends(a)
    <2> DEFINE t == pods(a)
    <2>1. IsList(t) /\ ToSet(t) = Pods(S, a.account, Tag(a, "namespace")) BY PodsInIs
    <2> HIDE DEF pods
    <2>2. IsList(on(a)) /\ ToSet(on(a)) = {b \in ToSet(t) : labelsMatch(Selector(a), b.tags)}
      BY <2>1, LabelledAre
    <2> HIDE DEF on
    <2> QED BY <2>1, <2>2
  <1> HIDE DEF on
  <1>4. ASSUME NEW a \in S PROVE IsList(g(a)) /\ ToSet(g(a)) = G[a]
    <2> DEFINE t == on(a)
               F == [b \in S |-> Made(a, b)]
               m == h(a)
    <2>1. IsList(t) /\ ToSet(t) = Backends(a) BY <1>3
    <2>2. m = [k \in DOMAIN t |-> m[k]] OBVIOUS
    <2>3. \A b \in Backends(a) : b \in S BY DEF Pods
    <2>4. \A k \in DOMAIN t : m[k] = F[t[k]]
      <3>1. \A k \in DOMAIN t : t[k] \in S BY <2>1, <2>3 DEF ToSet
      <3> HIDE DEF Made
      <3> QED BY <3>1
    <2> HIDE DEF t, m
    <2>5. IsList(m \o <<>>) /\ ToSet(m \o <<>>) = {F[b] : b \in ToSet(t)}
      <3>1. IsList(t) BY <2>1
      <3> HIDE DEF F
      <3>2. Makes(m \o <<>>, t, F) BY <3>1, <2>2, <2>4, MapOver
      <3> QED BY <3>2 DEF Makes
    <2>6. {F[b] : b \in ToSet(t)} = {Made(a, b) : b \in Backends(a)}
      <3> HIDE DEF Made, Backends
      <3> QED BY <2>1, <2>3
    <2>7. CASE DOMAIN Selector(a) = {}
      <3>1. g(a) = <<>> /\ G[a] = {} BY <2>7
      <3>2. ToSet(<<>>) = {} BY DEF ToSet
      <3> HIDE DEF g, G
      <3> QED BY <3>1, <3>2, NoElement
    <2>8. CASE DOMAIN Selector(a) # {}
      <3>1. g(a) = m \o <<>> /\ G[a] = {Made(a, b) : b \in Backends(a)} BY <2>8 DEF m
      <3> HIDE DEF g, G, Made
      <3> QED BY <3>1, <2>5, <2>6
    <2> QED BY <2>7, <2>8
  <1>5. IsList(svcs) /\ ToSet(svcs) = {a \in S : a.type = "v1.Service"} BY ByTypeIs
  <1> HIDE DEF g, svcs, Made
  <1>6. f = [i \in DOMAIN svcs |-> f[i]] OBVIOUS
  <1>7. \A i \in DOMAIN svcs : IsList(f[i]) /\ ToSet(f[i]) = G[svcs[i]]
    <2>1. \A i \in DOMAIN svcs : svcs[i] \in S BY <1>5 DEF ToSet
    <2> HIDE DEF G
    <2> QED BY <2>1, <1>4
  <1>8. /\ IsList(FlattenSeq(f \o <<>>))
        /\ ToSet(FlattenSeq(f \o <<>>)) = UNION {G[a] : a \in ToSet(svcs)}
    <2> HIDE DEF f, G
    <2> QED BY <1>5, <1>6, <1>7, EachOver
  <1>9. UNION {G[a] : a \in ToSet(svcs)} = Linked("service-backend", S)
    <2> HIDE DEF S
    <2>1. \A a, b \in S : Related("service-backend", a, b) <=>
            a.type = "v1.Service" /\ DOMAIN Selector(a) # {} /\ b \in Backends(a)
      BY DEF Related, Pods
    <2>2. \A a, b : b \in Backends(a) => b \in S BY DEF Pods
    <2> HIDE DEF Backends
    <2>3. ASSUME NEW e \in UNION {G[a] : a \in ToSet(svcs)}
          PROVE  \E a, b \in S : Related("service-backend", a, b) /\ e = EdgeOf("service-backend", a, b)
      <3>1. PICK a \in S : a.type = "v1.Service" /\ e \in G[a] BY <1>5
      <3>2. PICK b \in Backends(a) : DOMAIN Selector(a) # {} /\ e = Made(a, b) BY <3>1
      <3> QED BY <3>1, <3>2, <2>1, <2>2, <1>2
    <2>4. \A a, b \in S : Related("service-backend", a, b) =>
            EdgeOf("service-backend", a, b) \in UNION {G[c] : c \in ToSet(svcs)}
      BY <2>1, <1>2, <1>5
    <2> HIDE DEF G
    <2> QED BY <2>3, <2>4, LinkedIs
  <1> QED BY <1>1, <1>8, <1>9

\* The edges of what lies in a network are those to the network with the id.
LEMMA OciIs ==
  ASSUME NEW s, IsList(s), Sole(ToSet(s))
  PROVE  /\ IsList(ociNetworkContainment(s))
         /\ ToSet(ociNetworkContainment(s)) = Linked("network-containment", ToSet(s))
  <1> DEFINE S == ToSet(s)
             rules == ociContainmentRules
             of(rule) == ByType(s, rule[1])
             found(rule, a) == IF Tag(a, rule[2]) = "" THEN <<>> ELSE ById(s, Tag(a, rule[2]))
             I(rule, a) == {i \in DOMAIN found(rule, a) : found(rule, a)[i].id # a.id}
             parent(rule, a) == At(found(rule, a), I(rule, a))
             Made(a, p) == Exact(a, p, "network-containment")
             h(rule, a) == [k \in DOMAIN parent(rule, a) |-> Made(a, parent(rule, a)[k])]
             g(rule) == [j \in DOMAIN of(rule) |-> h(rule, of(rule)[j]) \o <<>>]
             f == [i \in DOMAIN rules |-> FlattenSeq(g(rules[i]) \o <<>>)]
             Parents(rule, a) ==
               {b \in S : Tag(a, rule[2]) # "" /\ b.id = Tag(a, rule[2]) /\ b.id # a.id}
             Up(rule, a) == {Made(a, b) : b \in Parents(rule, a)}
             G == [rule \in ToSet(rules) |-> UNION {Up(rule, a) : a \in {b \in S : b.type = rule[1]}}]
  <1>1. ociNetworkContainment(s) = FlattenSeq(f \o <<>>)
    BY Zenon DEF ociNetworkContainment, Each, Map, Filter
  <1>2. \A a, b : EdgeOf("network-containment", a, b) = Made(a, b) BY DEF EdgeOf, Exact
  <1>3. ASSUME NEW rule, NEW a \in S
        PROVE  IsList(parent(rule, a)) /\ ToSet(parent(rule, a)) = Parents(rule, a)
    <2> DEFINE t == found(rule, a)
               W == {b \in S : Tag(a, rule[2]) # "" /\ b.id = Tag(a, rule[2])}
    <2>1. IsList(t) /\ ToSet(t) = W
      <3>1. CASE Tag(a, rule[2]) = ""
        <4>1. t = <<>> /\ W = {} BY <3>1
        <4>2. ToSet(<<>>) = {} BY DEF ToSet
        <4> HIDE DEF t, W
        <4> QED BY <4>1, <4>2, NoElement
      <3>2. CASE Tag(a, rule[2]) # ""
        <4>1. t = ById(s, Tag(a, rule[2])) /\ W = {b \in S : b.id = Tag(a, rule[2])} BY <3>2
        <4> HIDE DEF t, W
        <4> QED BY <4>1, ByIdIs
      <3> QED BY <3>1, <3>2
    <2> HIDE DEF found
    <2>2. /\ IsList(parent(rule, a))
          /\ ToSet(parent(rule, a)) = {b \in ToSet(t) : b.id # a.id}
      BY <2>1, OthersAre
    <2>3. Parents(rule, a) = {b \in W : b.id # a.id} OBVIOUS
    <2> HIDE DEF parent, W, Parents
    <2> QED BY <2>1, <2>2, <2>3
  <1> HIDE DEF parent
  <1>4. ASSUME NEW rule, NEW a \in S
        PROVE  IsList(h(rule, a) \o <<>>) /\ ToSet(h(rule, a) \o <<>>) = Up(rule, a)
    <2> DEFINE t == parent(rule, a)
               F == [b \in S |-> Made(a, b)]
               m == h(rule, a)
    <2>1. IsList(t) /\ ToSet(t) = Parents(rule, a) BY <1>3
    <2>2. m = [k \in DOMAIN t |-> m[k]] OBVIOUS
    <2>3. \A k \in DOMAIN t : m[k] = F[t[k]]
      <3>1. \A k \in DOMAIN t : t[k] \in S BY <2>1 DEF ToSet
      <3> HIDE DEF Made
      <3> QED BY <3>1
    <2> HIDE DEF t, m
    <2>4. IsList(m \o <<>>) /\ ToSet(m \o <<>>) = {F[b] : b \in ToSet(t)}
      <3>1. IsList(t) BY <2>1
      <3> HIDE DEF F
      <3>2. Makes(m \o <<>>, t, F) BY <3>1, <2>2, <2>3, MapOver
      <3> QED BY <3>2 DEF Makes
    <2>5. {F[b] : b \in ToSet(t)} = Up(rule, a)
      <3> HIDE DEF Made
      <3> QED BY <2>1
    <2> QED BY <2>4, <2>5 DEF m
  <1> HIDE DEF h, Up, Made
  <1>5. ASSUME NEW rule \in ToSet(rules)
        PROVE  IsList(FlattenSeq(g(rule) \o <<>>)) /\ ToSet(FlattenSeq(g(rule) \o <<>>)) = G[rule]
    <2> DEFINE r == of(rule)
               m == g(rule)
               F == [a \in S |-> Up(rule, a)]
    <2>1. IsList(r) /\ ToSet(r) = {b \in S : b.type = rule[1]} BY ByTypeIs
    <2>2. m = [j \in DOMAIN r |-> m[j]] OBVIOUS
    <2>3. \A j \in DOMAIN r : IsList(m[j]) /\ ToSet(m[j]) = F[r[j]]
      <3>1. \A j \in DOMAIN r : r[j] \in S BY <2>1 DEF ToSet
      <3> QED BY <3>1, <1>4
    <2>4. /\ IsList(FlattenSeq(m \o <<>>))
          /\ ToSet(FlattenSeq(m \o <<>>)) = UNION {F[a] : a \in ToSet(r)}
      <3> HIDE DEF r, m, F
      <3> QED BY <2>1, <2>2, <2>3, EachOver
    <2>5. UNION {F[a] : a \in ToSet(r)} = G[rule]
      <3> HIDE DEF r, rules
      <3> QED BY <2>1
    <2> QED BY <2>4, <2>5
  <1>6. IsList(rules) BY SevenListed DEF ociContainmentRules
  <1>7. f = [i \in DOMAIN rules |-> f[i]] OBVIOUS
  <1>8. \A i \in DOMAIN rules : IsList(f[i]) /\ ToSet(f[i]) = G[rules[i]]
    <2>1. \A i \in DOMAIN rules : rules[i] \in ToSet(rules) BY DEF ToSet
    <2> HIDE DEF G, g, rules
    <2> QED BY <2>1, <1>5
  <1>9. /\ IsList(FlattenSeq(f \o <<>>))
        /\ ToSet(FlattenSeq(f \o <<>>)) = UNION {G[rule] : rule \in ToSet(rules)}
    <2> HIDE DEF f, G, rules
    <2> QED BY <1>6, <1>7, <1>8, EachOver
  <1>10. UNION {G[rule] : rule \in ToSet(rules)} = Linked("network-containment", S)
    <2> HIDE DEF S, rules
    <2>1. \A a, b \in S : Related("network-containment", a, b) <=>
            \E rule \in ToSet(rules) : a.type = rule[1] /\ b \in Parents(rule, a)
      BY DEF Related, rules
    <2> HIDE DEF Parents
    <2>2. ASSUME NEW e \in UNION {G[rule] : rule \in ToSet(rules)}
          PROVE  \E a, b \in S : /\ Related("network-containment", a, b)
                                 /\ e = EdgeOf("network-containment", a, b)
      <3>1. PICK rule \in ToSet(rules), a \in S : a.type = rule[1] /\ e \in Up(rule, a) OBVIOUS
      <3>2. PICK b \in Parents(rule, a) : e = Made(a, b) BY <3>1 DEF Up
      <3>3. b \in S BY <3>2 DEF Parents
      <3> QED BY <3>1, <3>2, <3>3, <2>1, <1>2
    <2>3. ASSUME NEW a \in S, NEW b \in S, Related("network-containment", a, b)
          PROVE  EdgeOf("network-containment", a, b) \in UNION {G[rule] : rule \in ToSet(rules)}
      <3>1. PICK rule \in ToSet(rules) : a.type = rule[1] /\ b \in Parents(rule, a) BY <2>1, <2>3
      <3>2. Made(a, b) \in Up(rule, a) BY <3>1 DEF Up
      <3>3. Made(a, b) \in G[rule] BY <3>1, <3>2
      <3> HIDE DEF G
      <3> QED BY <3>3, <1>2
    <2> HIDE DEF G
    <2> QED BY <2>2, <2>3, LinkedIs
  <1> QED BY <1>1, <1>9, <1>10

-----------------------------------------------------------------------------
(* The resolvers that lead through a rule.                                 *)

\* The edges that lead from X through the rule to Y, when there are both.
Via(rule, X, Y, kind, port) ==
  IF X = {} \/ Y = {} THEN {}
  ELSE {Edge(a, rule, kind, "", port, "exact") : a \in {b \in X : b.id # rule.id}}
         \cup {Edge(rule, a, kind, "", port, "exact") : a \in {b \in Y : b.id # rule.id}}

\* throughRule makes the edges through the rule.
LEMMA ViaIs ==
  ASSUME NEW rule, NEW x, NEW y, IsList(x), IsList(y), NEW kind, NEW port
  PROVE  LET t == throughRule(rule, x, y, kind, port)
         IN IsList(t) /\ ToSet(t) = Via(rule, ToSet(x), ToSet(y), kind, port)
  <1> DEFINE Other(s) == At(s, {i \in DOMAIN s : s[i].id # rule.id})
             p == Other(x)
             q == Other(y)
             f == [i \in DOMAIN p |-> Edge(p[i], rule, kind, "", port, "exact")]
             g == [i \in DOMAIN q |-> Edge(rule, q[i], kind, "", port, "exact")]
             In == [a \in ToSet(x) |-> Edge(a, rule, kind, "", port, "exact")]
             Out == [a \in ToSet(y) |-> Edge(rule, a, kind, "", port, "exact")]
             Ins == {Edge(a, rule, kind, "", port, "exact") : a \in {b \in ToSet(x) : b.id # rule.id}}
             Outs == {Edge(rule, a, kind, "", port, "exact") : a \in {b \in ToSet(y) : b.id # rule.id}}
  <1>1. throughRule(rule, x, y, kind, port)
          = IF x = <<>> \/ y = <<>> THEN <<>> ELSE (f \o <<>>) \o (g \o <<>>)
    BY Zenon DEF throughRule, Map, Filter
  <1>2. IsList(p) /\ ToSet(p) = {b \in ToSet(x) : b.id # rule.id} BY OthersAre
  <1>3. IsList(q) /\ ToSet(q) = {b \in ToSet(y) : b.id # rule.id} BY OthersAre
  <1> HIDE DEF p, q
  <1>4. IsList(f \o <<>>) /\ ToSet(f \o <<>>) = Ins
    <2>1. \A i \in DOMAIN p : p[i] \in ToSet(x) BY <1>2 DEF ToSet
    <2>2. f = [i \in DOMAIN p |-> f[i]] /\ \A i \in DOMAIN p : f[i] = In[p[i]] BY <2>1
    <2>3. Makes(f \o <<>>, p, In)
      <3> HIDE DEF f, In
      <3> QED BY <1>2, <2>2, MapOver
    <2>4. {In[a] : a \in ToSet(p)} = Ins BY <1>2
    <2> HIDE DEF f, In, Ins
    <2> QED BY <2>3, <2>4 DEF Makes
  <1>5. IsList(g \o <<>>) /\ ToSet(g \o <<>>) = Outs
    <2>1. \A i \in DOMAIN q : q[i] \in ToSet(y) BY <1>3 DEF ToSet
    <2>2. g = [i \in DOMAIN q |-> g[i]] /\ \A i \in DOMAIN q : g[i] = Out[q[i]] BY <2>1
    <2>3. Makes(g \o <<>>, q, Out)
      <3> HIDE DEF g, Out
      <3> QED BY <1>3, <2>2, MapOver
    <2>4. {Out[a] : a \in ToSet(q)} = Outs BY <1>3
    <2> HIDE DEF g, Out, Outs
    <2> QED BY <2>3, <2>4 DEF Makes
  <1>6. (x = <<>> <=> ToSet(x) = {}) /\ (y = <<>> <=> ToSet(y) = {}) BY NoneListed
  <1>7. Via(rule, ToSet(x), ToSet(y), kind, port)
          = IF ToSet(x) = {} \/ ToSet(y) = {} THEN {} ELSE Ins \cup Outs
    BY DEF Via
  <1> HIDE DEF f, g, Ins, Outs
  <1>8. CASE x = <<>> \/ y = <<>>
    <2>1. ToSet(<<>>) = {} BY DEF ToSet
    <2> QED BY <1>1, <1>6, <1>7, <1>8, <2>1, NoElement
  <1>9. CASE ~(x = <<>> \/ y = <<>>)
    <2> DEFINE u == f \o <<>>
               v == g \o <<>>
    <2>1. IsList(u) /\ IsList(v) /\ ToSet(u) = Ins /\ ToSet(v) = Outs BY <1>4, <1>5
    <2>2. throughRule(rule, x, y, kind, port) = u \o v BY <1>1, <1>9
    <2> HIDE DEF u, v
    <2>3. IsList(u \o v) /\ ToSet(u \o v) = ToSet(u) \cup ToSet(v) BY <2>1, Together
    <2> QED BY <2>1, <2>2, <2>3, <1>6, <1>7, <1>9
  <1> QED BY <1>8, <1>9

\* The edges through twin rules between twins are the same.
LEMMA ViaTwins ==
  ASSUME NEW r, NEW q, Twin(r, q), NEW X, NEW Y, NEW V, NEW W, Twins(X, V), Twins(Y, W),
         NEW kind, NEW port
  PROVE  Via(r, X, Y, kind, port) = Via(q, V, W, kind, port)
  <1>1. r.id = q.id /\ AsRef(r) = AsRef(q) BY TwinIs
  <1>2. (X = {} <=> V = {}) /\ (Y = {} <=> W = {}) BY DEF Twins
  <1>3. \A a, b : Twin(a, b) => a.id = b.id /\ AsRef(a) = AsRef(b) BY TwinIs
  <1> DEFINE In(a) == Edge(a, r, kind, "", port, "exact")
             Out(a) == Edge(r, a, kind, "", port, "exact")
             In2(a) == Edge(a, q, kind, "", port, "exact")
             Out2(a) == Edge(q, a, kind, "", port, "exact")
  <1>4. \A a, b : AsRef(a) = AsRef(b) => In(a) = In2(b) /\ Out(a) = Out2(b) BY <1>1 DEF Edge
  <1> HIDE DEF In, Out, In2, Out2
  <1>5. {In(a) : a \in {b \in X : b.id # r.id}} = {In2(a) : a \in {b \in V : b.id # q.id}}
    BY <1>1, <1>3, <1>4 DEF Twins
  <1>6. {Out(a) : a \in {b \in Y : b.id # r.id}} = {Out2(a) : a \in {b \in W : b.id # q.id}}
    BY <1>1, <1>3, <1>4 DEF Twins
  <1>7. Via(r, X, Y, kind, port) =
          IF X = {} \/ Y = {} THEN {} ELSE {In(a) : a \in {b \in X : b.id # r.id}}
                                             \cup {Out(a) : a \in {b \in Y : b.id # r.id}}
    BY DEF Via, In, Out
  <1>8. Via(q, V, W, kind, port) =
          IF V = {} \/ W = {} THEN {} ELSE {In2(a) : a \in {b \in V : b.id # q.id}}
                                             \cup {Out2(a) : a \in {b \in W : b.id # q.id}}
    BY DEF Via, In2, Out2
  <1> QED BY <1>2, <1>5, <1>6, <1>7, <1>8

\* What is picked of twins for what twins share are twins.
LEMMA TwinsPicked ==
  ASSUME NEW S, NEW T, Twins(S, T), NEW P, NEW Q, P \subseteq S, Q \subseteq T,
         \A a \in S, b \in T : Twin(a, b) => (a \in P <=> b \in Q)
  PROVE  Twins(P, Q)
  BY DEF Twins

\* Of twins both are empty or none.
LEMMA TwinsEmpty ==
  ASSUME NEW S, NEW T, Twins(S, T)
  PROVE  S = {} <=> T = {}
  BY DEF Twins

Grouped(S, type, key, group) == {a \in S : a.type = type /\ group \in ToSet(TagList(a, key))}

\* All members of a group are found.
LEMMA MembersAre ==
  ASSUME NEW s, IsList(s), NEW type, NEW key, NEW group
  PROVE  /\ IsList(Members(s, type, key, group))
         /\ ToSet(Members(s, type, key, group)) = Grouped(ToSet(s), type, key, group)
  <1> DEFINE of == ByType(s, type)
             I == {i \in DOMAIN of : group \in ToSet(TagList(of[i], key))}
             P == {a \in ToSet(of) : group \in ToSet(TagList(a, key))}
  <1>1. Members(s, type, key, group) = At(of, I) BY DEF Members, Filter
  <1>2. IsList(of) /\ ToSet(of) = {a \in ToSet(s) : a.type = type} BY ByTypeIs
  <1>3. (\A i \in DOMAIN of : i \in I <=> of[i] \in P) /\ P = ToSet(of) \cap P
    BY DEF ToSet
  <1>4. IsList(At(of, I)) /\ ToSet(At(of, I)) = P
    <2> HIDE DEF I, P, of
    <2> QED BY <1>2, <1>3, PickedAre
  <1>5. P = Grouped(ToSet(s), type, key, group)
    <2> HIDE DEF of
    <2> QED BY <1>2 DEF Grouped
  <1> QED BY <1>1, <1>4, <1>5

\* The members of a group among twins are twins.
LEMMA GroupedTwins ==
  ASSUME NEW S, NEW T, Twins(S, T), NEW type, NEW key, NEW group
  PROVE  Twins(Grouped(S, type, key, group), Grouped(T, type, key, group))
  <1> DEFINE P == Grouped(S, type, key, group)
             Q == Grouped(T, type, key, group)
  <1>1. P \subseteq S /\ Q \subseteq T BY DEF Grouped
  <1>2. \A a, b : Twin(a, b) => a.type = b.type /\ TagList(a, key) = TagList(b, key) BY TwinIs
  <1>3. \A a \in S, b \in T : Twin(a, b) => (a \in P <=> b \in Q) BY <1>2 DEF Grouped
  <1> HIDE DEF P, Q
  <1>4. Twins(P, Q) BY <1>1, <1>3, TwinsPicked
  <1> QED BY <1>4 DEF P, Q

\* The peers of a group, or what has its id.
Expansion(S, gid) ==
  LET peers == Grouped(S, "netbird.peer", "group_ids", gid)
  IN IF peers # {} THEN peers ELSE {a \in S : a.id = gid}
Expanded(S, gids) == UNION {Expansion(S, gid) : gid \in gids}

\* What groups are expanded to among twins are twins.
LEMMA ExpandedTwins ==
  ASSUME NEW S, NEW T, Twins(S, T), NEW gids
  PROVE  Twins(Expanded(S, gids), Expanded(T, gids))
  <1>1. ASSUME NEW gid PROVE Twins(Expansion(S, gid), Expansion(T, gid))
    <2> DEFINE P == Grouped(S, "netbird.peer", "group_ids", gid)
               Q == Grouped(T, "netbird.peer", "group_ids", gid)
               V == {a \in S : a.id = gid}
               W == {a \in T : a.id = gid}
    <2>1. Twins(P, Q) BY GroupedTwins
    <2>2. \A a, b : Twin(a, b) => a.id = b.id BY TwinIs
    <2>3. V \subseteq S /\ W \subseteq T /\ \A a \in S, b \in T : Twin(a, b) => (a \in V <=> b \in W)
      BY <2>2
    <2>4. /\ Expansion(S, gid) = IF P # {} THEN P ELSE V
          /\ Expansion(T, gid) = IF Q # {} THEN Q ELSE W
      BY DEF Expansion
    <2> HIDE DEF P, Q, V, W
    <2>5. Twins(V, W) BY <2>3, TwinsPicked
    <2>6. P = {} <=> Q = {} BY <2>1, TwinsEmpty
    <2> QED BY <2>1, <2>4, <2>5, <2>6
  <1> DEFINE F == [gid \in gids |-> Expansion(S, gid)]
             G == [gid \in gids |-> Expansion(T, gid)]
  <1>2. \A gid \in gids : Twins(F[gid], G[gid]) BY <1>1
  <1>3. /\ Expanded(S, gids) = UNION {F[gid] : gid \in gids}
        /\ Expanded(T, gids) = UNION {G[gid] : gid \in gids}
    BY DEF Expanded
  <1>4. Twins(UNION {F[gid] : gid \in gids}, UNION {G[gid] : gid \in gids})
    <2> HIDE DEF F, G
    <2> QED BY <1>2 DEF Twins
  <1> QED BY <1>3, <1>4

\* Groups are expanded to their members, or to what has their id.
LEMMA GroupsAre ==
  ASSUME NEW s, IsList(s), Sole(ToSet(s)), NEW gids, IsList(gids)
  PROVE  /\ IsList(expandGroups(s, gids))
         /\ ToSet(expandGroups(s, gids)) = Expanded(ToSet(s), ToSet(gids))
  <1> DEFINE S == ToSet(s)
             members(gid) == Members(s, "netbird.peer", "group_ids", gid)
             one(gid) == IF members(gid) # <<>> THEN members(gid) ELSE ById(s, gid)
             g == [i \in DOMAIN gids |-> one(gids[i])]
             G == [gid \in ToSet(gids) |-> Expansion(S, gid)]
  <1>1. expandGroups(s, gids) = FlattenSeq(g \o <<>>) BY Zenon DEF expandGroups, Each, Map
  <1>2. ASSUME NEW gid PROVE IsList(one(gid)) /\ ToSet(one(gid)) = Expansion(S, gid)
    <2> DEFINE P == Grouped(S, "netbird.peer", "group_ids", gid)
               m == members(gid)
               q == ById(s, gid)
               Q == {a \in S : a.id = gid}
    <2>1. IsList(m) /\ ToSet(m) = P BY MembersAre
    <2>2. IsList(q) /\ ToSet(q) = Q BY ByIdIs
    <2>3. one(gid) = IF m # <<>> THEN m ELSE q OBVIOUS
    <2>4. Expansion(S, gid) = IF P # {} THEN P ELSE Q BY DEF Expansion
    <2> HIDE DEF m, q, P, Q, one
    <2>5. m = <<>> <=> ToSet(m) = {} BY <2>1, NoneListed
    <2> QED BY <2>1, <2>2, <2>3, <2>4, <2>5
  <1> HIDE DEF one
  <1>3. g = [i \in DOMAIN gids |-> g[i]] OBVIOUS
  <1>4. \A i \in DOMAIN gids : IsList(g[i]) /\ ToSet(g[i]) = G[gids[i]]
    <2>1. \A i \in DOMAIN gids : gids[i] \in ToSet(gids) BY DEF ToSet
    <2> QED BY <2>1, <1>2
  <1>5. /\ IsList(FlattenSeq(g \o <<>>))
        /\ ToSet(FlattenSeq(g \o <<>>)) = UNION {G[gid] : gid \in ToSet(gids)}
    <2> HIDE DEF g, G
    <2> QED BY <1>3, <1>4, EachOver
  <1>6. UNION {G[gid] : gid \in ToSet(gids)} = Expanded(S, ToSet(gids)) BY DEF Expanded
  <1> QED BY <1>1, <1>5, <1>6

\* The edges of a NetBird rule.
Policed(S, rule) ==
  LET X == Expanded(S, ToSet(TagList(rule, "sources")))
      Y == Expanded(S, ToSet(TagList(rule, "destinations")))
      kind == TrafficEdgeKind(Tag(rule, "action"))
      port == singlePort(TagList(rule, "ports"))
  IN Via(rule, X, Y, kind, port)
       \cup IF Tag(rule, "bidirectional") = "true" THEN Via(rule, Y, X, kind, port) ELSE {}

\* Twin NetBird rules among twins make the same edges.
LEMMA PolicedTwins ==
  ASSUME NEW S, NEW T, Twins(S, T), NEW r, NEW q, Twin(r, q)
  PROVE  Policed(S, r) = Policed(T, q)
  <1> DEFINE X == Expanded(S, ToSet(TagList(r, "sources")))
             Y == Expanded(S, ToSet(TagList(r, "destinations")))
             V == Expanded(T, ToSet(TagList(r, "sources")))
             W == Expanded(T, ToSet(TagList(r, "destinations")))
             kind == TrafficEdgeKind(Tag(r, "action"))
             port == singlePort(TagList(r, "ports"))
  <1>1. Twins(X, V) /\ Twins(Y, W) BY ExpandedTwins
  <1>2. \A key : Tag(r, key) = Tag(q, key) /\ TagList(r, key) = TagList(q, key) BY TwinIs
  <1>3. Policed(S, r) = Via(r, X, Y, kind, port)
          \cup IF Tag(r, "bidirectional") = "true" THEN Via(r, Y, X, kind, port) ELSE {}
    BY DEF Policed
  <1>4. Policed(T, q) = Via(q, V, W, kind, port)
          \cup IF Tag(r, "bidirectional") = "true" THEN Via(q, W, V, kind, port) ELSE {}
    BY <1>2 DEF Policed
  <1> HIDE DEF X, Y, V, W, kind, port
  <1>5. Via(r, X, Y, kind, port) = Via(q, V, W, kind, port) BY <1>1, ViaTwins
  <1>6. Via(r, Y, X, kind, port) = Via(q, W, V, kind, port) BY <1>1, ViaTwins
  <1> QED BY <1>3, <1>4, <1>5, <1>6

\* The edges of the NetBird rules are those through each of them.
LEMMA NetbirdIs ==
  ASSUME NEW s, IsList(s), Sole(ToSet(s)), \A a \in ToSet(s) : IsReadable(a)
  PROVE  /\ IsList(netbirdPolicyFlow(s))
         /\ ToSet(netbirdPolicyFlow(s))
              = UNION {Policed(ToSet(s), r) : r \in {a \in ToSet(s) : a.type = "netbird.policy_rule"}}
  <1> DEFINE S == ToSet(s)
             rules == ByType(s, "netbird.policy_rule")
             srcs(rule) == expandGroups(s, TagList(rule, "sources"))
             dsts(rule) == expandGroups(s, TagList(rule, "destinations"))
             Flow(rule, x, y) == throughRule(rule, x, y, TrafficEdgeKind(Tag(rule, "action")),
                                             singlePort(TagList(rule, "ports")))
             one(rule) == Flow(rule, srcs(rule), dsts(rule))
                            \o IF Tag(rule, "bidirectional") = "true"
                               THEN Flow(rule, dsts(rule), srcs(rule)) ELSE <<>>
             g == [i \in DOMAIN rules |-> one(rules[i])]
             G == [r \in ToSet(rules) |-> Policed(S, r)]
  <1>1. netbirdPolicyFlow(s) = FlattenSeq(g \o <<>>) BY Zenon DEF netbirdPolicyFlow, Each, Map
  <1>2. IsList(rules) /\ ToSet(rules) = {a \in S : a.type = "netbird.policy_rule"} BY ByTypeIs
  <1>3. ASSUME NEW r \in ToSet(rules) PROVE IsList(one(r)) /\ ToSet(one(r)) = Policed(S, r)
    <2>1. r \in S /\ r.type = "netbird.policy_rule" BY <1>2
    <2>2. IsReadable(r) BY <2>1
    <2>3. IsList(TagList(r, "sources")) /\ IsList(TagList(r, "destinations"))
      BY <2>1, <2>2 DEF IsReadable
    <2> DEFINE x == srcs(r)
               y == dsts(r)
               X == Expanded(S, ToSet(TagList(r, "sources")))
               Y == Expanded(S, ToSet(TagList(r, "destinations")))
               kind == TrafficEdgeKind(Tag(r, "action"))
               port == singlePort(TagList(r, "ports"))
               u == throughRule(r, x, y, kind, port)
               v == throughRule(r, y, x, kind, port)
               w == IF Tag(r, "bidirectional") = "true" THEN v ELSE <<>>
    <2>4. IsList(x) /\ ToSet(x) = X BY <2>3, GroupsAre
    <2>5. IsList(y) /\ ToSet(y) = Y BY <2>3, GroupsAre
    <2>6. one(r) = u \o w OBVIOUS
    <2>7. Policed(S, r) = Via(r, X, Y, kind, port)
            \cup IF Tag(r, "bidirectional") = "true" THEN Via(r, Y, X, kind, port) ELSE {}
      BY DEF Policed
    <2> HIDE DEF x, y, X, Y, kind, port, one
    <2>8. /\ IsList(u) /\ ToSet(u) = Via(r, X, Y, kind, port)
          /\ IsList(v) /\ ToSet(v) = Via(r, Y, X, kind, port)
      BY <2>4, <2>5, ViaIs
    <2>9. ToSet(<<>>) = {} /\ IsList(<<>>) BY NoElement DEF ToSet
    <2> HIDE DEF u, v
    <2>10. IsList(w) /\ ToSet(w) = IF Tag(r, "bidirectional") = "true" THEN Via(r, Y, X, kind, port) ELSE {}
      BY <2>8, <2>9
    <2> HIDE DEF w
    <2>11. IsList(u \o w) /\ ToSet(u \o w) = ToSet(u) \cup ToSet(w) BY <2>8, <2>10, Together
    <2> QED BY <2>6, <2>7, <2>8, <2>10, <2>11
  <1> HIDE DEF one
  <1>4. g = [i \in DOMAIN rules |-> g[i]] OBVIOUS
  <1>5. \A i \in DOMAIN rules : IsList(g[i]) /\ ToSet(g[i]) = G[rules[i]]
    <2>1. \A i \in DOMAIN rules : rules[i] \in ToSet(rules) BY DEF ToSet
    <2> HIDE DEF rules
    <2> QED BY <2>1, <1>3
  <1>6. /\ IsList(FlattenSeq(g \o <<>>))
        /\ ToSet(FlattenSeq(g \o <<>>)) = UNION {G[r] : r \in ToSet(rules)}
    <2> HIDE DEF g, G, rules
    <2> QED BY <1>2, <1>4, <1>5, EachOver
  <1>7. UNION {G[r] : r \in ToSet(rules)} = UNION {Policed(S, r) : r \in ToSet(rules)} OBVIOUS
  <1> HIDE DEF rules, g, G
  <1> QED BY <1>1, <1>2, <1>6, <1>7

\* Edges between rules of one type and what is not of it.
LEMMA RulesKeyed ==
  ASSUME NEW S, Sole(S), NEW type, NEW k, NEW p, NEW E,
         \A e \in E : \E r, o \in S :
           /\ r.type = type /\ o.type # type
           /\ e \in {Edge(o, r, k[r], "", p[r], "exact"), Edge(r, o, k[r], "", p[r], "exact")}
  PROVE  Keyed(E)
  <1>1. ASSUME NEW e \in E, NEW f \in E, edgeKey(e) = edgeKey(f) PROVE e = f
    <2>1. PICK r \in S, o \in S :
             /\ r.type = type /\ o.type # type
             /\ e \in {Edge(o, r, k[r], "", p[r], "exact"), Edge(r, o, k[r], "", p[r], "exact")}
      OBVIOUS
    <2>2. PICK q \in S, u \in S :
             /\ q.type = type /\ u.type # type
             /\ f \in {Edge(u, q, k[q], "", p[q], "exact"), Edge(q, u, k[q], "", p[q], "exact")}
      OBVIOUS
    <2>3. refKey(e.from) = refKey(f.from) /\ refKey(e.to) = refKey(f.to) BY <1>1 DEF edgeKey
    <2>4. \A a, b : refKey(AsRef(a)) = refKey(AsRef(b)) => a.id = b.id BY DEF refKey, AsRef
    <2>6. \A a, b \in S : refKey(AsRef(a)) = refKey(AsRef(b)) => a = b BY <2>4 DEF Sole
    <2> DEFINE InE == Edge(o, r, k[r], "", p[r], "exact")
               OutE == Edge(r, o, k[r], "", p[r], "exact")
               InF == Edge(u, q, k[q], "", p[q], "exact")
               OutF == Edge(q, u, k[q], "", p[q], "exact")
    <2>7. /\ InE.from = AsRef(o) /\ InE.to = AsRef(r) /\ OutE.from = AsRef(r) /\ OutE.to = AsRef(o)
          /\ InF.from = AsRef(u) /\ InF.to = AsRef(q) /\ OutF.from = AsRef(q) /\ OutF.to = AsRef(u)
      BY DEF Edge
    <2>8. r = q /\ o = u => InE = InF /\ OutE = OutF OBVIOUS
    <2>9. e \in {InE, OutE} /\ f \in {InF, OutF} BY <2>1, <2>2
    <2> HIDE DEF InE, OutE, InF, OutF
    <2>10. CASE e = InE /\ f = InF BY <2>3, <2>6, <2>7, <2>8, <2>10
    <2>11. CASE e = OutE /\ f = OutF BY <2>3, <2>6, <2>7, <2>8, <2>11
    <2>12. CASE e = InE /\ f = OutF BY <2>1, <2>2, <2>3, <2>6, <2>7, <2>12
    <2>13. CASE e = OutE /\ f = InF BY <2>1, <2>2, <2>3, <2>6, <2>7, <2>13
    <2> QED BY <2>9, <2>10, <2>11, <2>12, <2>13
  <1> QED BY <1>1 DEF Keyed

\* The assets of an estate without ambiguous look-ups.
Clear(S) ==
  /\ Unambiguous(S)
  /\ \A a \in S : IsReadable(a) /\ (a.type = "tailscale.acl_rule" => a.provider = "tailscale")

\* What a clear estate is free of.
LEMMA ClearIs ==
  ASSUME NEW S, Clear(S)
  PROVE  Sole(S) /\ Unambiguous(S) /\ \A a \in S : IsReadable(a)
  <1>1. Sole(S) BY Zenon DEF Clear, Unambiguous, Sole
  <1> QED BY <1>1 DEF Clear

\* What the edges of a rule join.
LEMMA ViaJoins ==
  ASSUME NEW r, NEW X, NEW Y, NEW kind, NEW port, NEW e \in Via(r, X, Y, kind, port)
  PROVE  \E o \in X \cup Y : e \in {Edge(o, r, kind, "", port, "exact"), Edge(r, o, kind, "", port, "exact")}
  BY Zenon DEF Via

\* No two edges of NetBird rules have one key: a rule names no rule.
LEMMA NetbirdKeyed ==
  ASSUME NEW S, Clear(S)
  PROVE  Keyed(UNION {Policed(S, r) : r \in {a \in S : a.type = "netbird.policy_rule"}})
  <1> DEFINE R == {a \in S : a.type = "netbird.policy_rule"}
             k == [r \in S |-> TrafficEdgeKind(Tag(r, "action"))]
             p == [r \in S |-> singlePort(TagList(r, "ports"))]
             E == UNION {Policed(S, r) : r \in R}
             Groups(r) == ToSet(TagList(r, "sources")) \cup ToSet(TagList(r, "destinations"))
  <1>1. \A r, o \in S : r.type = "netbird.policy_rule" /\ o.type = "netbird.policy_rule" => o.id \notin Groups(r)
    <2>1. Unambiguous(S) BY ClearIs
    <2> QED BY <2>1, Zenon DEF Unambiguous
  <1>2. ASSUME NEW r \in R, NEW gids, gids \subseteq Groups(r), NEW o \in Expanded(S, gids)
        PROVE  o \in S /\ o.type # "netbird.policy_rule"
    <2>1. PICK gid \in gids : o \in Expansion(S, gid) BY <1>2 DEF Expanded
    <2>2. o \in S /\ (o.type = "netbird.peer" \/ o.id = gid) BY <2>1 DEF Expansion, Grouped
    <2>3. r \in S /\ r.type = "netbird.policy_rule" /\ gid \in Groups(r) BY <1>2, <2>1
    <2> HIDE DEF Groups, R
    <2> QED BY <2>2, <2>3, <1>1
  <1>3. ASSUME NEW e \in E
        PROVE  \E r, o \in S :
                 /\ r.type = "netbird.policy_rule" /\ o.type # "netbird.policy_rule"
                 /\ e \in {Edge(o, r, k[r], "", p[r], "exact"), Edge(r, o, k[r], "", p[r], "exact")}
    <2>1. PICK r \in R : e \in Policed(S, r) OBVIOUS
    <2> DEFINE G == ToSet(TagList(r, "sources"))
               H == ToSet(TagList(r, "destinations"))
               X == Expanded(S, G)
               Y == Expanded(S, H)
               kind == TrafficEdgeKind(Tag(r, "action"))
               port == singlePort(TagList(r, "ports"))
    <2>2. G \subseteq Groups(r) /\ H \subseteq Groups(r) OBVIOUS
    <2>3. e \in Via(r, X, Y, kind, port) \/ e \in Via(r, Y, X, kind, port)
      BY <2>1 DEF Policed
    <2>4. r \in S /\ r.type = "netbird.policy_rule" /\ k[r] = kind /\ p[r] = port BY <2>1
    <2> HIDE DEF Groups, G, H, kind, port, k, p, R
    <2>5. \A o \in X \cup Y : o \in S /\ o.type # "netbird.policy_rule" BY <1>2, <2>2
    <2> HIDE DEF X, Y
    <2>6. \E o \in X \cup Y : e \in {Edge(o, r, kind, "", port, "exact"), Edge(r, o, kind, "", port, "exact")}
      BY <2>3, ViaJoins
    <2> QED BY <2>4, <2>5, <2>6
  <1> HIDE DEF E, k, p
  <1>4. Keyed(E) BY <1>3, ClearIs, RulesKeyed
  <1> QED BY <1>4 DEF E

\* The edges of the NetBird rules are alike for twins.
LEMMA NetbirdAlike ==
  ASSUME NEW s, NEW t, IsList(s), IsList(t), Clear(ToSet(s)), Clear(ToSet(t)),
         Twins(ToSet(s), ToSet(t))
  PROVE  Alike(netbirdPolicyFlow(s), netbirdPolicyFlow(t))
  <1> DEFINE S == ToSet(s)
             T == ToSet(t)
             R == {a \in S : a.type = "netbird.policy_rule"}
             Q == {a \in T : a.type = "netbird.policy_rule"}
  <1>1. IsList(netbirdPolicyFlow(s)) /\ ToSet(netbirdPolicyFlow(s)) = UNION {Policed(S, r) : r \in R}
    BY ClearIs, NetbirdIs
  <1>2. IsList(netbirdPolicyFlow(t)) /\ ToSet(netbirdPolicyFlow(t)) = UNION {Policed(T, r) : r \in Q}
    BY ClearIs, NetbirdIs
  <1>3. Keyed(UNION {Policed(S, r) : r \in R}) BY NetbirdKeyed
  <1>4. \A r, q : Twin(r, q) => Policed(S, r) = Policed(T, q) /\ r.type = q.type
    BY PolicedTwins, TwinIs
  <1>5. UNION {Policed(S, r) : r \in R} = UNION {Policed(T, r) : r \in Q}
    <2> HIDE DEF S, T
    <2> QED BY <1>4 DEF Twins, S, T
  <1> HIDE DEF S, T, R, Q
  <1> QED BY <1>1, <1>2, <1>3, <1>5, KeyedAlike

\* What is of a type and has a name.
Called(S, type, name) == {a \in S : a.type = type /\ a.name = name}

\* All assets with a type and a name are found.
LEMMA NamedAre ==
  ASSUME NEW s, IsList(s), NEW type, NEW name
  PROVE  IsList(NamedOfType(s, type, name)) /\ ToSet(NamedOfType(s, type, name)) = Called(ToSet(s), type, name)
  <1> DEFINE of == ByType(s, type)
             I == {i \in DOMAIN of : of[i].name = name}
             P == {a \in ToSet(of) : a.name = name}
  <1>1. NamedOfType(s, type, name) = At(of, I) BY DEF NamedOfType, Filter
  <1>2. IsList(of) /\ ToSet(of) = {a \in ToSet(s) : a.type = type} BY ByTypeIs
  <1>3. (\A i \in DOMAIN of : i \in I <=> of[i] \in P) /\ P = ToSet(of) \cap P
    BY DEF ToSet
  <1>4. IsList(At(of, I)) /\ ToSet(At(of, I)) = P
    <2> HIDE DEF I, P, of
    <2> QED BY <1>2, <1>3, PickedAre
  <1>5. P = Called(ToSet(s), type, name)
    <2> HIDE DEF of
    <2> QED BY <1>2 DEF Called
  <1> QED BY <1>1, <1>4, <1>5

\* Users by login.
IsUser(a, base) ==
  /\ a.type = "tailscale.user" /\ Tag(a, "login_name") # ""
  /\ Mapped(LowerCase, Tag(a, "login_name")) = Mapped(LowerCase, base)
UserOf(s, base) == LastOf(At(s, {i \in DOMAIN s : IsUser(s[i], base)}))

\* The user with a login is found, where logins are not shared.
LEMMA UserIs ==
  ASSUME NEW s, IsList(s), Unambiguous(ToSet(s)), NEW base
  PROVE  IsList(UserOf(s, base)) /\ ToSet(UserOf(s, base)) = {a \in ToSet(s) : IsUser(a, base)}
  <1> DEFINE I == {i \in DOMAIN s : IsUser(s[i], base)}
             P == {a \in ToSet(s) : IsUser(a, base)}
             t == At(s, I)
  <1>1. (\A i \in DOMAIN s : i \in I <=> s[i] \in P) /\ P = ToSet(s) \cap P BY DEF ToSet
  <1>2. IsList(t) /\ ToSet(t) = P
    <2> HIDE DEF I, P
    <2> QED BY <1>1, PickedAre
  <1>3. \A x, y \in P : x = y
    <2>1. \A x, y \in P : /\ x \in ToSet(s) /\ y \in ToSet(s)
                          /\ x.type = "tailscale.user" /\ y.type = "tailscale.user"
                          /\ Tag(x, "login_name") # ""
                          /\ Mapped(LowerCase, Tag(x, "login_name")) = Mapped(LowerCase, Tag(y, "login_name"))
      BY DEF IsUser
    <2>2. \A x, y \in ToSet(s) :
            x.type = "tailscale.user" /\ y.type = "tailscale.user" /\ Tag(x, "login_name") # ""
              /\ Mapped(LowerCase, Tag(x, "login_name")) = Mapped(LowerCase, Tag(y, "login_name")) => x = y
      BY Zenon DEF Unambiguous
    <2> HIDE DEF P
    <2> QED BY <2>1, <2>2
  <1>4. \A x, y \in ToSet(t) : x = y
    <2> HIDE DEF t, P
    <2> QED BY <1>2, <1>3
  <1>5. IsList(LastOf(t)) /\ ToSet(LastOf(t)) = ToSet(t)
    <2> HIDE DEF t
    <2> QED BY <1>2, <1>4, LastIs
  <1> QED BY <1>2, <1>5 DEF UserOf

\* The first of two sets that holds something.
OrElse(X, Y) == IF X # {} THEN X ELSE Y

\* The first of two lists that holds something.
LEMMA OrElseIs ==
  ASSUME NEW x, NEW y, IsList(x), IsList(y)
  PROVE  LET t == IF x # <<>> THEN x ELSE y
         IN IsList(t) /\ ToSet(t) = OrElse(ToSet(x), ToSet(y))
  <1>1. x = <<>> <=> ToSet(x) = {} BY NoneListed
  <1> QED BY <1>1 DEF OrElse

\* What is found first among twins are twins.
LEMMA OrElseTwins ==
  ASSUME NEW X, NEW Y, NEW V, NEW W, Twins(X, V), Twins(Y, W)
  PROVE  Twins(OrElse(X, Y), OrElse(V, W))
  <1>1. X = {} <=> V = {} BY TwinsEmpty
  <1> QED BY <1>1 DEF OrElse

Answering(S, key) == {a \in S : Answers(a, key)}
Resolved(S, sel) ==
  LET base == sel.base
  IN CASE sel.form = "wildcard" -> {}
       [] sel.form = "tag" -> OrElse(Grouped(S, "tailscale.device", "acl_tags", base),
                                     Called(S, "tailscale.acl_tag", base))
       [] sel.form = "group" -> Called(S, "tailscale.acl_group", base)
       [] sel.form = "user" -> {a \in S : IsUser(a, base)}
       [] sel.form = "bare" -> OrElse(Called(S, "tailscale.acl_host", base),
                                      OrElse(Answering(S, normalizeHost(base)), Answering(S, base)))

\* A Tailscale selector is resolved to what it names.
LEMMA ResolvedIs ==
  ASSUME NEW s, IsList(s), Unambiguous(ToSet(s)), NEW sel, sel.form \in SelectorForms
  PROVE  LET t == resolveTailscaleSelector(s, sel)
         IN IsList(t) /\ ToSet(t) = Resolved(ToSet(s), sel)
  <1> DEFINE S == ToSet(s)
             base == sel.base
             devices == Members(s, "tailscale.device", "acl_tags", base)
             tags == NamedOfType(s, "tailscale.acl_tag", base)
             groups == NamedOfType(s, "tailscale.acl_group", base)
             hosts == NamedOfType(s, "tailscale.acl_host", base)
             named == ByAddress(s, normalizeHost(base))
             literal == ByAddress(s, base)
             t == resolveTailscaleSelector(s, sel)
  <1>1. /\ IsList(devices) /\ ToSet(devices) = Grouped(S, "tailscale.device", "acl_tags", base)
        /\ IsList(tags) /\ ToSet(tags) = Called(S, "tailscale.acl_tag", base)
        /\ IsList(groups) /\ ToSet(groups) = Called(S, "tailscale.acl_group", base)
        /\ IsList(hosts) /\ ToSet(hosts) = Called(S, "tailscale.acl_host", base)
    BY MembersAre, NamedAre
  <1>2. /\ IsList(named) /\ ToSet(named) = Answering(S, normalizeHost(base))
        /\ IsList(literal) /\ ToSet(literal) = Answering(S, base)
    BY ByAddressIs DEF Answering
  <1>3. t = CASE sel.form = "wildcard" -> <<>>
              [] sel.form = "tag" -> IF devices # <<>> THEN devices ELSE tags
              [] sel.form = "group" -> groups
              [] sel.form = "user" -> UserOf(s, base)
              [] sel.form = "bare" ->
                   IF hosts # <<>> THEN hosts ELSE IF named # <<>> THEN named ELSE literal
    BY Zenon DEF resolveTailscaleSelector, LastWith, Filter, LastOf, UserOf, IsUser
  <1> HIDE DEF base, devices, tags, groups, hosts, named, literal, t
  <1>4. sel.form \in {"wildcard", "tag", "group", "user", "bare"} BY DEF SelectorForms
  <1>5. IsList(t) /\ ToSet(t) = Resolved(S, sel)
    <2>1. CASE sel.form = "wildcard"
      <3>1. t = <<>> BY <1>3, <2>1
      <3>2. Resolved(S, sel) = {} BY <2>1 DEF Resolved
      <3>3. ToSet(<<>>) = {} BY DEF ToSet
      <3> QED BY <3>1, <3>2, <3>3, NoElement
    <2>2. CASE sel.form = "tag"
      <3>1. t = IF devices # <<>> THEN devices ELSE tags BY <1>3, <2>2
      <3>2. Resolved(S, sel) = OrElse(ToSet(devices), ToSet(tags)) BY <2>2, <1>1 DEF Resolved, base
      <3> QED BY <3>1, <3>2, <1>1, OrElseIs
    <2>3. CASE sel.form = "group"
      <3>1. t = groups BY <1>3, <2>3
      <3>2. Resolved(S, sel) = ToSet(groups) BY <2>3, <1>1 DEF Resolved, base
      <3> QED BY <3>1, <3>2, <1>1
    <2>4. CASE sel.form = "user"
      <3>1. t = UserOf(s, base) BY <1>3, <2>4
      <3>2. Resolved(S, sel) = {a \in S : IsUser(a, base)} BY <2>4 DEF Resolved, base
      <3> QED BY <3>1, <3>2, UserIs
    <2>5. CASE sel.form = "bare"
      <3> DEFINE u == IF named # <<>> THEN named ELSE literal
      <3>1. t = IF hosts # <<>> THEN hosts ELSE u BY <1>3, <2>5
      <3>2. Resolved(S, sel) = OrElse(ToSet(hosts), OrElse(ToSet(named), ToSet(literal)))
        BY <2>5, <1>1, <1>2 DEF Resolved, base
      <3>3. IsList(u) /\ ToSet(u) = OrElse(ToSet(named), ToSet(literal)) BY <1>2, OrElseIs
      <3> HIDE DEF u
      <3> QED BY <3>1, <3>2, <3>3, <1>1, OrElseIs
    <2> QED BY <1>4, <2>1, <2>2, <2>3, <2>4, <2>5
  <1> QED BY <1>5 DEF t

\* What a selector names among twins are twins.
LEMMA ResolvedTwins ==
  ASSUME NEW S, NEW T, Twins(S, T), NEW sel, sel.form \in SelectorForms
  PROVE  Twins(Resolved(S, sel), Resolved(T, sel))
  <1> DEFINE base == sel.base
  <1>0. \A a, b : Twin(a, b) =>
          /\ a.type = b.type /\ a.name = b.name /\ \A key : Tag(a, key) = Tag(b, key)
          /\ \A key : Answers(a, key) <=> Answers(b, key)
    BY TwinIs
  <1>1. Twins(Grouped(S, "tailscale.device", "acl_tags", base),
              Grouped(T, "tailscale.device", "acl_tags", base))
    BY GroupedTwins
  <1>2. ASSUME NEW type PROVE Twins(Called(S, type, base), Called(T, type, base))
    <2> DEFINE P == Called(S, type, base)
               Q == Called(T, type, base)
    <2>1. P \subseteq S /\ Q \subseteq T /\ \A a \in S, b \in T : Twin(a, b) => (a \in P <=> b \in Q)
      BY <1>0 DEF Called
    <2> HIDE DEF P, Q
    <2>2. Twins(P, Q) BY <2>1, TwinsPicked
    <2> QED BY <2>2 DEF P, Q
  <1>3. ASSUME NEW key PROVE Twins(Answering(S, key), Answering(T, key))
    <2> DEFINE P == Answering(S, key)
               Q == Answering(T, key)
    <2>1. P \subseteq S /\ Q \subseteq T /\ \A a \in S, b \in T : Twin(a, b) => (a \in P <=> b \in Q)
      BY <1>0 DEF Answering
    <2> HIDE DEF P, Q
    <2>2. Twins(P, Q) BY <2>1, TwinsPicked
    <2> QED BY <2>2 DEF P, Q
  <1>4. Twins({a \in S : IsUser(a, base)}, {a \in T : IsUser(a, base)})
    <2> DEFINE P == {a \in S : IsUser(a, base)}
               Q == {a \in T : IsUser(a, base)}
    <2>0. \A a, b : Twin(a, b) => (IsUser(a, base) <=> IsUser(b, base))
      <3> HIDE DEF base
      <3>1. ASSUME NEW a, NEW b, Twin(a, b) PROVE IsUser(a, base) <=> IsUser(b, base)
        <4>1. a.type = b.type /\ Tag(a, "login_name") = Tag(b, "login_name") BY <1>0, <3>1, Zenon
        <4>2. Mapped(LowerCase, Tag(a, "login_name")) = Mapped(LowerCase, Tag(b, "login_name"))
          BY <4>1
        <4> QED BY <4>1, <4>2 DEF IsUser
      <3> QED BY <3>1, Zenon
    <2>1. P \subseteq S /\ Q \subseteq T /\ \A a \in S, b \in T : Twin(a, b) => (a \in P <=> b \in Q)
      BY <2>0
    <2> HIDE DEF P, Q
    <2>2. Twins(P, Q) BY <2>1, TwinsPicked
    <2> QED BY <2>2 DEF P, Q
  <1>5. Twins({}, {}) BY DEF Twins
  <1>6. sel.form \in {"wildcard", "tag", "group", "user", "bare"} BY DEF SelectorForms
  <1>7. CASE sel.form = "wildcard"
    <2>1. Resolved(S, sel) = {} /\ Resolved(T, sel) = {} BY <1>7 DEF Resolved
    <2> QED BY <2>1, <1>5
  <1>8. CASE sel.form = "tag"
    <2>1. \A U : Resolved(U, sel) = OrElse(Grouped(U, "tailscale.device", "acl_tags", base),
                                           Called(U, "tailscale.acl_tag", base))
      BY <1>8 DEF Resolved
    <2> HIDE DEF base
    <2> QED BY <2>1, <1>1, <1>2, OrElseTwins
  <1>9. CASE sel.form = "group"
    <2>1. \A U : Resolved(U, sel) = Called(U, "tailscale.acl_group", base) BY <1>9 DEF Resolved
    <2> HIDE DEF base
    <2> QED BY <2>1, <1>2
  <1>10. CASE sel.form = "user"
    <2>1. \A U : Resolved(U, sel) = {a \in U : IsUser(a, base)} BY <1>10 DEF Resolved
    <2> HIDE DEF base
    <2> QED BY <2>1, <1>4
  <1>11. CASE sel.form = "bare"
    <2>1. \A U : Resolved(U, sel) = OrElse(Called(U, "tailscale.acl_host", base),
                                           OrElse(Answering(U, normalizeHost(base)), Answering(U, base)))
      BY <1>11 DEF Resolved
    <2> HIDE DEF base
    <2>2. Twins(OrElse(Answering(S, normalizeHost(base)), Answering(S, base)),
                OrElse(Answering(T, normalizeHost(base)), Answering(T, base)))
      BY <1>3, OrElseTwins
    <2> QED BY <2>1, <2>2, <1>2, OrElseTwins
  <1> QED BY <1>6, <1>7, <1>8, <1>9, <1>10, <1>11

\* What any of the selectors names.
Selected(S, sels) == UNION {Resolved(S, sel) : sel \in sels}

\* The edges of a Tailscale rule.
Admitted(S, rule) ==
  Via(rule, Selected(S, ToSet(TagList(rule, "src"))), Selected(S, ToSet(TagList(rule, "dst"))),
      TrafficEdgeKind(Tag(rule, "action")), PortOf(TagList(rule, "dst")))

\* What a list of selectors names among twins are twins.
LEMMA SelectedTwins ==
  ASSUME NEW S, NEW T, Twins(S, T), NEW sels, \A sel \in sels : sel.form \in SelectorForms
  PROVE  Twins(Selected(S, sels), Selected(T, sels))
  <1> DEFINE F == [sel \in sels |-> Resolved(S, sel)]
             G == [sel \in sels |-> Resolved(T, sel)]
  <1>1. \A sel \in sels : Twins(F[sel], G[sel]) BY ResolvedTwins
  <1>2. /\ Selected(S, sels) = UNION {F[sel] : sel \in sels}
        /\ Selected(T, sels) = UNION {G[sel] : sel \in sels}
    BY DEF Selected
  <1>3. Twins(UNION {F[sel] : sel \in sels}, UNION {G[sel] : sel \in sels})
    <2> HIDE DEF F, G
    <2> QED BY <1>1 DEF Twins
  <1> QED BY <1>2, <1>3

\* A list of selectors is resolved to what they name.
LEMMA SelectedAre ==
  ASSUME NEW s, IsList(s), Unambiguous(ToSet(s)), NEW sels, IsList(sels),
         \A sel \in ToSet(sels) : sel.form \in SelectorForms
  PROVE  LET t == Each(sels, LAMBDA sel : resolveTailscaleSelector(s, sel))
         IN IsList(t) /\ ToSet(t) = Selected(ToSet(s), ToSet(sels))
  <1> DEFINE S == ToSet(s)
             g == [i \in DOMAIN sels |-> resolveTailscaleSelector(s, sels[i])]
             G == [sel \in ToSet(sels) |-> Resolved(S, sel)]
             t == Each(sels, LAMBDA sel : resolveTailscaleSelector(s, sel))
  <1>1. t = FlattenSeq(g \o <<>>) BY Zenon DEF Each, Map
  <1>2. g = [i \in DOMAIN sels |-> g[i]] OBVIOUS
  <1>3. \A i \in DOMAIN sels : IsList(g[i]) /\ ToSet(g[i]) = G[sels[i]]
    <2>1. \A i \in DOMAIN sels : sels[i] \in ToSet(sels) BY DEF ToSet
    <2> QED BY <2>1, ResolvedIs
  <1>4. /\ IsList(FlattenSeq(g \o <<>>))
        /\ ToSet(FlattenSeq(g \o <<>>)) = UNION {G[sel] : sel \in ToSet(sels)}
    <2> HIDE DEF g, G
    <2> QED BY <1>2, <1>3, EachOver
  <1>5. UNION {G[sel] : sel \in ToSet(sels)} = Selected(S, ToSet(sels)) BY DEF Selected
  <1> HIDE DEF t, g, G
  <1>6. IsList(t) /\ ToSet(t) = Selected(S, ToSet(sels)) BY <1>1, <1>4, <1>5
  <1> QED BY <1>6 DEF t

\* Twin Tailscale rules among twins make the same edges.
LEMMA AdmittedTwins ==
  ASSUME NEW S, NEW T, Twins(S, T), NEW r, NEW q, Twin(r, q),
         \A key \in {"src", "dst"} : \A sel \in ToSet(TagList(r, key)) : sel.form \in SelectorForms
  PROVE  Admitted(S, r) = Admitted(T, q)
  <1> DEFINE X == Selected(S, ToSet(TagList(r, "src")))
             Y == Selected(S, ToSet(TagList(r, "dst")))
             V == Selected(T, ToSet(TagList(r, "src")))
             W == Selected(T, ToSet(TagList(r, "dst")))
             kind == TrafficEdgeKind(Tag(r, "action"))
             port == PortOf(TagList(r, "dst"))
  <1>1. Twins(X, V) /\ Twins(Y, W) BY SelectedTwins
  <1>2. \A key : Tag(r, key) = Tag(q, key) /\ TagList(r, key) = TagList(q, key) BY TwinIs
  <1>3. Admitted(S, r) = Via(r, X, Y, kind, port) BY DEF Admitted
  <1>4. Admitted(T, q) = Via(q, V, W, kind, port) BY <1>2 DEF Admitted
  <1> HIDE DEF X, Y, V, W, kind, port
  <1> QED BY <1>1, <1>3, <1>4, ViaTwins

\* The edges of the Tailscale rules are those through each of them.
LEMMA TailscaleIs ==
  ASSUME NEW s, IsList(s), Unambiguous(ToSet(s)), \A a \in ToSet(s) : IsReadable(a)
  PROVE  /\ IsList(tailscaleACLFlow(s))
         /\ ToSet(tailscaleACLFlow(s))
              = UNION {Admitted(ToSet(s), r) : r \in {a \in ToSet(s) : a.type = "tailscale.acl_rule"}}
  <1> DEFINE S == ToSet(s)
             rules == ByType(s, "tailscale.acl_rule")
             of(rule, key) == Each(TagList(rule, key), LAMBDA sel : resolveTailscaleSelector(s, sel))
             one(rule) == throughRule(rule, of(rule, "src"), of(rule, "dst"),
                                      TrafficEdgeKind(Tag(rule, "action")), PortOf(TagList(rule, "dst")))
             g == [i \in DOMAIN rules |-> one(rules[i])]
             G == [r \in ToSet(rules) |-> Admitted(S, r)]
  <1>1. tailscaleACLFlow(s) = FlattenSeq(g \o <<>>)
    <2>1. tailscaleACLFlow(s) = Each(rules, LAMBDA rule : one(rule)) BY Zenon DEF tailscaleACLFlow
    <2>2. Each(rules, LAMBDA rule : one(rule)) = FlattenSeq(g \o <<>>)
      <3> HIDE DEF one, rules
      <3> QED BY Zenon DEF Each, Map
    <2> QED BY <2>1, <2>2
  <1>2. IsList(rules) /\ ToSet(rules) = {a \in S : a.type = "tailscale.acl_rule"} BY ByTypeIs
  <1>3. ASSUME NEW r \in ToSet(rules) PROVE IsList(one(r)) /\ ToSet(one(r)) = Admitted(S, r)
    <2>1. r \in S /\ r.type = "tailscale.acl_rule" BY <1>2
    <2>2. IsReadable(r) BY <2>1
    <2>3. \A key \in {"src", "dst"} : /\ IsList(TagList(r, key))
                                      /\ \A sel \in ToSet(TagList(r, key)) : sel.form \in SelectorForms
      BY <2>1, <2>2 DEF IsReadable
    <2> DEFINE x == of(r, "src")
               y == of(r, "dst")
               X == Selected(S, ToSet(TagList(r, "src")))
               Y == Selected(S, ToSet(TagList(r, "dst")))
               kind == TrafficEdgeKind(Tag(r, "action"))
               port == PortOf(TagList(r, "dst"))
    <2>4. IsList(x) /\ ToSet(x) = X BY <2>3, SelectedAre
    <2>5. IsList(y) /\ ToSet(y) = Y BY <2>3, SelectedAre
    <2>6. one(r) = throughRule(r, x, y, kind, port) OBVIOUS
    <2>7. Admitted(S, r) = Via(r, X, Y, kind, port) BY DEF Admitted
    <2> HIDE DEF x, y, X, Y, kind, port, one
    <2> QED BY <2>4, <2>5, <2>6, <2>7, ViaIs
  <1> HIDE DEF one
  <1>4. g = [i \in DOMAIN rules |-> g[i]] OBVIOUS
  <1>5. \A i \in DOMAIN rules : IsList(g[i]) /\ ToSet(g[i]) = G[rules[i]]
    <2>1. \A i \in DOMAIN rules : rules[i] \in ToSet(rules) BY DEF ToSet
    <2> HIDE DEF rules
    <2> QED BY <2>1, <1>3
  <1>6. /\ IsList(FlattenSeq(g \o <<>>))
        /\ ToSet(FlattenSeq(g \o <<>>)) = UNION {G[r] : r \in ToSet(rules)}
    <2> HIDE DEF g, G, rules
    <2> QED BY <1>2, <1>4, <1>5, EachOver
  <1>7. UNION {G[r] : r \in ToSet(rules)} = UNION {Admitted(S, r) : r \in ToSet(rules)} OBVIOUS
  <1> HIDE DEF rules, g, G
  <1> QED BY <1>1, <1>2, <1>6, <1>7

\* No selector names a rule: rules have no address.
LEMMA SelectedAreNoRules ==
  ASSUME NEW S, \A a \in S : a.type = "tailscale.acl_rule" => a.provider = "tailscale",
         NEW sels, \A sel \in sels : sel.form \in SelectorForms, NEW o \in Selected(S, sels)
  PROVE  o \in S /\ o.type # "tailscale.acl_rule"
  <1>1. PICK sel \in sels : o \in Resolved(S, sel) BY DEF Selected
  <1>2. sel.form \in {"wildcard", "tag", "group", "user", "bare"} BY DEF SelectorForms
  <1>3. ASSUME NEW a, a.type = "tailscale.acl_rule", a.provider = "tailscale", NEW key PROVE ~Answers(a, key)
    <2>1. AssetAddresses(a) = [ips |-> {} \ {""}, hosts |-> Normalized({}), targets |-> {}]
      BY <1>3 DEF AssetAddresses
    <2>2. Normalized({}) = {} BY DEF Normalized
    <2> QED BY <2>1, <2>2 DEF Answers
  <1>4. \A key : \A a \in Answering(S, key) : a \in S /\ a.type # "tailscale.acl_rule"
    BY <1>3 DEF Answering
  <1>5. \A type, name : type # "tailscale.acl_rule" =>
          \A a \in Called(S, type, name) : a \in S /\ a.type # "tailscale.acl_rule"
    BY DEF Called
  <1>6. \A a \in Grouped(S, "tailscale.device", "acl_tags", sel.base) : a \in S /\ a.type # "tailscale.acl_rule"
    BY DEF Grouped
  <1>7. \/ o \in Grouped(S, "tailscale.device", "acl_tags", sel.base)
        \/ \E type \in {"tailscale.acl_tag", "tailscale.acl_group", "tailscale.acl_host"} :
             o \in Called(S, type, sel.base)
        \/ o \in S /\ IsUser(o, sel.base)
        \/ \E key : o \in Answering(S, key)
    BY <1>1, <1>2 DEF Resolved, OrElse
  <1>8. IsUser(o, sel.base) => o.type # "tailscale.acl_rule" BY DEF IsUser
  <1> QED BY <1>4, <1>5, <1>6, <1>7, <1>8

\* No two edges of Tailscale rules have one key.
LEMMA TailscaleKeyed ==
  ASSUME NEW S, Clear(S)
  PROVE  Keyed(UNION {Admitted(S, r) : r \in {a \in S : a.type = "tailscale.acl_rule"}})
  <1> DEFINE R == {a \in S : a.type = "tailscale.acl_rule"}
             k == [r \in S |-> TrafficEdgeKind(Tag(r, "action"))]
             p == [r \in S |-> PortOf(TagList(r, "dst"))]
             E == UNION {Admitted(S, r) : r \in R}
  <1>3. ASSUME NEW e \in E
        PROVE  \E r, o \in S :
                 /\ r.type = "tailscale.acl_rule" /\ o.type # "tailscale.acl_rule"
                 /\ e \in {Edge(o, r, k[r], "", p[r], "exact"), Edge(r, o, k[r], "", p[r], "exact")}
    <2>1. PICK r \in R : e \in Admitted(S, r) OBVIOUS
    <2> DEFINE G == ToSet(TagList(r, "src"))
               H == ToSet(TagList(r, "dst"))
               X == Selected(S, G)
               Y == Selected(S, H)
               kind == TrafficEdgeKind(Tag(r, "action"))
               port == PortOf(TagList(r, "dst"))
    <2>3. e \in Via(r, X, Y, kind, port) BY <2>1 DEF Admitted
    <2>4. r \in S /\ r.type = "tailscale.acl_rule" /\ k[r] = kind /\ p[r] = port BY <2>1
    <2>7. \A sel \in G \cup H : sel.form \in SelectorForms
      <3>1. IsReadable(r) BY <2>4 DEF Clear
      <3>2. \A key \in {"src", "dst"} : \A sel \in ToSet(TagList(r, key)) : sel.form \in SelectorForms
        BY <3>1, <2>4 DEF IsReadable
      <3> QED BY <3>2
    <2> HIDE DEF G, H, kind, port, k, p, R
    <2>8. \A a \in S : a.type = "tailscale.acl_rule" => a.provider = "tailscale" BY DEF Clear
    <2>5. \A o \in X \cup Y : o \in S /\ o.type # "tailscale.acl_rule" BY <2>7, <2>8, SelectedAreNoRules
    <2> HIDE DEF X, Y
    <2>6. \E o \in X \cup Y : e \in {Edge(o, r, kind, "", port, "exact"), Edge(r, o, kind, "", port, "exact")}
      BY <2>3, ViaJoins
    <2> QED BY <2>4, <2>5, <2>6
  <1> HIDE DEF E, k, p
  <1>4. Keyed(E) BY <1>3, ClearIs, RulesKeyed
  <1> QED BY <1>4 DEF E

\* The edges of the Tailscale rules are alike for twins.
LEMMA TailscaleAlike ==
  ASSUME NEW s, NEW t, IsList(s), IsList(t), Clear(ToSet(s)), Clear(ToSet(t)),
         Twins(ToSet(s), ToSet(t))
  PROVE  Alike(tailscaleACLFlow(s), tailscaleACLFlow(t))
  <1> DEFINE S == ToSet(s)
             T == ToSet(t)
             R == {a \in S : a.type = "tailscale.acl_rule"}
             Q == {a \in T : a.type = "tailscale.acl_rule"}
  <1>1. IsList(tailscaleACLFlow(s)) /\ ToSet(tailscaleACLFlow(s)) = UNION {Admitted(S, r) : r \in R}
    BY ClearIs, TailscaleIs
  <1>2. IsList(tailscaleACLFlow(t)) /\ ToSet(tailscaleACLFlow(t)) = UNION {Admitted(T, r) : r \in Q}
    BY ClearIs, TailscaleIs
  <1>3. Keyed(UNION {Admitted(S, r) : r \in R}) BY TailscaleKeyed
  <1>4. ASSUME NEW r \in R, NEW q, Twin(r, q) PROVE Admitted(S, r) = Admitted(T, q) /\ r.type = q.type
    <2>1. IsReadable(r) /\ r.type = "tailscale.acl_rule" BY DEF Clear
    <2>2. \A key \in {"src", "dst"} : \A sel \in ToSet(TagList(r, key)) : sel.form \in SelectorForms
      BY <2>1 DEF IsReadable
    <2> HIDE DEF R, S, T
    <2> QED BY <1>4, <2>2, AdmittedTwins, TwinIs DEF S, T
  <1>6. \A r, q : Twin(r, q) => r.type = q.type BY TwinIs
  <1>5. UNION {Admitted(S, r) : r \in R} = UNION {Admitted(T, r) : r \in Q}
    <2> HIDE DEF S, T
    <2> QED BY <1>4, <1>6 DEF Twins, S, T
  <1> HIDE DEF S, T, R, Q
  <1> QED BY <1>1, <1>2, <1>3, <1>5, KeyedAlike

-----------------------------------------------------------------------------
(* The resolver of the routes: the edges of a route are one list, whatever  *)
(* the order of the assets.                                                *)

\* The edge to the Service that was found, if one was.
ToService(a, found, host, port) ==
  [i \in DOMAIN found |-> Edge(a, found[i], "gateway-route", host, port, "exact")] \o <<>>

\* The edges of an Ingress or an HTTPRoute.
RoutesOf(s, a) ==
  CASE a.type = "networking.k8s.io/v1.Ingress" -> ingressBackendEdges(s, a)
    [] a.type \in HTTPRoutes -> httpRouteBackendEdges(s, a)
    [] OTHER -> <<>>

\* Twins lead to the Service at a place by the same edge, if there is one.
LEMMA ServiceTwins ==
  ASSUME NEW s, NEW t, IsList(s), IsList(t), Unambiguous(ToSet(s)), Unambiguous(ToSet(t)),
         Twins(ToSet(s), ToSet(t)), NEW a, NEW b, Twin(a, b), NEW ns, NEW name, NEW host, NEW port
  PROVE  ToService(a, ServiceNamed(s, ns, name), host, port)
           = ToService(b, ServiceNamed(t, ns, name), host, port)
  <1> DEFINE P == Placed(ToSet(s), ns, name)
             Q == Placed(ToSet(t), ns, name)
             x == ServiceNamed(s, ns, name)
             y == ServiceNamed(t, ns, name)
  <1>1. \A c, d : Twin(c, d) => /\ c.type = d.type /\ c.name = d.name /\ AsRef(c) = AsRef(d)
                                /\ Tag(c, "namespace") = Tag(d, "namespace")
    BY TwinIs
  <1>2. Twins(P, Q)
    <2>1. P \subseteq ToSet(s) /\ Q \subseteq ToSet(t) BY DEF Placed
    <2>2. \A c \in ToSet(s), d \in ToSet(t) : Twin(c, d) => (c \in P <=> d \in Q) BY <1>1 DEF Placed
    <2> HIDE DEF P, Q
    <2> QED BY <2>1, <2>2, TwinsPicked
  <1>3. ToSet(x) = P /\ (x = <<>> \/ \E c \in P : x = <<c>>) BY ServiceNamedIs
  <1>4. ToSet(y) = Q /\ (y = <<>> \/ \E c \in Q : y = <<c>>) BY ServiceNamedIs
  <1> HIDE DEF P, Q, x, y
  <1>5. CASE x = <<>>
    <2>1. P = {} BY <1>3, <1>5 DEF ToSet
    <2>2. Q = {} BY <2>1, <1>2, TwinsEmpty
    <2>3. y = <<>> BY <2>2, <1>4
    <2> QED BY <1>5, <2>3 DEF ToService, x, y
  <1>6. CASE x # <<>>
    <2>1. PICK c \in P : x = <<c>> BY <1>3, <1>6
    <2>2. P = {c} BY <2>1, <1>3 DEF ToSet
    <2>3. Q # {} BY <2>1, <1>2, TwinsEmpty
    <2>4. y # <<>> BY <2>3, <1>4 DEF ToSet
    <2>5. PICK d \in Q : y = <<d>> BY <2>4, <1>4
    <2>6. Twin(c, d) BY <2>2, <1>2 DEF Twins
    <2>7. AsRef(a) = AsRef(b) /\ AsRef(c) = AsRef(d) BY <1>1, <2>6
    <2>8. Edge(a, c, "gateway-route", host, port, "exact") = Edge(b, d, "gateway-route", host, port, "exact")
      BY <2>7 DEF Edge
    <2>9. DOMAIN x = {1} /\ DOMAIN y = {1} /\ x[1] = c /\ y[1] = d BY <2>1, <2>5
    <2>10. [i \in DOMAIN x |-> Edge(a, x[i], "gateway-route", host, port, "exact")]
            = [i \in DOMAIN y |-> Edge(b, y[i], "gateway-route", host, port, "exact")]
      BY <2>8, <2>9
    <2>11. ToService(a, x, host, port) = ToService(b, y, host, port) BY <2>10 DEF ToService
    <2> QED BY <2>11 DEF x, y
  <1> QED BY <1>5, <1>6

\* The edges of a route as lists of lists, one for every backend of every rule.
LEMMA RoutesAsLists ==
  ASSUME NEW s, NEW a
  PROVE  LET rules == Get(a.raw, "rules", <<>>)
             hostnames == Get(a.raw, "hostnames", <<>>)
             Host == IF hostnames = <<>> THEN "" ELSE hostnames[1]
             ns == Tag(a, "namespace")
             ingress(rule) ==
               [k \in DOMAIN rule.paths |->
                  ToService(a, ServiceNamed(s, ns, rule.paths[k].service), rule.host, rule.paths[k].port)]
             route(rule) ==
               [k \in DOMAIN rule.backendRefs |->
                  ToService(a, ServiceNamed(s, IF rule.backendRefs[k].namespace = "" THEN ns
                                               ELSE rule.backendRefs[k].namespace,
                                            rule.backendRefs[k].name),
                            Host, rule.backendRefs[k].port)]
         IN /\ ingressBackendEdges(s, a)
                 = FlattenSeq([i \in DOMAIN rules |-> FlattenSeq(ingress(rules[i]) \o <<>>)] \o <<>>)
            /\ httpRouteBackendEdges(s, a)
                 = FlattenSeq([i \in DOMAIN rules |-> FlattenSeq(route(rules[i]) \o <<>>)] \o <<>>)
  BY Zenon DEF ingressBackendEdges, httpRouteBackendEdges, Each, Map, ToService

\* Twin routes among twins have the same list of edges.
LEMMA RoutesTwins ==
  ASSUME NEW s, NEW t, IsList(s), IsList(t), Unambiguous(ToSet(s)), Unambiguous(ToSet(t)),
         Twins(ToSet(s), ToSet(t)), NEW a, NEW b, Twin(a, b)
  PROVE  RoutesOf(s, a) = RoutesOf(t, b)
  <1>1. /\ a.type = b.type /\ Tag(a, "namespace") = Tag(b, "namespace")
        /\ a.type \in rawDependentTypes => a.raw = b.raw
    BY TwinIs
  <1>2. \A ns, name, host, port :
          ToService(a, ServiceNamed(s, ns, name), host, port) = ToService(b, ServiceNamed(t, ns, name), host, port)
    BY ServiceTwins
  <1>3. ASSUME a.raw = b.raw
        PROVE  /\ ingressBackendEdges(s, a) = ingressBackendEdges(t, b)
               /\ httpRouteBackendEdges(s, a) = httpRouteBackendEdges(t, b)
    <2> DEFINE Rules(c) == Get(c.raw, "rules", <<>>)
               hostnames(c) == Get(c.raw, "hostnames", <<>>)
               Host(c) == IF hostnames(c) = <<>> THEN "" ELSE hostnames(c)[1]
               ns(c) == Tag(c, "namespace")
               In(c, br) == IF br.namespace = "" THEN ns(c) ELSE br.namespace
               ingress(u, c, rule) ==
                 [k \in DOMAIN rule.paths |->
                    ToService(c, ServiceNamed(u, ns(c), rule.paths[k].service), rule.host, rule.paths[k].port)]
               route(u, c, rule) ==
                 [k \in DOMAIN rule.backendRefs |->
                    ToService(c, ServiceNamed(u, In(c, rule.backendRefs[k]), rule.backendRefs[k].name),
                              Host(c), rule.backendRefs[k].port)]
    <2>1. \A u, c :
            /\ ingressBackendEdges(u, c)
                 = FlattenSeq([i \in DOMAIN Rules(c) |-> FlattenSeq(ingress(u, c, Rules(c)[i]) \o <<>>)] \o <<>>)
            /\ httpRouteBackendEdges(u, c)
                 = FlattenSeq([i \in DOMAIN Rules(c) |-> FlattenSeq(route(u, c, Rules(c)[i]) \o <<>>)] \o <<>>)
      BY RoutesAsLists, Zenon
    <2>2. Rules(a) = Rules(b) /\ Host(a) = Host(b) /\ ns(a) = ns(b) BY <1>1, <1>3
    <2>3. \A rule : ingress(s, a, rule) = ingress(t, b, rule) /\ route(s, a, rule) = route(t, b, rule)
      <3> SUFFICES ASSUME NEW rule
                   PROVE  ingress(s, a, rule) = ingress(t, b, rule) /\ route(s, a, rule) = route(t, b, rule)
        OBVIOUS
      <3>0. \A br : In(a, br) = In(b, br) BY <2>2
      <3> HIDE DEF ns, Host, In
      <3>1. \A k \in DOMAIN rule.paths :
              ToService(a, ServiceNamed(s, ns(a), rule.paths[k].service), rule.host, rule.paths[k].port)
                = ToService(b, ServiceNamed(t, ns(b), rule.paths[k].service), rule.host, rule.paths[k].port)
        BY <1>2, <2>2
      <3>2. \A k \in DOMAIN rule.backendRefs :
              ToService(a, ServiceNamed(s, In(a, rule.backendRefs[k]), rule.backendRefs[k].name),
                        Host(a), rule.backendRefs[k].port)
                = ToService(b, ServiceNamed(t, In(b, rule.backendRefs[k]), rule.backendRefs[k].name),
                            Host(b), rule.backendRefs[k].port)
        BY <1>2, <2>2, <3>0
      <3> QED BY <3>1, <3>2
    <2> HIDE DEF ingress, route, Rules
    <2> QED BY <2>1, <2>2, <2>3
  <1>4. a.type = "networking.k8s.io/v1.Ingress" \/ a.type \in HTTPRoutes => a.type \in rawDependentTypes
    BY DEF rawDependentTypes, rawDependentRoutes
  <1>5. CASE a.type = "networking.k8s.io/v1.Ingress" \/ a.type \in HTTPRoutes
    BY <1>1, <1>3, <1>4, <1>5 DEF RoutesOf
  <1>6. CASE ~(a.type = "networking.k8s.io/v1.Ingress" \/ a.type \in HTTPRoutes)
    BY <1>1, <1>6 DEF RoutesOf
  <1> QED BY <1>5, <1>6

\* A list of edges from a.
From(a, L) == IsList(L) /\ \A e \in ToSet(L) : e.from = AsRef(a)

\* The edge to a Service is from the route.
LEMMA ServiceFrom ==
  ASSUME NEW s, IsList(s), Unambiguous(ToSet(s)), NEW a, NEW ns, NEW name, NEW host, NEW port
  PROVE  From(a, ToService(a, ServiceNamed(s, ns, name), host, port))
  <1> DEFINE x == ServiceNamed(s, ns, name)
             g == [i \in DOMAIN x |-> Edge(a, x[i], "gateway-route", host, port, "exact")]
  <1>1. IsList(x) BY ServiceNamedIs
  <1>2. g = [i \in DOMAIN x |-> g[i]] OBVIOUS
  <1>3. \A i \in DOMAIN x : g[i].from = AsRef(a) BY DEF Edge
  <1> HIDE DEF x, g
  <1>4. IsList(g \o <<>>) /\ ToSet(g \o <<>>) = {g[i] : i \in DOMAIN x} BY <1>1, <1>2, MapMakes
  <1>5. From(a, g \o <<>>) BY <1>3, <1>4 DEF From
  <1> QED BY <1>5 DEF x, g, ToService

\* So are the edges of all backends, one after the other.
LEMMA EachFrom ==
  ASSUME NEW r, IsList(r), NEW a, NEW g, g = [i \in DOMAIN r |-> g[i]], \A i \in DOMAIN r : From(a, g[i])
  PROVE  From(a, FlattenSeq(g \o <<>>))
  BY EachMakes DEF From

\* The edges of a route are from it.
LEMMA RoutesFrom ==
  ASSUME NEW s, IsList(s), Unambiguous(ToSet(s)), NEW a, IsReadable(a)
  PROVE  From(a, RoutesOf(s, a))
  <1> DEFINE rules == Get(a.raw, "rules", <<>>)
             hostnames == Get(a.raw, "hostnames", <<>>)
             Host == IF hostnames = <<>> THEN "" ELSE hostnames[1]
             ns == Tag(a, "namespace")
             ingress(rule) ==
               [k \in DOMAIN rule.paths |->
                  ToService(a, ServiceNamed(s, ns, rule.paths[k].service), rule.host, rule.paths[k].port)]
             route(rule) ==
               [k \in DOMAIN rule.backendRefs |->
                  ToService(a, ServiceNamed(s, IF rule.backendRefs[k].namespace = "" THEN ns
                                               ELSE rule.backendRefs[k].namespace,
                                            rule.backendRefs[k].name),
                            Host, rule.backendRefs[k].port)]
             f == [i \in DOMAIN rules |-> FlattenSeq(ingress(rules[i]) \o <<>>)]
             g == [i \in DOMAIN rules |-> FlattenSeq(route(rules[i]) \o <<>>)]
  <1>1. ingressBackendEdges(s, a) = FlattenSeq(f \o <<>>) /\ httpRouteBackendEdges(s, a) = FlattenSeq(g \o <<>>)
    BY RoutesAsLists, Zenon
  <1>2. ASSUME NEW rule, IsList(rule.paths) PROVE From(a, FlattenSeq(ingress(rule) \o <<>>))
    <2> DEFINE h == ingress(rule)
    <2>1. h = [k \in DOMAIN rule.paths |-> h[k]] OBVIOUS
    <2>2. \A k \in DOMAIN rule.paths : From(a, h[k]) BY ServiceFrom
    <2> HIDE DEF h
    <2>3. From(a, FlattenSeq(h \o <<>>)) BY <1>2, <2>1, <2>2, EachFrom
    <2> QED BY <2>3 DEF h
  <1>3. ASSUME NEW rule, IsList(rule.backendRefs) PROVE From(a, FlattenSeq(route(rule) \o <<>>))
    <2> DEFINE h == route(rule)
    <2>1. h = [k \in DOMAIN rule.backendRefs |-> h[k]] OBVIOUS
    <2>2. \A k \in DOMAIN rule.backendRefs : From(a, h[k]) BY ServiceFrom
    <2> HIDE DEF h
    <2>3. From(a, FlattenSeq(h \o <<>>)) BY <1>3, <2>1, <2>2, EachFrom
    <2> QED BY <2>3 DEF h
  <1> HIDE DEF ingress, route
  <1>4. ASSUME a.type = "networking.k8s.io/v1.Ingress" PROVE From(a, FlattenSeq(f \o <<>>))
    <2>1. IsList(rules) /\ \A rule \in ToSet(rules) : IsList(rule.paths) BY <1>4, Zenon DEF IsReadable
    <2>2. f = [i \in DOMAIN rules |-> f[i]] OBVIOUS
    <2> HIDE DEF rules
    <2>3. \A i \in DOMAIN rules : From(a, f[i]) BY <1>2, <2>1 DEF ToSet
    <2> HIDE DEF f
    <2> QED BY <2>1, <2>2, <2>3, EachFrom
  <1>5. ASSUME a.type \in HTTPRoutes PROVE From(a, FlattenSeq(g \o <<>>))
    <2>1. IsList(rules) /\ \A rule \in ToSet(rules) : IsList(rule.backendRefs) BY <1>5, Zenon DEF IsReadable
    <2>2. g = [i \in DOMAIN rules |-> g[i]] OBVIOUS
    <2> HIDE DEF rules
    <2>3. \A i \in DOMAIN rules : From(a, g[i]) BY <1>3, <2>1 DEF ToSet
    <2> HIDE DEF g
    <2> QED BY <2>1, <2>2, <2>3, EachFrom
  <1>6. From(a, <<>>) BY NoElement DEF From, ToSet
  <1> HIDE DEF f, g
  <1> QED BY <1>1, <1>4, <1>5, <1>6 DEF RoutesOf

\* Of all routes, the graph keeps what it keeps of each.
LEMMA GatewayLeads ==
  ASSUME NEW s, IsList(s), Clear(ToSet(s))
  PROVE  /\ IsList(gatewayToService(s))
         /\ Leading(gatewayToService(s))
              = UNION {Leading(RoutesOf(s, a)) : a \in {b \in ToSet(s) : b.provider = "kubernetes"}}
  <1> DEFINE S == ToSet(s)
             I == {i \in DOMAIN s : s[i].provider = "kubernetes"}
             P == {b \in S : b.provider = "kubernetes"}
             of == At(s, I)
             g == [i \in DOMAIN of |-> RoutesOf(s, of[i])]
  <1>1. gatewayToService(s) = FlattenSeq(g \o <<>>)
    BY Zenon DEF gatewayToService, Each, Map, Filter, RoutesOf
  <1>2. (\A i \in DOMAIN s : i \in I <=> s[i] \in P) /\ P = S \cap P BY DEF ToSet
  <1>3. IsList(of) /\ ToSet(of) = P
    <2> HIDE DEF I, P
    <2> QED BY <1>2, PickedAre
  <1>4. \A i \in DOMAIN of : of[i] \in S
    <2>1. \A i \in DOMAIN of : of[i] \in P
      <3> HIDE DEF P, of
      <3> QED BY <1>3 DEF ToSet
    <2> HIDE DEF of
    <2> QED BY <2>1
  <1> HIDE DEF of
  <1>5. g = [i \in DOMAIN of |-> g[i]] OBVIOUS
  <1>6. \A a \in S : From(a, RoutesOf(s, a)) BY ClearIs, RoutesFrom
  <1>7. \A i \in DOMAIN of : From(of[i], g[i]) BY <1>4, <1>6
  <1>8. Apart(g, DOMAIN of)
    <2>1. ASSUME NEW i \in DOMAIN of, NEW j \in DOMAIN of, NEW x \in ToSet(g[i]), NEW y \in ToSet(g[j]),
                 edgeKey(x) = edgeKey(y)
          PROVE  g[i] = g[j]
      <3>1. x.from = AsRef(of[i]) /\ y.from = AsRef(of[j]) BY <1>7 DEF From
      <3>2. refKey(x.from) = refKey(y.from) BY <2>1 DEF edgeKey
      <3>3. of[i].id = of[j].id BY <3>1, <3>2 DEF refKey, AsRef
      <3>4. of[i] = of[j] BY <3>3, <1>4, ClearIs DEF Sole
      <3> QED BY <3>4
    <2> HIDE DEF g
    <2> QED BY <2>1 DEF Apart
  <1>9. \A i \in DOMAIN of : IsList(g[i]) BY <1>7 DEF From
  <1> DEFINE G == UNION {Leading(g[i]) : i \in DOMAIN of}
  <1>10. IsList(FlattenSeq(g \o <<>>)) /\ Leading(FlattenSeq(g \o <<>>)) = G
    <2> HIDE DEF g
    <2> QED BY <1>3, <1>5, <1>8, <1>9, EachMakes, EachLeading
  <1>11. G = UNION {Leading(RoutesOf(s, a)) : a \in ToSet(of)} BY DEF ToSet
  <1> HIDE DEF G, g
  <1> QED BY <1>1, <1>3, <1>10, <1>11

\* The edges of the routes are alike for twins.
LEMMA GatewayAlike ==
  ASSUME NEW s, NEW t, IsList(s), IsList(t), Clear(ToSet(s)), Clear(ToSet(t)),
         Twins(ToSet(s), ToSet(t))
  PROVE  Alike(gatewayToService(s), gatewayToService(t))
  <1> DEFINE S == ToSet(s)
             T == ToSet(t)
             P == {b \in S : b.provider = "kubernetes"}
             Q == {b \in T : b.provider = "kubernetes"}
             V == UNION {Leading(RoutesOf(s, a)) : a \in P}
             W == UNION {Leading(RoutesOf(t, a)) : a \in Q}
  <1>1. IsList(gatewayToService(s)) /\ Leading(gatewayToService(s)) = V BY GatewayLeads
  <1>2. IsList(gatewayToService(t)) /\ Leading(gatewayToService(t)) = W BY GatewayLeads
  <1>3. \A a, b : Twin(a, b) => RoutesOf(s, a) = RoutesOf(t, b) /\ a.provider = b.provider
    BY ClearIs, RoutesTwins, TwinIs
  <1>4. V = W
    <2> HIDE DEF S, T
    <2> QED BY <1>3 DEF Twins, S, T
  <1> HIDE DEF V, W
  <1> QED BY <1>1, <1>2, <1>4 DEF Alike

-----------------------------------------------------------------------------
(* The resolver of the network policies: the edges of one rule of a policy  *)
(* have a key each, those of two rules of a policy may share one.           *)

Matching(P, sel) == {b \in P : labelsMatch(Without(sel, "namespace"), b.tags)}

\* All pods that match are found.
LEMMA MatchesAre ==
  ASSUME NEW s, IsList(s), NEW sel
  PROVE  IsList(matchPods(s, sel)) /\ ToSet(matchPods(s, sel)) = Matching(ToSet(s), sel)
  <1>1. matchPods(s, sel) = At(s, {i \in DOMAIN s : labelsMatch(Without(sel, "namespace"), s[i].tags)})
    BY Zenon DEF matchPods, Filter
  <1> DEFINE w == Without(sel, "namespace")
             t == At(s, {i \in DOMAIN s : labelsMatch(w, s[i].tags)})
  <1>2. matchPods(s, sel) = t BY <1>1
  <1>3. Matching(ToSet(s), sel) = {b \in ToSet(s) : labelsMatch(w, b.tags)} BY DEF Matching
  <1> HIDE DEF w
  <1>4. IsList(t) /\ ToSet(t) = {b \in ToSet(s) : labelsMatch(w, b.tags)} BY LabelledAre
  <1> HIDE DEF t
  <1> QED BY <1>2, <1>3, <1>4

\* Of twins, those that match are twins.
LEMMA MatchingTwins ==
  ASSUME NEW P, NEW Q, Twins(P, Q), NEW sel
  PROVE  Twins(Matching(P, sel), Matching(Q, sel))
  <1> DEFINE V == Matching(P, sel)
             W == Matching(Q, sel)
  <1>1. \A a, b : Twin(a, b) => a.tags = b.tags BY TwinIs
  <1>2. V \subseteq P /\ W \subseteq Q /\ \A a \in P, b \in Q : Twin(a, b) => (a \in V <=> b \in W)
    BY <1>1 DEF Matching
  <1> HIDE DEF V, W
  <1>3. Twins(V, W) BY <1>2, TwinsPicked
  <1> QED BY <1>3 DEF V, W

\* The pods a policy applies to, and those a peer or a rule of it names.
Scope(S, account, ns, all) ==
  {a \in S : a.type = "v1.Pod" /\ a.account = account /\ (~all => Tag(a, "namespace") = ns)}
Chosen(S, pol) ==
  Matching(Scope(S, pol.account, Tag(pol, "namespace"), FALSE), Get(pol.raw, "podSelector", NoRaw))
Peers(S, pol, peer) ==
  IF peer.scope \in {"ipBlock", "labelled"} \/ peer.expressions THEN {}
  ELSE Matching(Scope(S, pol.account, Tag(pol, "namespace"), peer.scope = "all"), peer.labels)
Peered(S, pol, peers) == UNION {Peers(S, pol, peer) : peer \in peers}

\* The pods in scope among twins are twins.
LEMMA ScopeTwins ==
  ASSUME NEW S, NEW T, Twins(S, T), NEW account, NEW ns, NEW all
  PROVE  Twins(Scope(S, account, ns, all), Scope(T, account, ns, all))
  <1> DEFINE P == Scope(S, account, ns, all)
             Q == Scope(T, account, ns, all)
  <1>1. \A a, b : Twin(a, b) => /\ a.type = b.type /\ a.account = b.account
                                /\ Tag(a, "namespace") = Tag(b, "namespace")
    BY TwinIs
  <1>2. P \subseteq S /\ Q \subseteq T /\ \A a \in S, b \in T : Twin(a, b) => (a \in P <=> b \in Q)
    BY <1>1 DEF Scope
  <1> HIDE DEF P, Q
  <1>3. Twins(P, Q) BY <1>2, TwinsPicked
  <1> QED BY <1>3 DEF P, Q

\* What twin policies apply to among twins are twins.
LEMMA ChosenTwins ==
  ASSUME NEW S, NEW T, Twins(S, T), NEW r, NEW q, Twin(r, q), r.raw = q.raw
  PROVE  Twins(Chosen(S, r), Chosen(T, q))
  <1> DEFINE ns == Tag(r, "namespace")
             sel == Get(r.raw, "podSelector", NoRaw)
  <1>1. r.account = q.account /\ Tag(q, "namespace") = ns BY TwinIs
  <1>2. /\ Chosen(S, r) = Matching(Scope(S, r.account, ns, FALSE), sel)
        /\ Chosen(T, q) = Matching(Scope(T, r.account, ns, FALSE), sel)
    BY <1>1 DEF Chosen
  <1> HIDE DEF ns, sel
  <1> QED BY <1>2, ScopeTwins, MatchingTwins

\* The peers of twin policies among twins are twins.
LEMMA PeeredTwins ==
  ASSUME NEW S, NEW T, Twins(S, T), NEW r, NEW q, Twin(r, q), NEW peers
  PROVE  Twins(Peered(S, r, peers), Peered(T, q, peers))
  <1>1. ASSUME NEW peer PROVE Twins(Peers(S, r, peer), Peers(T, q, peer))
    <2> DEFINE ns == Tag(r, "namespace")
               all == peer.scope = "all"
               V == Matching(Scope(S, r.account, ns, all), peer.labels)
               W == Matching(Scope(T, r.account, ns, all), peer.labels)
               skipped == peer.scope \in {"ipBlock", "labelled"} \/ peer.expressions
    <2>1. r.account = q.account /\ Tag(q, "namespace") = ns BY TwinIs
    <2>2. Peers(S, r, peer) = IF skipped THEN {} ELSE V BY DEF Peers
    <2>3. Peers(T, q, peer) = IF skipped THEN {} ELSE W BY <2>1 DEF Peers
    <2> HIDE DEF all, ns, skipped
    <2>4. Twins(V, W) BY ScopeTwins, MatchingTwins
    <2>5. Twins({}, {}) BY DEF Twins
    <2> HIDE DEF V, W
    <2> QED BY <2>2, <2>3, <2>4, <2>5
  <1> DEFINE F == [peer \in peers |-> Peers(S, r, peer)]
             G == [peer \in peers |-> Peers(T, q, peer)]
  <1>2. \A peer \in peers : Twins(F[peer], G[peer]) BY <1>1
  <1>3. /\ Peered(S, r, peers) = UNION {F[peer] : peer \in peers}
        /\ Peered(T, q, peers) = UNION {G[peer] : peer \in peers}
    BY DEF Peered
  <1>4. Twins(UNION {F[peer] : peer \in peers}, UNION {G[peer] : peer \in peers})
    <2> HIDE DEF F, G
    <2> QED BY <1>2 DEF Twins
  <1> QED BY <1>3, <1>4

\* All pods in scope are found.
LEMMA ScopesAre ==
  ASSUME NEW s, IsList(s), NEW account, NEW ns
  PROVE  /\ IsList(PodsOf(s, account)) /\ ToSet(PodsOf(s, account)) = Scope(ToSet(s), account, ns, TRUE)
         /\ IsList(PodsIn(s, account, ns)) /\ ToSet(PodsIn(s, account, ns)) = Scope(ToSet(s), account, ns, FALSE)
  <1>1. {a \in ToSet(s) : a.type = "v1.Pod" /\ a.account = account} = Scope(ToSet(s), account, ns, TRUE)
    BY DEF Scope
  <1>2. Pods(ToSet(s), account, ns) = Scope(ToSet(s), account, ns, FALSE) BY DEF Scope, Pods
  <1> QED BY <1>1, <1>2, PodsOfIs, PodsInIs

\* All peers of a policy are found.
LEMMA PeersAre ==
  ASSUME NEW s, IsList(s), NEW pol, NEW peers, IsList(peers)
  PROVE  /\ IsList(resolveNetPolPeers(s, pol, peers))
         /\ ToSet(resolveNetPolPeers(s, pol, peers)) = Peered(ToSet(s), pol, ToSet(peers))
  <1> DEFINE S == ToSet(s)
             ns == Tag(pol, "namespace")
             scope(peer) == IF peer.scope = "all" THEN PodsOf(s, pol.account)
                            ELSE PodsIn(s, pol.account, Tag(pol, "namespace"))
             one(peer) == IF peer.scope \in {"ipBlock", "labelled"} \/ peer.expressions THEN <<>>
                          ELSE matchPods(scope(peer), peer.labels)
             g == [i \in DOMAIN peers |-> one(peers[i])]
             G == [peer \in ToSet(peers) |-> Peers(S, pol, peer)]
  <1>1. resolveNetPolPeers(s, pol, peers) = FlattenSeq(g \o <<>>)
    BY Zenon DEF resolveNetPolPeers, Each, Map
  <1>2. ASSUME NEW peer PROVE IsList(one(peer)) /\ ToSet(one(peer)) = Peers(S, pol, peer)
    <2> DEFINE all == peer.scope = "all"
               V == Scope(S, pol.account, ns, all)
               c == scope(peer)
               skipped == peer.scope \in {"ipBlock", "labelled"} \/ peer.expressions
    <2>1. IsList(c) /\ ToSet(c) = V
      <3>1. CASE all
        <4>1. c = PodsOf(s, pol.account) /\ V = Scope(S, pol.account, ns, TRUE) BY <3>1
        <4> QED BY <4>1, ScopesAre
      <3>2. CASE ~all
        <4>1. c = PodsIn(s, pol.account, ns) /\ V = Scope(S, pol.account, ns, FALSE) BY <3>2
        <4> QED BY <4>1, ScopesAre
      <3> QED BY <3>1, <3>2
    <2>2. Peers(S, pol, peer) = IF skipped THEN {} ELSE Matching(V, peer.labels) BY DEF Peers
    <2>3. one(peer) = IF skipped THEN <<>> ELSE matchPods(c, peer.labels) OBVIOUS
    <2> HIDE DEF V, c, skipped, one
    <2>4. /\ IsList(matchPods(c, peer.labels))
          /\ ToSet(matchPods(c, peer.labels)) = Matching(V, peer.labels)
      BY <2>1, MatchesAre
    <2>5. ToSet(<<>>) = {} /\ IsList(<<>>) BY NoElement DEF ToSet
    <2> QED BY <2>2, <2>3, <2>4, <2>5
  <1> HIDE DEF one
  <1>3. g = [i \in DOMAIN peers |-> g[i]] OBVIOUS
  <1>4. \A i \in DOMAIN peers : IsList(g[i]) /\ ToSet(g[i]) = G[peers[i]]
    <2>1. \A i \in DOMAIN peers : peers[i] \in ToSet(peers) BY DEF ToSet
    <2> QED BY <2>1, <1>2
  <1>5. /\ IsList(FlattenSeq(g \o <<>>))
        /\ ToSet(FlattenSeq(g \o <<>>)) = UNION {G[peer] : peer \in ToSet(peers)}
    <2> HIDE DEF g, G
    <2> QED BY <1>3, <1>4, EachOver
  <1>6. UNION {G[peer] : peer \in ToSet(peers)} = Peered(S, pol, ToSet(peers)) BY DEF Peered
  <1> HIDE DEF g, G
  <1> QED BY <1>1, <1>5, <1>6

\* What a policy applies to, and the edges of one rule of it.
Chooses(s, pol) ==
  matchPods(PodsIn(s, pol.account, Tag(pol, "namespace")), Get(pol.raw, "podSelector", NoRaw))
InFlow(s, pol, rule) ==
  throughRule(pol, resolveNetPolPeers(s, pol, rule.peers), Chooses(s, pol), "traffic-allow",
              singlePort(rule.ports))
OutFlow(s, pol, rule) ==
  throughRule(pol, Chooses(s, pol), resolveNetPolPeers(s, pol, rule.peers), "traffic-allow",
              singlePort(rule.ports))
AllowedIn(S, pol, rule) ==
  Via(pol, Peered(S, pol, ToSet(rule.peers)), Chosen(S, pol), "traffic-allow", singlePort(rule.ports))
AllowedOut(S, pol, rule) ==
  Via(pol, Chosen(S, pol), Peered(S, pol, ToSet(rule.peers)), "traffic-allow", singlePort(rule.ports))

\* All a policy applies to is found.
LEMMA ChoosesAre ==
  ASSUME NEW s, IsList(s), NEW pol
  PROVE  IsList(Chooses(s, pol)) /\ ToSet(Chooses(s, pol)) = Chosen(ToSet(s), pol)
  <1> DEFINE local == PodsIn(s, pol.account, Tag(pol, "namespace"))
             sel == Get(pol.raw, "podSelector", NoRaw)
             V == Scope(ToSet(s), pol.account, Tag(pol, "namespace"), FALSE)
  <1>1. IsList(local) /\ ToSet(local) = V BY ScopesAre
  <1>2. Chooses(s, pol) = matchPods(local, sel) /\ Chosen(ToSet(s), pol) = Matching(V, sel)
    BY DEF Chooses, Chosen
  <1> HIDE DEF local, sel, V
  <1> QED BY <1>1, <1>2, MatchesAre

\* The edges of one rule of a policy are those through the policy.
LEMMA FlowsAre ==
  ASSUME NEW s, IsList(s), NEW pol, NEW rule, IsList(rule.peers)
  PROVE  /\ IsList(InFlow(s, pol, rule)) /\ ToSet(InFlow(s, pol, rule)) = AllowedIn(ToSet(s), pol, rule)
         /\ IsList(OutFlow(s, pol, rule)) /\ ToSet(OutFlow(s, pol, rule)) = AllowedOut(ToSet(s), pol, rule)
  <1> DEFINE x == Chooses(s, pol)
             y == resolveNetPolPeers(s, pol, rule.peers)
             X == Chosen(ToSet(s), pol)
             Y == Peered(ToSet(s), pol, ToSet(rule.peers))
             port == singlePort(rule.ports)
  <1>1. IsList(x) /\ ToSet(x) = X BY ChoosesAre
  <1>2. IsList(y) /\ ToSet(y) = Y BY PeersAre
  <1>3. /\ InFlow(s, pol, rule) = throughRule(pol, y, x, "traffic-allow", port)
        /\ OutFlow(s, pol, rule) = throughRule(pol, x, y, "traffic-allow", port)
        /\ AllowedIn(ToSet(s), pol, rule) = Via(pol, Y, X, "traffic-allow", port)
        /\ AllowedOut(ToSet(s), pol, rule) = Via(pol, X, Y, "traffic-allow", port)
    BY DEF InFlow, OutFlow, AllowedIn, AllowedOut
  <1> HIDE DEF x, y, X, Y, port
  <1> QED BY <1>1, <1>2, <1>3, ViaIs

\* One rule of twin policies among twins makes the same edges.
LEMMA AllowedTwins ==
  ASSUME NEW S, NEW T, Twins(S, T), NEW r, NEW q, Twin(r, q), r.raw = q.raw, NEW rule
  PROVE  AllowedIn(S, r, rule) = AllowedIn(T, q, rule) /\ AllowedOut(S, r, rule) = AllowedOut(T, q, rule)
  <1> DEFINE X == Chosen(S, r)
             Y == Peered(S, r, ToSet(rule.peers))
             V == Chosen(T, q)
             W == Peered(T, q, ToSet(rule.peers))
             port == singlePort(rule.ports)
  <1>1. Twins(X, V) /\ Twins(Y, W) BY ChosenTwins, PeeredTwins
  <1>2. /\ AllowedIn(S, r, rule) = Via(r, Y, X, "traffic-allow", port)
        /\ AllowedOut(S, r, rule) = Via(r, X, Y, "traffic-allow", port)
        /\ AllowedIn(T, q, rule) = Via(q, W, V, "traffic-allow", port)
        /\ AllowedOut(T, q, rule) = Via(q, V, W, "traffic-allow", port)
    BY DEF AllowedIn, AllowedOut
  <1> HIDE DEF X, Y, V, W, port
  <1> QED BY <1>1, <1>2, ViaTwins

\* The edges of a rule of a policy join the policy and a pod.
LEMMA AllowedJoin ==
  ASSUME NEW S, NEW pol, NEW rule, NEW e \in AllowedIn(S, pol, rule) \cup AllowedOut(S, pol, rule)
  PROVE  \E o \in S : /\ o.type = "v1.Pod"
                      /\ e \in {Edge(o, pol, "traffic-allow", "", singlePort(rule.ports), "exact"),
                                Edge(pol, o, "traffic-allow", "", singlePort(rule.ports), "exact")}
  <1> DEFINE X == Chosen(S, pol)
             Y == Peered(S, pol, ToSet(rule.peers))
             port == singlePort(rule.ports)
  <1>1. \A a \in X : a \in S /\ a.type = "v1.Pod" BY DEF Chosen, Matching, Scope
  <1>2. \A peer : \A a \in Peers(S, pol, peer) : a \in S /\ a.type = "v1.Pod"
    BY DEF Peers, Matching, Scope
  <1>3. \A a \in Y : a \in S /\ a.type = "v1.Pod" BY <1>2 DEF Peered
  <1>4. e \in Via(pol, Y, X, "traffic-allow", port) \/ e \in Via(pol, X, Y, "traffic-allow", port)
    BY DEF AllowedIn, AllowedOut
  <1> HIDE DEF X, Y, port
  <1>5. \E o \in X \cup Y : e \in {Edge(o, pol, "traffic-allow", "", port, "exact"),
                                   Edge(pol, o, "traffic-allow", "", port, "exact")}
    BY <1>4, ViaJoins
  <1>6. \E o \in S : /\ o.type = "v1.Pod"
                     /\ e \in {Edge(o, pol, "traffic-allow", "", port, "exact"),
                               Edge(pol, o, "traffic-allow", "", port, "exact")}
    BY <1>1, <1>3, <1>5
  <1> QED BY <1>6 DEF port

NetworkPolicy == "networking.k8s.io/v1.NetworkPolicy"

\* No two edges of one rule of a policy have one key.
LEMMA AllowedKeyed ==
  ASSUME NEW S, Sole(S), NEW pol \in S, pol.type = NetworkPolicy, NEW rule
  PROVE  Keyed(AllowedIn(S, pol, rule)) /\ Keyed(AllowedOut(S, pol, rule))
  <1> DEFINE k == [r \in S |-> "traffic-allow"]
             p == [r \in S |-> singlePort(rule.ports)]
  <1>1. ASSUME NEW e \in AllowedIn(S, pol, rule) \cup AllowedOut(S, pol, rule)
        PROVE  \E r, o \in S :
                 /\ r.type = NetworkPolicy /\ o.type # NetworkPolicy
                 /\ e \in {Edge(o, r, k[r], "", p[r], "exact"), Edge(r, o, k[r], "", p[r], "exact")}
    <2>1. PICK o \in S : /\ o.type = "v1.Pod"
                         /\ e \in {Edge(o, pol, "traffic-allow", "", singlePort(rule.ports), "exact"),
                                   Edge(pol, o, "traffic-allow", "", singlePort(rule.ports), "exact")}
      BY AllowedJoin
    <2>2. k[pol] = "traffic-allow" /\ p[pol] = singlePort(rule.ports) OBVIOUS
    <2>3. o.type # NetworkPolicy BY <2>1 DEF NetworkPolicy
    <2> HIDE DEF k, p
    <2> QED BY <2>1, <2>2, <2>3
  <1> HIDE DEF k, p
  <1>2. Keyed(AllowedIn(S, pol, rule)) BY <1>1, RulesKeyed
  <1>3. Keyed(AllowedOut(S, pol, rule)) BY <1>1, RulesKeyed
  <1> QED BY <1>2, <1>3

\* The edges of a policy.
PolicyEdges(s, pol) ==
  IF ~HasRaw(pol) \/ Chooses(s, pol) = <<>> THEN <<>>
  ELSE Each(Get(pol.raw, "ingress", <<>>), LAMBDA rule : InFlow(s, pol, rule))
         \o Each(Get(pol.raw, "egress", <<>>), LAMBDA rule : OutFlow(s, pol, rule))

\* The edges of all policies are those of each.
LEMMA PolicyIs ==
  ASSUME NEW s
  PROVE  kubeNetworkPolicyFlow(s) = Each(ByType(s, NetworkPolicy), LAMBDA pol : PolicyEdges(s, pol))
  BY Zenon DEF kubeNetworkPolicyFlow, PolicyEdges, Chooses, InFlow, OutFlow, NetworkPolicy

\* The rules of a policy are lists.
LEMMA PolicyReadable ==
  ASSUME NEW pol, IsReadable(pol), pol.type = NetworkPolicy, NEW key \in {"ingress", "egress"}
  PROVE  LET rules == Get(pol.raw, key, <<>>)
         IN IsList(rules) /\ \A rule \in ToSet(rules) : IsList(rule.peers)
  BY Zenon DEF IsReadable, NetworkPolicy

\* The edges of a policy join it and a pod.
OfPolicy(S, pol, L) ==
  /\ IsList(L)
  /\ \A e \in ToSet(L) : \E o \in S :
       /\ o.type = "v1.Pod"
       /\ \/ e.from = AsRef(o) /\ e.to = AsRef(pol)
          \/ e.from = AsRef(pol) /\ e.to = AsRef(o)

\* Lists that join the policy and pods do so one after the other.
LEMMA OfPolicyEach ==
  ASSUME NEW S, NEW pol, NEW r, IsList(r), NEW g, g = [i \in DOMAIN r |-> g[i]],
         \A i \in DOMAIN r : OfPolicy(S, pol, g[i])
  PROVE  OfPolicy(S, pol, FlattenSeq(g \o <<>>))
  BY EachMakes DEF OfPolicy

\* The edges of one rule of a policy join it and a pod.
LEMMA FlowsJoin ==
  ASSUME NEW s, IsList(s), NEW pol, NEW rule, IsList(rule.peers)
  PROVE  OfPolicy(ToSet(s), pol, InFlow(s, pol, rule)) /\ OfPolicy(ToSet(s), pol, OutFlow(s, pol, rule))
  <1> DEFINE S == ToSet(s)
             V == AllowedIn(S, pol, rule)
             W == AllowedOut(S, pol, rule)
  <1>1. /\ IsList(InFlow(s, pol, rule)) /\ ToSet(InFlow(s, pol, rule)) = V
        /\ IsList(OutFlow(s, pol, rule)) /\ ToSet(OutFlow(s, pol, rule)) = W
    BY FlowsAre
  <1>2. ASSUME NEW e \in V \cup W
        PROVE  \E o \in S : /\ o.type = "v1.Pod"
                            /\ \/ e.from = AsRef(o) /\ e.to = AsRef(pol)
                               \/ e.from = AsRef(pol) /\ e.to = AsRef(o)
    <2> DEFINE port == singlePort(rule.ports)
    <2>1. PICK o \in S : /\ o.type = "v1.Pod"
                         /\ e \in {Edge(o, pol, "traffic-allow", "", port, "exact"),
                                   Edge(pol, o, "traffic-allow", "", port, "exact")}
      BY AllowedJoin
    <2> DEFINE f == Edge(o, pol, "traffic-allow", "", port, "exact")
               g == Edge(pol, o, "traffic-allow", "", port, "exact")
    <2>2. f.from = AsRef(o) /\ f.to = AsRef(pol) /\ g.from = AsRef(pol) /\ g.to = AsRef(o) BY DEF Edge
    <2>3. o \in S /\ o.type = "v1.Pod" /\ e \in {f, g} BY <2>1
    <2> HIDE DEF f, g, S
    <2> QED BY <2>2, <2>3
  <1> HIDE DEF S, V, W
  <1> QED BY <1>1, <1>2 DEF OfPolicy, S

\* So do the edges of the whole policy.
LEMMA PolicyJoins ==
  ASSUME NEW s, IsList(s), NEW pol, IsReadable(pol), pol.type = NetworkPolicy
  PROVE  OfPolicy(ToSet(s), pol, PolicyEdges(s, pol))
  <1> DEFINE S == ToSet(s)
             ins == Get(pol.raw, "ingress", <<>>)
             outs == Get(pol.raw, "egress", <<>>)
             f == [i \in DOMAIN ins |-> InFlow(s, pol, ins[i])]
             g == [i \in DOMAIN outs |-> OutFlow(s, pol, outs[i])]
             x == FlattenSeq(f \o <<>>)
             y == FlattenSeq(g \o <<>>)
  <1>1. PolicyEdges(s, pol) = IF ~HasRaw(pol) \/ Chooses(s, pol) = <<>> THEN <<>> ELSE x \o y
    BY Zenon DEF PolicyEdges, Each, Map
  <1>2. IsList(ins) /\ \A rule \in ToSet(ins) : IsList(rule.peers) BY PolicyReadable
  <1>3. IsList(outs) /\ \A rule \in ToSet(outs) : IsList(rule.peers) BY PolicyReadable
  <1> HIDE DEF ins, outs
  <1>4. f = [i \in DOMAIN ins |-> f[i]] /\ g = [i \in DOMAIN outs |-> g[i]] OBVIOUS
  <1>5. \A i \in DOMAIN ins : OfPolicy(S, pol, f[i])
    <2>1. \A i \in DOMAIN ins : IsList(ins[i].peers) BY <1>2 DEF ToSet
    <2> QED BY <2>1, FlowsJoin
  <1>6. \A i \in DOMAIN outs : OfPolicy(S, pol, g[i])
    <2>1. \A i \in DOMAIN outs : IsList(outs[i].peers) BY <1>3 DEF ToSet
    <2> QED BY <2>1, FlowsJoin
  <1> HIDE DEF f, g, S
  <1>7. OfPolicy(S, pol, x) /\ OfPolicy(S, pol, y) BY <1>2, <1>3, <1>4, <1>5, <1>6, OfPolicyEach
  <1> HIDE DEF x, y
  <1>8. IsList(x \o y) /\ ToSet(x \o y) = ToSet(x) \cup ToSet(y) BY <1>7, Together DEF OfPolicy
  <1>9. OfPolicy(S, pol, x \o y) BY <1>7, <1>8 DEF OfPolicy
  <1>10. OfPolicy(S, pol, <<>>) BY NoElement DEF OfPolicy, ToSet
  <1>11. OfPolicy(S, pol, PolicyEdges(s, pol)) BY <1>1, <1>9, <1>10
  <1> QED BY <1>11 DEF S

\* The edges of twin policies among twins are alike.
LEMMA PolicyTwins ==
  ASSUME NEW s, NEW t, IsList(s), IsList(t), Sole(ToSet(s)), Twins(ToSet(s), ToSet(t)),
         NEW r \in ToSet(s), NEW q, Twin(r, q), IsReadable(r), r.type = NetworkPolicy
  PROVE  Alike(PolicyEdges(s, r), PolicyEdges(t, q))
  <1> DEFINE S == ToSet(s)
             T == ToSet(t)
             ins == Get(r.raw, "ingress", <<>>)
             outs == Get(r.raw, "egress", <<>>)
             f1 == [i \in DOMAIN ins |-> InFlow(s, r, ins[i])]
             g1 == [i \in DOMAIN outs |-> OutFlow(s, r, outs[i])]
             f2 == [i \in DOMAIN ins |-> InFlow(t, q, ins[i])]
             g2 == [i \in DOMAIN outs |-> OutFlow(t, q, outs[i])]
  <1>0. r.raw = q.raw
    <2>1. r.type \in rawDependentTypes BY DEF rawDependentTypes, NetworkPolicy
    <2> QED BY <2>1, TwinIs
  <1>1. PolicyEdges(s, r) = IF ~HasRaw(r) \/ Chooses(s, r) = <<>> THEN <<>>
                            ELSE FlattenSeq(f1 \o <<>>) \o FlattenSeq(g1 \o <<>>)
    BY Zenon DEF PolicyEdges, Each, Map
  <1>2. PolicyEdges(t, q) = IF ~HasRaw(r) \/ Chooses(t, q) = <<>> THEN <<>>
                            ELSE FlattenSeq(f2 \o <<>>) \o FlattenSeq(g2 \o <<>>)
    <2>1. PolicyEdges(t, q) = IF ~HasRaw(q) \/ Chooses(t, q) = <<>> THEN <<>>
            ELSE Each(Get(q.raw, "ingress", <<>>), LAMBDA rule : InFlow(t, q, rule))
                   \o Each(Get(q.raw, "egress", <<>>), LAMBDA rule : OutFlow(t, q, rule))
      BY Zenon DEF PolicyEdges
    <2>2. HasRaw(q) <=> HasRaw(r) BY <1>0 DEF HasRaw
    <2>3. Get(q.raw, "ingress", <<>>) = ins /\ Get(q.raw, "egress", <<>>) = outs BY <1>0
    <2>4. Each(ins, LAMBDA rule : InFlow(t, q, rule)) = FlattenSeq(f2 \o <<>>) BY Zenon DEF Each, Map
    <2>5. Each(outs, LAMBDA rule : OutFlow(t, q, rule)) = FlattenSeq(g2 \o <<>>) BY Zenon DEF Each, Map
    <2> HIDE DEF ins, outs, f2, g2
    <2> QED BY <2>1, <2>2, <2>3, <2>4, <2>5, Zenon
  <1>3. IsList(ins) /\ \A rule \in ToSet(ins) : IsList(rule.peers) BY PolicyReadable
  <1>4. IsList(outs) /\ \A rule \in ToSet(outs) : IsList(rule.peers) BY PolicyReadable
  <1> HIDE DEF ins, outs
  <1>5. ASSUME NEW rule, IsList(rule.peers)
        PROVE  /\ Alike(InFlow(s, r, rule), InFlow(t, q, rule))
               /\ Alike(OutFlow(s, r, rule), OutFlow(t, q, rule))
    <2>1. AllowedIn(S, r, rule) = AllowedIn(T, q, rule) /\ AllowedOut(S, r, rule) = AllowedOut(T, q, rule)
      BY <1>0, AllowedTwins
    <2>2. Keyed(AllowedIn(S, r, rule)) /\ Keyed(AllowedOut(S, r, rule)) BY AllowedKeyed
    <2>3. /\ IsList(InFlow(s, r, rule)) /\ ToSet(InFlow(s, r, rule)) = AllowedIn(S, r, rule)
          /\ IsList(OutFlow(s, r, rule)) /\ ToSet(OutFlow(s, r, rule)) = AllowedOut(S, r, rule)
      BY <1>5, FlowsAre
    <2>4. /\ IsList(InFlow(t, q, rule)) /\ ToSet(InFlow(t, q, rule)) = AllowedIn(T, q, rule)
          /\ IsList(OutFlow(t, q, rule)) /\ ToSet(OutFlow(t, q, rule)) = AllowedOut(T, q, rule)
      BY <1>5, FlowsAre
    <2> HIDE DEF S, T
    <2> QED BY <2>1, <2>2, <2>3, <2>4, KeyedAlike
  <1>6. \A i \in DOMAIN ins : Alike(f1[i], f2[i])
    <2>1. \A i \in DOMAIN ins : IsList(ins[i].peers) BY <1>3 DEF ToSet
    <2> QED BY <2>1, <1>5
  <1>7. \A i \in DOMAIN outs : Alike(g1[i], g2[i])
    <2>1. \A i \in DOMAIN outs : IsList(outs[i].peers) BY <1>4 DEF ToSet
    <2> QED BY <2>1, <1>5
  <1>8. /\ f1 = [i \in DOMAIN ins |-> f1[i]] /\ f2 = [i \in DOMAIN ins |-> f2[i]]
        /\ g1 = [i \in DOMAIN outs |-> g1[i]] /\ g2 = [i \in DOMAIN outs |-> g2[i]]
    OBVIOUS
  <1> HIDE DEF f1, f2, g1, g2
  <1>9. /\ Alike(FlattenSeq(f1 \o <<>>), FlattenSeq(f2 \o <<>>))
        /\ Alike(FlattenSeq(g1 \o <<>>), FlattenSeq(g2 \o <<>>))
    BY <1>3, <1>4, <1>6, <1>7, <1>8, AlikeEach
  <1>10. Alike(FlattenSeq(f1 \o <<>>) \o FlattenSeq(g1 \o <<>>), FlattenSeq(f2 \o <<>>) \o FlattenSeq(g2 \o <<>>))
    BY <1>9, AlikeConcat
  <1>11. Chooses(s, r) = <<>> <=> Chooses(t, q) = <<>>
    <2>1. IsList(Chooses(s, r)) /\ ToSet(Chooses(s, r)) = Chosen(S, r) BY ChoosesAre
    <2>2. IsList(Chooses(t, q)) /\ ToSet(Chooses(t, q)) = Chosen(T, q) BY ChoosesAre
    <2>3. Chosen(S, r) = {} <=> Chosen(T, q) = {} BY <1>0, ChosenTwins, TwinsEmpty
    <2> QED BY <2>1, <2>2, <2>3, NoneListed
  <1>12. Alike(<<>>, <<>>) BY NoElement DEF Alike
  <1> QED BY <1>1, <1>2, <1>10, <1>11, <1>12

\* Of all policies, the graph keeps what it keeps of each.
LEMMA PoliciesLead ==
  ASSUME NEW s, IsList(s), Clear(ToSet(s))
  PROVE  /\ IsList(kubeNetworkPolicyFlow(s))
         /\ Leading(kubeNetworkPolicyFlow(s))
              = UNION {Leading(PolicyEdges(s, a)) : a \in {b \in ToSet(s) : b.type = NetworkPolicy}}
  <1> DEFINE S == ToSet(s)
             P == {b \in S : b.type = NetworkPolicy}
             of == ByType(s, NetworkPolicy)
             g == [i \in DOMAIN of |-> PolicyEdges(s, of[i])]
  <1>1. kubeNetworkPolicyFlow(s) = FlattenSeq(g \o <<>>)
    <2>1. Each(of, LAMBDA pol : PolicyEdges(s, pol)) = FlattenSeq(g \o <<>>) BY Zenon DEF Each, Map
    <2> QED BY <2>1, PolicyIs, Zenon
  <1>3. IsList(of) /\ ToSet(of) = P BY ByTypeIs
  <1> HIDE DEF of
  <1>4. \A i \in DOMAIN of : of[i] \in S /\ of[i].type = NetworkPolicy
    <2>1. \A i \in DOMAIN of : of[i] \in P
      <3> HIDE DEF P
      <3> QED BY <1>3 DEF ToSet
    <2> QED BY <2>1
  <1>5. g = [i \in DOMAIN of |-> g[i]] OBVIOUS
  <1>6. \A a \in S : a.type = NetworkPolicy => OfPolicy(S, a, PolicyEdges(s, a)) BY ClearIs, PolicyJoins
  <1>7. \A i \in DOMAIN of : OfPolicy(S, of[i], g[i]) BY <1>4, <1>6
  <1>8. Apart(g, DOMAIN of)
    <2>1. ASSUME NEW i \in DOMAIN of, NEW j \in DOMAIN of, NEW x \in ToSet(g[i]), NEW y \in ToSet(g[j]),
                 edgeKey(x) = edgeKey(y)
          PROVE  g[i] = g[j]
      <3> DEFINE p == of[i]
                 q == of[j]
      <3>1. PICK o \in S : /\ o.type = "v1.Pod"
                           /\ \/ x.from = AsRef(o) /\ x.to = AsRef(p)
                              \/ x.from = AsRef(p) /\ x.to = AsRef(o)
        BY <1>7 DEF OfPolicy
      <3>2. PICK u \in S : /\ u.type = "v1.Pod"
                           /\ \/ y.from = AsRef(u) /\ y.to = AsRef(q)
                              \/ y.from = AsRef(q) /\ y.to = AsRef(u)
        BY <1>7 DEF OfPolicy
      <3>3. refKey(x.from) = refKey(y.from) /\ refKey(x.to) = refKey(y.to) BY <2>1 DEF edgeKey
      <3>4. \A a, b \in S : refKey(AsRef(a)) = refKey(AsRef(b)) => a = b
        <4>1. \A a, b : refKey(AsRef(a)) = refKey(AsRef(b)) => a.id = b.id BY DEF refKey, AsRef
        <4> QED BY <4>1, ClearIs DEF Sole
      <3>5. p \in S /\ q \in S /\ p.type # "v1.Pod" /\ q.type # "v1.Pod" BY <1>4 DEF NetworkPolicy
      <3> HIDE DEF p, q, g
      <3>6. p = q BY <3>1, <3>2, <3>3, <3>4, <3>5
      <3> QED BY <3>6 DEF p, q, g
    <2> HIDE DEF g
    <2> QED BY <2>1 DEF Apart
  <1>9. \A i \in DOMAIN of : IsList(g[i]) BY <1>7 DEF OfPolicy
  <1> DEFINE G == UNION {Leading(g[i]) : i \in DOMAIN of}
  <1>10. IsList(FlattenSeq(g \o <<>>)) /\ Leading(FlattenSeq(g \o <<>>)) = G
    <2> HIDE DEF g
    <2> QED BY <1>3, <1>5, <1>8, <1>9, EachMakes, EachLeading
  <1>11. G = UNION {Leading(PolicyEdges(s, a)) : a \in ToSet(of)} BY DEF ToSet
  <1> HIDE DEF G, g
  <1> QED BY <1>1, <1>3, <1>10, <1>11

\* The edges of the network policies are alike for twins.
LEMMA PoliciesAlike ==
  ASSUME NEW s, NEW t, IsList(s), IsList(t), Clear(ToSet(s)), Clear(ToSet(t)),
         Twins(ToSet(s), ToSet(t))
  PROVE  Alike(kubeNetworkPolicyFlow(s), kubeNetworkPolicyFlow(t))
  <1> DEFINE S == ToSet(s)
             T == ToSet(t)
             P == {b \in S : b.type = NetworkPolicy}
             Q == {b \in T : b.type = NetworkPolicy}
             V == UNION {Leading(PolicyEdges(s, a)) : a \in P}
             W == UNION {Leading(PolicyEdges(t, a)) : a \in Q}
  <1>1. IsList(kubeNetworkPolicyFlow(s)) /\ Leading(kubeNetworkPolicyFlow(s)) = V BY PoliciesLead
  <1>2. IsList(kubeNetworkPolicyFlow(t)) /\ Leading(kubeNetworkPolicyFlow(t)) = W BY PoliciesLead
  <1>3. \A a \in P, b \in T : Twin(a, b) => Leading(PolicyEdges(s, a)) = Leading(PolicyEdges(t, b))
    BY ClearIs, PolicyTwins DEF Alike
  <1>4. \A a, b : Twin(a, b) => a.type = b.type BY TwinIs
  <1>5. V = W
    <2> HIDE DEF S, T
    <2> QED BY <1>3, <1>4 DEF Twins, S, T
  <1> HIDE DEF V, W
  <1> QED BY <1>1, <1>2, <1>5 DEF Alike

-----------------------------------------------------------------------------
(* The graph.                                                              *)

\* The graphs of twins have the same edges.
LEMMA BuildTwins ==
  ASSUME NEW s, NEW t, IsList(s), IsList(t), Clear(ToSet(s)), Clear(ToSet(t)),
         Twins(ToSet(s), ToSet(t))
  PROVE  ToSet(Build(s).edges) = ToSet(Build(t).edges)
  <1> DEFINE S == ToSet(s)
             T == ToSet(t)
  <1>1. Sole(S) /\ Sole(T) /\ \A a \in S \cup T : IsReadable(a) BY ClearIs
  <1>2. Alike(dnsToTarget(s), dnsToTarget(t)) BY <1>1, DnsIs, LinkedAlike
  <1>3. Alike(wafBinding(s), wafBinding(t)) BY <1>1, WafIs, LinkedAlike
  <1>4. Alike(lbToGateway(s), lbToGateway(t)) BY <1>1, LbIs, LinkedAlike
  <1>5. Alike(gatewayToService(s), gatewayToService(t)) BY GatewayAlike
  <1>6. Alike(serviceToWorkload(s), serviceToWorkload(t)) BY <1>1, ServiceIs, LinkedAlike
  <1>7. Alike(ociNetworkContainment(s), ociNetworkContainment(t)) BY <1>1, OciIs, LinkedAlike
  <1>8. Alike(kubeNetworkPolicyFlow(s), kubeNetworkPolicyFlow(t)) BY PoliciesAlike
  <1>9. Alike(tailscaleACLFlow(s), tailscaleACLFlow(t)) BY TailscaleAlike
  <1>10. Alike(netbirdPolicyFlow(s), netbirdPolicyFlow(t)) BY NetbirdAlike
  <1> DEFINE all(u) == dnsToTarget(u) \o wafBinding(u) \o lbToGateway(u)
                         \o gatewayToService(u) \o serviceToWorkload(u)
                         \o ociNetworkContainment(u) \o kubeNetworkPolicyFlow(u)
                         \o tailscaleACLFlow(u) \o netbirdPolicyFlow(u)
  <1>11. Alike(all(s), all(t))
    BY <1>2, <1>3, <1>4, <1>5, <1>6, <1>7, <1>8, <1>9, <1>10, AlikeConcat
  <1>12. Build(s).edges = dedupEdges(all(s)) /\ Build(t).edges = dedupEdges(all(t)) BY DEF Build
  <1> HIDE DEF all
  <1> QED BY <1>11, <1>12, DedupLeading DEF Alike

-----------------------------------------------------------------------------
(* What has been collected.                                                *)

\* A slice holds what the filter matches.
LEMMA SlicesAre ==
  ASSUME NEW s, IsList(s), NEW filter
  PROVE  IsList(Slice(filter, s)) /\ ToSet(Slice(filter, s)) = {a \in ToSet(s) : Match(filter, a)}
  <1> DEFINE I == {i \in DOMAIN s : Match(filter, s[i])}
             P == {a \in ToSet(s) : Match(filter, a)}
  <1>1. Slice(filter, s) = At(s, I) BY DEF Slice, Filter
  <1>2. (\A i \in DOMAIN s : i \in I <=> s[i] \in P) /\ P = ToSet(s) \cap P BY DEF ToSet
  <1>3. IsList(At(s, I)) /\ ToSet(At(s, I)) = P
    <2> HIDE DEF I, P
    <2> QED BY <1>2, PickedAre
  <1> QED BY <1>1, <1>3

\* An asset is collected as it is, but for its payload.
LEMMA Collecting ==
  ASSUME NEW a, IsAsset(a)
  PROVE  LET b == AsCollected(a)
         IN /\ b.provider = a.provider /\ b.account = a.account /\ b.region = a.region
            /\ b.type = a.type /\ b.id = a.id /\ b.name = a.name /\ b.status = a.status
            /\ b.tags = a.tags
            /\ b = IF a.provider \in payload THEN a ELSE [a EXCEPT !.raw = NoRaw]
            /\ b.raw = IF a.provider \in payload THEN a.raw ELSE NoRaw
  BY DEF IsAsset, AsCollected

\* A part of what is unambiguous is.
LEMMA UnambiguousPart ==
  ASSUME NEW S, NEW T, S \subseteq T, Unambiguous(T)
  PROVE  Unambiguous(S)
  BY Zenon DEF Unambiguous

\* What is collected of an unambiguous estate is clear, and so is the estate.
LEMMA CollectableClear ==
  ASSUME GraphInv, Unambiguous(pool), NEW S, S \subseteq Collectable \/ S \subseteq pool
  PROVE  Clear(S)
  <1>1. \A a \in pool : /\ IsAsset(a) /\ IsReadable(a)
                        /\ a.type = "tailscale.acl_rule" => a.provider = "tailscale"
    BY PoolsAreCollected, TypesHaveProviders DEF GraphInv
  <1>2. CASE S \subseteq pool
    BY <1>1, <1>2, UnambiguousPart DEF Clear
  <1>3. CASE S \subseteq Collectable
    <2>1. \A a \in Collectable : \E b \in pool :
            /\ a = AsCollected(b) /\ IsReadable(a)
            /\ a.type = b.type /\ a.id = b.id /\ a.name = b.name /\ a.provider = b.provider
            /\ \A key : Tag(a, key) = Tag(b, key) /\ TagList(a, key) = TagList(b, key)
      <3> SUFFICES ASSUME NEW b \in pool
                   PROVE  LET a == AsCollected(b)
                          IN /\ IsReadable(a)
                             /\ a.type = b.type /\ a.id = b.id /\ a.name = b.name /\ a.provider = b.provider
                             /\ \A key : Tag(a, key) = Tag(b, key) /\ TagList(a, key) = TagList(b, key)
        BY DEF Collectable
      <3> DEFINE a == AsCollected(b)
      <3>1. IsReadable(a) BY <1>1, StillReadable
      <3>2. a.type = b.type /\ a.id = b.id /\ a.name = b.name /\ a.provider = b.provider /\ a.tags = b.tags
        BY <1>1, Collecting
      <3> HIDE DEF a
      <3>3. \A key : Tag(a, key) = Tag(b, key) /\ TagList(a, key) = TagList(b, key)
        BY <3>2 DEF Tag, TagList
      <3> QED BY <3>1, <3>2, <3>3 DEF a
    <2>2. ASSUME NEW a \in Collectable, NEW b \in Collectable, NEW c \in pool, NEW d \in pool,
                 a = AsCollected(c), a.type = c.type, a.id = c.id, a.name = c.name,
                 \A key : Tag(a, key) = Tag(c, key) /\ TagList(a, key) = TagList(c, key),
                 b = AsCollected(d), b.type = d.type, b.id = d.id, b.name = d.name,
                 \A key : Tag(b, key) = Tag(d, key) /\ TagList(b, key) = TagList(d, key)
          PROVE  /\ a.id = b.id => a = b
                 /\ /\ a.type = "v1.Service" /\ b.type = "v1.Service"
                    /\ <<Tag(a, "namespace"), a.name>> = <<Tag(b, "namespace"), b.name>>
                    => a = b
                 /\ /\ a.type = "tailscale.user" /\ b.type = "tailscale.user"
                    /\ Tag(a, "login_name") # ""
                    /\ Mapped(LowerCase, Tag(a, "login_name")) = Mapped(LowerCase, Tag(b, "login_name"))
                    => a = b
                 /\ a.type = "netbird.policy_rule" /\ b.type = "netbird.policy_rule" =>
                      b.id \notin ToSet(TagList(a, "sources")) \cup ToSet(TagList(a, "destinations"))
      <3>1. /\ c.id = d.id => c = d
            /\ /\ c.type = "v1.Service" /\ d.type = "v1.Service"
               /\ <<Tag(c, "namespace"), c.name>> = <<Tag(d, "namespace"), d.name>>
               => c = d
            /\ /\ c.type = "tailscale.user" /\ d.type = "tailscale.user"
               /\ Tag(c, "login_name") # ""
               /\ Mapped(LowerCase, Tag(c, "login_name")) = Mapped(LowerCase, Tag(d, "login_name"))
               => c = d
            /\ c.type = "netbird.policy_rule" /\ d.type = "netbird.policy_rule" =>
                 d.id \notin ToSet(TagList(c, "sources")) \cup ToSet(TagList(c, "destinations"))
        BY Zenon DEF Unambiguous
      <3>2. c = d => a = b BY <2>2
      <3>3. /\ Tag(a, "namespace") = Tag(c, "namespace") /\ Tag(b, "namespace") = Tag(d, "namespace")
            /\ Tag(a, "login_name") = Tag(c, "login_name") /\ Tag(b, "login_name") = Tag(d, "login_name")
            /\ TagList(a, "sources") = TagList(c, "sources")
            /\ TagList(a, "destinations") = TagList(c, "destinations")
        BY <2>2, Zenon
      <3>4. a.type = c.type /\ a.id = c.id /\ a.name = c.name /\ b.type = d.type /\ b.id = d.id /\ b.name = d.name
        BY <2>2
      <3> QED BY <3>1, <3>2, <3>3, <3>4
    <2>3. Unambiguous(Collectable)
      <3>1. ASSUME NEW a \in Collectable, NEW b \in Collectable
            PROVE  /\ a.id = b.id => a = b
                   /\ /\ a.type = "v1.Service" /\ b.type = "v1.Service"
                      /\ <<Tag(a, "namespace"), a.name>> = <<Tag(b, "namespace"), b.name>>
                      => a = b
                   /\ /\ a.type = "tailscale.user" /\ b.type = "tailscale.user"
                      /\ Tag(a, "login_name") # ""
                      /\ Mapped(LowerCase, Tag(a, "login_name")) = Mapped(LowerCase, Tag(b, "login_name"))
                      => a = b
                   /\ a.type = "netbird.policy_rule" /\ b.type = "netbird.policy_rule" =>
                        b.id \notin ToSet(TagList(a, "sources")) \cup ToSet(TagList(a, "destinations"))
        <4>1. PICK c \in pool :
                /\ a = AsCollected(c) /\ a.type = c.type /\ a.id = c.id /\ a.name = c.name
                /\ \A key : Tag(a, key) = Tag(c, key) /\ TagList(a, key) = TagList(c, key)
          BY <2>1, Zenon
        <4>2. PICK d \in pool :
                /\ b = AsCollected(d) /\ b.type = d.type /\ b.id = d.id /\ b.name = d.name
                /\ \A key : Tag(b, key) = Tag(d, key) /\ TagList(b, key) = TagList(d, key)
          BY <2>1, Zenon
        <4> QED BY <4>1, <4>2, <2>2, Zenon
      <3> QED BY <3>1, Zenon DEF Unambiguous
    <2>4. Unambiguous(S) BY <1>3, <2>3, UnambiguousPart
    <2>5. \A a \in S : IsReadable(a) /\ (a.type = "tailscale.acl_rule" => a.provider = "tailscale")
      BY <1>1, <1>3, <2>1
    <2> QED BY <2>4, <2>5 DEF Clear
  <1> QED BY <1>2, <1>3

\* A slice of what has been collected.
LEMMA CollectedSlice ==
  ASSUME GraphInv, NEW filter
  PROVE  /\ IsList(collected) /\ IsFiniteSet(ToSet(collected)) /\ ToSet(collected) \subseteq Collectable
         /\ IsList(Slice(filter, collected))
         /\ ToSet(Slice(filter, collected)) = {a \in ToSet(collected) : Match(filter, a)}
  <1>1. collected \in Seq(Collectable) BY DEF GraphInv
  <1>2. IsList(collected) BY <1>1, Member
  <1>3. ToSet(collected) \subseteq Collectable BY <1>1 DEF ToSet
  <1>4. IsFiniteSet(ToSet(collected))
    <2> DEFINE n == Len(collected)
    <2>1. collected \in [1..n -> ToSet(collected)] /\ n \in Nat BY <1>2 DEF IsList
    <2>2. \A x \in ToSet(collected) : \E i \in 1..n : collected[i] = x BY <2>1 DEF ToSet
    <2> QED BY <2>1, <2>2, FiniteMany
  <1> QED BY <1>2, <1>3, <1>4, SlicesAre

\* The graph of the same assets in another order.
LEMMA Reordered ==
  ASSUME GraphInv, Unambiguous(pool), NEW filter
  PROVE  ToSet(Build(Slice(filter, collected)).edges)
           = ToSet(Build(Slice(filter, SetToSeq(ToSet(collected)))).edges)
  <1> DEFINE u == SetToSeq(ToSet(collected))
             s == Slice(filter, collected)
             t == Slice(filter, u)
  <1>1. /\ IsFiniteSet(ToSet(collected)) /\ ToSet(collected) \subseteq Collectable
        /\ IsList(s) /\ ToSet(s) = {a \in ToSet(collected) : Match(filter, a)}
    BY CollectedSlice
  <1>2. u \in Seq(ToSet(collected)) /\ ToSet(u) = ToSet(collected) BY <1>1, SetToSeqLength
  <1>3. IsList(u) BY <1>2 DEF IsList
  <1>4. IsList(t) /\ ToSet(t) = {a \in ToSet(u) : Match(filter, a)}
    <2> HIDE DEF u
    <2> QED BY <1>3, SlicesAre
  <1>5. ToSet(t) = ToSet(s)
    <2> HIDE DEF s, t, u
    <2> QED BY <1>1, <1>2, <1>4
  <1>6. Clear(ToSet(s))
    <2>1. ToSet(s) \subseteq Collectable
      <3> HIDE DEF s
      <3> QED BY <1>1
    <2> QED BY <2>1, CollectableClear
  <1>7. Twins(ToSet(s), ToSet(t)) BY <1>5 DEF Twins, Twin
  <1> HIDE DEF s, t
  <1>8. ToSet(Build(s).edges) = ToSet(Build(t).edges) BY <1>1, <1>4, <1>5, <1>6, <1>7, BuildTwins
  <1> QED BY <1>8 DEF s, t

\* Every answer to reach is given with the graph it was searched in.
LEMMA ReachOf ==
  ASSUME NEW req \in Requests, Ask(req), answer'.kind = "reach"
  PROVE  answer'.request = req /\ answer'.topo = Build(Slice(req.filter, collected))
  <1> DEFINE topo == Build(Slice(req.filter, collected))
             res == runReach(topo, req, req.opts)
  <1>1. answer' = IF req.command = "topology" THEN topologyAnswer(req) ELSE reachAnswer(req)
    BY Zenon DEF Ask
  <1>2. topologyAnswer(req).kind # "reach"
    BY DEF topologyAnswer, orphansAnswer, reportAnswer, renderTopology, graphAnswer, Refused
  <1>3. answer' = reachIn(req, topo) BY <1>1, <1>2, Zenon DEF reachAnswer
  <1> HIDE DEF topo
  <1>4. answer' # Refused BY DEF Refused
  <1>5. answer' = [kind |-> "reach", request |-> req, topo |-> topo, paths |-> res.paths,
                   truncated |-> res.truncated, outcome |-> ReachOutcome(req, res.paths)]
    BY <1>3, <1>4, Zenon DEF reachIn, pathsAnswer
  <1>6. answer'.request = req /\ answer'.topo = topo
    <2> HIDE DEF res
    <2> QED BY <1>5
  <1> QED BY <1>6 DEF topo

\* In whatever order the collection delivers an estate without ambiguous
\* look-ups, the graph an answer rests on has the same edges: what the first of
\* two equal edges is, and what a map keeps, is decided by what the assets are
\* (Build, over the fan-in of the providers).
THEOREM ArrivalOrderIsIrrelevant == Spec => []GraphIgnoresArrivalOrder
  <1> DEFINE Asked(ans, estate) == ans.kind = "reach" /\ Unambiguous(estate)
             Same(ans, got) ==
               ToSet(ans.topo.edges)
                 = ToSet(Build(Slice(ans.request.filter, SetToSeq(ToSet(got)))).edges)
  <1>1. GraphIgnoresArrivalOrder <=> (Asked(answer, pool) => Same(answer, collected))
    BY Zenon DEF GraphIgnoresArrivalOrder
  <1>2. GraphIgnoresArrivalOrder' <=> (Asked(answer', pool') => Same(answer', collected'))
    BY Zenon DEF GraphIgnoresArrivalOrder
  <1>3. Init => GraphIgnoresArrivalOrder
    <2>1. Init => answer.kind # "reach" BY DEF Init, NoAnswer
    <2> QED BY <1>1, <2>1, Zenon
  <1>4. GraphInv /\ GraphIgnoresArrivalOrder /\ [Next]_vars => GraphIgnoresArrivalOrder'
    <2> SUFFICES ASSUME GraphInv, GraphIgnoresArrivalOrder, [Next]_vars
                 PROVE  Asked(answer', pool') => Same(answer', collected')
      BY <1>2, Zenon
    <2>1. CASE \E a \in Missing : Deliver(a)
      <3>1. answer'.kind # "reach" BY <2>1 DEF Deliver, NoAnswer
      <3> QED BY <3>1, Zenon
    <2>2. CASE \E p \in ProvidersOf(pool) : Fail(p)
      <3>1. answer'.kind # "reach" BY <2>2 DEF Fail, NoAnswer
      <3> QED BY <3>1, Zenon
    <2>3. ASSUME NEW req \in Requests, Ask(req), Asked(answer', pool')
          PROVE  Same(answer', collected')
      <3>1. pool' = pool /\ collected' = collected BY <2>3, Zenon DEF Ask
      <3>2. Unambiguous(pool) /\ answer'.kind = "reach" BY <2>3, <3>1, Zenon
      <3>3. answer'.request = req /\ answer'.topo = Build(Slice(req.filter, collected))
        BY <2>3, <3>2, ReachOf
      <3>4. ToSet(Build(Slice(req.filter, collected)).edges)
              = ToSet(Build(Slice(req.filter, SetToSeq(ToSet(collected)))).edges)
        BY <3>2, Reordered
      <3> QED BY <3>1, <3>3, <3>4, Zenon
    <2>4. CASE UNCHANGED vars
      <3>1. answer' = answer /\ collected' = collected /\ pool' = pool BY <2>4 DEF vars
      <3> QED BY <3>1, <1>1, Zenon
    <2> QED BY <2>1, <2>2, <2>3, <2>4, Zenon DEF Next
  <1> QED BY <1>3, <1>4, GraphInvHolds, PTL DEF Spec

\* A filter does not read the payload.
LEMMA MatchesCollected ==
  ASSUME NEW a, IsAsset(a), NEW filter
  PROVE  Match(filter, AsCollected(a)) <=> Match(filter, a)
  <1> DEFINE b == AsCollected(a)
  <1>1. /\ b.provider = a.provider /\ b.account = a.account /\ b.region = a.region
        /\ b.type = a.type /\ b.id = a.id /\ b.name = a.name /\ b.status = a.status
        /\ b.tags = a.tags
    BY Collecting
  <1> HIDE DEF b
  <1>2. \A key : Field(b, key) = Field(a, key) BY <1>1 DEF Field
  <1>3. \A key : Tag(b, key) = Tag(a, key) BY <1>1 DEF Tag
  <1>4. \A clause : match(clause, b) <=> match(clause, a) BY <1>2, <1>3 DEF match
  <1>5. Match(filter, b) <=> Match(filter, a) BY <1>4 DEF Match
  <1> QED BY <1>5 DEF b

\* Without its payload an asset answers on the same addresses, unless it is a
\* Kubernetes object of a type that publishes some.
LEMMA AddressesCollected ==
  ASSUME NEW a, IsAsset(a), \/ a.provider # "kubernetes" \/ "kubernetes" \in payload
                            \/ AssetAddresses(a) = AssetAddresses([a EXCEPT !.raw = NoRaw])
  PROVE  AssetAddresses(AsCollected(a)) = AssetAddresses(a)
  <1> DEFINE b == AsCollected(a)
  <1>1. /\ b.provider = a.provider /\ b.type = a.type /\ b.name = a.name /\ b.tags = a.tags
        /\ b = IF a.provider \in payload THEN a ELSE [a EXCEPT !.raw = NoRaw]
    BY Collecting
  <1> HIDE DEF b
  <1>2. \A key : Tag(b, key) = Tag(a, key) /\ TagList(b, key) = TagList(a, key) BY <1>1 DEF Tag, TagList
  <1>3. ASSUME a.provider # "kubernetes" PROVE AssetAddresses(b) = AssetAddresses(a)
    <2> DEFINE Owns(ips, hosts) == [ips |-> ips \ {""}, hosts |-> Normalized(hosts), targets |-> {}]
               Pointing(c) == {Tag(c, "content")} \ {""}
               Record(c) == [Owns({}, {c.name}) EXCEPT
                               !.targets = CASE Tag(c, "type") \in {"A", "AAAA"} -> Pointing(c)
                                             [] Tag(c, "type") = "CNAME" -> Normalized(Pointing(c))
                                             [] OTHER -> {}]
               Balancer(c) == Owns(ToSet(TagList(c, "ip_addresses")), {})
               Device(c) == Owns({Tag(c, key) : key \in {"ip", "ipv6", "connection_ip"}},
                                 {Tag(c, key) : key \in {"dns_label", "dns_name", "hostname"}})
    <2>1. ASSUME NEW c, c.provider # "kubernetes"
          PROVE  AssetAddresses(c) =
                   IF c.type = "cloudflare.dns_record" THEN Record(c)
                   ELSE IF c.type = "oci.load_balancer" THEN Balancer(c)
                   ELSE IF c.type \in {"netbird.peer", "tailscale.device", "tailscale.acl_host"} THEN Device(c)
                   ELSE IF c.provider = "gcp" THEN Balancer(c) ELSE Owns({}, {})
      <3>1. AssetAddresses(c) =
              CASE c.type = "cloudflare.dns_record" -> Record(c)
                [] c.type = "oci.load_balancer" -> Balancer(c)
                [] c.type \in {"netbird.peer", "tailscale.device", "tailscale.acl_host"} -> Device(c)
                [] OTHER -> CASE c.provider = "gcp" -> Balancer(c)
                              [] c.provider = "kubernetes" ->
                                   Owns(kubeExternalIPs(c.raw), kubeExternalHosts(c.raw) \cup kubeIngressHosts(c.raw))
                              [] OTHER -> Owns({}, {})
        BY Zenon DEF AssetAddresses
      <3> HIDE DEF Record, Balancer, Device, Owns
      <3> QED BY <2>1, <3>1
    <2>2. Record(a) = Record(b) BY <1>1, <1>2
    <2>3. Balancer(a) = Balancer(b) BY <1>2
    <2>4. Device(a) = Device(b)
      <3>1. /\ {Tag(a, key) : key \in {"ip", "ipv6", "connection_ip"}}
                 = {Tag(b, key) : key \in {"ip", "ipv6", "connection_ip"}}
            /\ {Tag(a, key) : key \in {"dns_label", "dns_name", "hostname"}}
                 = {Tag(b, key) : key \in {"dns_label", "dns_name", "hostname"}}
        BY <1>2
      <3> QED BY <3>1, Zenon
    <2> HIDE DEF Record, Balancer, Device, Owns
    <2> QED BY <1>1, <1>3, <2>1, <2>2, <2>3, <2>4
  <1>4. ASSUME a.provider = "kubernetes" PROVE AssetAddresses(b) = AssetAddresses(a)
    <2>1. CASE "kubernetes" \in payload
      <3>1. b = a BY <1>1, <1>4, <2>1
      <3> QED BY <3>1
    <2>2. CASE "kubernetes" \notin payload
      <3>1. b = [a EXCEPT !.raw = NoRaw] BY <1>1, <1>4, <2>2
      <3>2. AssetAddresses(a) = AssetAddresses([a EXCEPT !.raw = NoRaw]) BY <1>4, <2>2
      <3> QED BY <3>1, <3>2, Zenon
    <2> QED BY <2>1, <2>2
  <1> QED BY <1>3, <1>4 DEF b

\* With no provider failed, what has been collected is the estate.
LEMMA AllCollected ==
  ASSUME GraphInv, Collected, failed = {}, Unambiguous(pool)
  PROVE  /\ ToSet(collected) = Collectable
         /\ IsList(SetToSeq(pool)) /\ ToSet(SetToSeq(pool)) = pool
  <1>1. Missing = {} BY DEF Collected
  <1>2. \A a \in pool : AsCollected(a) \in ToSet(collected) BY <1>1 DEF Missing
  <1>3. IsFiniteSet(ToSet(collected)) /\ ToSet(collected) \subseteq Collectable BY CollectedSlice
  <1>4. ToSet(collected) = Collectable BY <1>2, <1>3 DEF Collectable
  <1>5. IsFiniteSet(pool)
    <2> DEFINE f == [x \in Collectable |-> CHOOSE a \in pool : AsCollected(a) = x]
    <2>1. \A a \in pool : AsCollected(a).id = a.id BY PoolsAreCollected, Collecting DEF GraphInv
    <2>2. \A a, b \in pool : AsCollected(a) = AsCollected(b) => a = b
      BY <2>1, Zenon DEF Unambiguous
    <2>3. \A a \in pool : AsCollected(a) \in Collectable /\ f[AsCollected(a)] = a
      BY <2>2 DEF Collectable
    <2>4. f \in [Collectable -> pool] BY <2>2 DEF Collectable
    <2> HIDE DEF f
    <2>5. f \in Surjection(Collectable, pool) BY <2>3, <2>4 DEF Surjection
    <2> QED BY <2>5, <1>3, <1>4, FS_Surjection
  <1>6. SetToSeq(pool) \in Seq(pool) /\ ToSet(SetToSeq(pool)) = pool BY <1>5, SetToSeqLength
  <1> QED BY <1>4, <1>6 DEF IsList

\* A report that is silent about payloads has those of every asset that a
\* resolver reads one of.
LEMMA SilentReport ==
  ASSUME GraphInv, NEW topo, ToSet(topo.nodes) \subseteq Collectable, NEW dim,
         orphanCaveat(Orphans(topo, dim)) \cap {"no raw", "raw missing for types"} = {},
         NEW c \in ToSet(topo.nodes), c.type \in rawDependentTypes
  PROVE  "kubernetes" \in payload
  <1> DEFINE nodes == ToSet(topo.nodes)
             report == Orphans(topo, dim)
             unread == {a.type : a \in nodes} \cap rawDependentTypes
  <1>1. report.RawMissingFor = {t \in unread : \A a \in nodes : a.type = t => ~HasRaw(a)}
    BY Zenon DEF Orphans
  <1>2. report.RawMissingFor = {}
    <2> HIDE DEF report
    <2> QED BY DEF orphanCaveat, report
  <1>3. c.type \in unread OBVIOUS
  <1>4. PICK a \in nodes : a.type = c.type /\ HasRaw(a)
    <2> HIDE DEF report, unread, nodes
    <2> QED BY <1>1, <1>2, <1>3
  <1>5. PICK b \in pool : a = AsCollected(b) BY <1>4 DEF Collectable
  <1>6. IsAsset(b) /\ (b.type \in rawDependentTypes => b.provider = "kubernetes")
    BY PoolsAreCollected, TypesHaveProviders DEF GraphInv
  <1>7. a.type = b.type /\ a.raw = IF b.provider \in payload THEN b.raw ELSE NoRaw
    BY <1>5, <1>6, Collecting
  <1>8. ~HasRaw(a) \/ b.provider \in payload BY <1>7 DEF HasRaw, NoRaw
  <1> QED BY <1>4, <1>6, <1>7, <1>8

\* When the report is silent about payloads, the assets have the edges they have with all payloads.
LEMMA NothingLost ==
  ASSUME GraphInv, Collected, failed = {}, Unambiguous(pool), PublishedByKnownTypes(pool),
         NEW filter, NEW dim,
         orphanCaveat(Orphans(Build(Slice(filter, collected)), dim))
           \cap {"no raw", "raw missing for types"} = {}
  PROVE  Incident(Build(Slice(filter, SetToSeq(pool)))) = Incident(Build(Slice(filter, collected)))
  <1> DEFINE u == SetToSeq(pool)
             s == Slice(filter, collected)
             t == Slice(filter, u)
             topo == Build(s)
  <1>1. ToSet(collected) = Collectable /\ IsList(u) /\ ToSet(u) = pool BY AllCollected
  <1>2. IsList(s) /\ ToSet(s) = {c \in Collectable : Match(filter, c)} BY <1>1, CollectedSlice
  <1>3. IsList(t) /\ ToSet(t) = {a \in pool : Match(filter, a)}
    <2> HIDE DEF u
    <2> QED BY <1>1, SlicesAre
  <1>4. topo.nodes = s BY DEF Build
  <1>5. orphanCaveat(Orphans(topo, dim)) \cap {"no raw", "raw missing for types"} = {} OBVIOUS
  <1> HIDE DEF s, t, u, topo
  <1>6. ToSet(s) \subseteq Collectable /\ ToSet(t) \subseteq pool BY <1>2, <1>3
  <1>7. Clear(ToSet(s)) /\ Clear(ToSet(t)) BY <1>6, CollectableClear
  <1>8. \A c \in ToSet(s) : c.type \in rawDependentTypes => "kubernetes" \in payload
    BY <1>4, <1>5, <1>6, SilentReport
  <1>9. ASSUME NEW a \in pool
        PROVE  /\ AsCollected(a) \in ToSet(s) <=> a \in ToSet(t)
               /\ a \in ToSet(t) => Twin(AsCollected(a), a)
    <2> DEFINE c == AsCollected(a)
    <2>1. IsAsset(a) /\ (a.type \in rawDependentTypes => a.provider = "kubernetes")
      BY PoolsAreCollected, TypesHaveProviders DEF GraphInv
    <2>2. c \in Collectable BY DEF Collectable
    <2>3. c \in ToSet(s) <=> a \in ToSet(t) BY <1>2, <1>3, <2>1, <2>2, MatchesCollected
    <2>4. /\ c.provider = a.provider /\ c.account = a.account /\ c.type = a.type /\ c.id = a.id
          /\ c.name = a.name /\ c.tags = a.tags
          /\ c.raw = IF a.provider \in payload THEN a.raw ELSE NoRaw
      BY <2>1, Collecting
    <2>5. ASSUME a \in ToSet(t) PROVE Twin(c, a)
      <3>1. c.type \in rawDependentTypes => "kubernetes" \in payload BY <1>8, <2>3, <2>5
      <3>2. c.type \in rawDependentTypes => c.raw = a.raw BY <2>1, <2>4, <3>1
      <3>3. \/ a.provider # "kubernetes" \/ "kubernetes" \in payload
            \/ AssetAddresses(a) = AssetAddresses([a EXCEPT !.raw = NoRaw])
        <4>1. a.provider = "kubernetes" /\ a.type \notin {"v1.Service", "networking.k8s.io/v1.Ingress"} =>
                AssetAddresses(a) = AssetAddresses([a EXCEPT !.raw = NoRaw])
          BY Zenon DEF PublishedByKnownTypes
        <4>2. a.type \in {"v1.Service", "networking.k8s.io/v1.Ingress"} => a.type \in rawDependentTypes
          BY DEF rawDependentTypes
        <4> HIDE DEF c
        <4> QED BY <4>1, <4>2, <2>4, <3>1
      <3>4. AssetAddresses(c) = AssetAddresses(a) BY <2>1, <3>3, AddressesCollected
      <3>5. AsRef(c) = AsRef(a)
        <4> HIDE DEF c
        <4> QED BY <2>4 DEF AsRef
      <3> HIDE DEF c
      <3> QED BY <2>4, <3>2, <3>4, <3>5 DEF Twin
    <2> QED BY <2>3, <2>5
  <1>10. \A c \in ToSet(s) : \E a \in pool : c = AsCollected(a) BY <1>6 DEF Collectable
  <1>11. Twins(ToSet(s), ToSet(t))
    <2>1. \A c \in ToSet(s) : \E a \in ToSet(t) : Twin(c, a) BY <1>9, <1>10
    <2>2. \A a \in ToSet(t) : \E c \in ToSet(s) : Twin(c, a) BY <1>6, <1>9
    <2> QED BY <2>1, <2>2 DEF Twins
  <1>12. ToSet(Build(s).edges) = ToSet(Build(t).edges) BY <1>2, <1>3, <1>7, <1>11, BuildTwins
  <1>13. Incident(Build(t)) = Incident(Build(s)) BY <1>12 DEF Incident
  <1> QED BY <1>13 DEF s, t, u

\* What a report on the whole graph is made of.
LEMMA ReportOf ==
  ASSUME NEW req \in Requests, Ask(req), answer'.kind = "orphans"
  PROVE  /\ answer'.request = req /\ answer'.report = Orphans(Traced(req), req.groupBy)
         /\ answer'.caveats = orphanCaveat(answer'.report) \cup narrowingCaveats(req)
  <1> DEFINE report == Orphans(Traced(req), req.groupBy)
  <1>1. answer' = IF req.command = "topology" THEN topologyAnswer(req) ELSE reachAnswer(req)
    BY Zenon DEF Ask
  <1>2. reachAnswer(req).kind # "orphans"
    <2> DEFINE topo == Build(Slice(req.filter, collected))
               res == runReach(topo, req, req.opts)
    <2>1. reachAnswer(req) = IF (~req.exposed /\ req.from = {} /\ req.to = {}) \/ res = MatchedNothing THEN Refused
            ELSE [kind |-> "reach", request |-> req, topo |-> topo, paths |-> res.paths,
                  truncated |-> res.truncated, outcome |-> ReachOutcome(req, res.paths)]
      BY Zenon DEF reachAnswer, reachIn, pathsAnswer
    <2> HIDE DEF topo, res
    <2> QED BY <2>1 DEF Refused
  <1>3. answer' = topologyAnswer(req) BY <1>1, <1>2
  <1>4. renderTopology(req).kind # "orphans" BY DEF renderTopology, graphAnswer
  <1>5. Refused.kind # "orphans" BY DEF Refused
  <1>6. answer' = reportAnswer(req, report)
    BY <1>3, <1>4, <1>5, Zenon DEF topologyAnswer, orphansAnswer
  <1> HIDE DEF report
  <1>7. /\ answer'.request = req /\ answer'.report = report
        /\ answer'.caveats = orphanCaveat(report) \cup narrowingCaveats(req)
    BY <1>6 DEF reportAnswer
  <1> QED BY <1>7 DEF report

\* A report on the whole graph lists nothing for the lack of payloads alone
\* without saying that payloads are missing: where no asset that a resolver
\* reads the payload of came without it, the graph has the edges of the graph
\* with all of them (orphanCaveat, cli/topology.go).
THEOREM LostEdgesHaveAReason == Spec => []LostEdgesAreExplained
  <1> DEFINE Asked(ans, bad, estate) == /\ ans.kind = "orphans" /\ bad = {} /\ ans.request.hostnames = {}
                                        /\ Unambiguous(estate) /\ PublishedByKnownTypes(estate)
  <1>1. LostEdgesAreExplained <=> (Asked(answer, failed, pool) => ~ListsWithoutReason)
    BY Zenon DEF LostEdgesAreExplained
  <1>2. LostEdgesAreExplained' <=> (Asked(answer', failed', pool') => ~ListsWithoutReason')
    BY Zenon DEF LostEdgesAreExplained
  <1>3. Init => LostEdgesAreExplained
    <2>1. Init => answer.kind # "orphans" BY DEF Init, NoAnswer
    <2> QED BY <1>1, <2>1, Zenon
  <1>4. GraphInv /\ LostEdgesAreExplained /\ [Next]_vars => LostEdgesAreExplained'
    <2> SUFFICES ASSUME GraphInv, LostEdgesAreExplained, [Next]_vars
                 PROVE  Asked(answer', failed', pool') => ~ListsWithoutReason'
      BY <1>2, Zenon
    <2>1. CASE \E a \in Missing : Deliver(a)
      <3>1. answer'.kind # "orphans" BY <2>1 DEF Deliver, NoAnswer
      <3> QED BY <3>1, Zenon
    <2>2. CASE \E p \in ProvidersOf(pool) : Fail(p)
      <3>1. answer'.kind # "orphans" BY <2>2 DEF Fail, NoAnswer
      <3> QED BY <3>1, Zenon
    <2>3. ASSUME NEW req \in Requests, Ask(req), Asked(answer', failed', pool'), ListsWithoutReason'
          PROVE  FALSE
      <3> DEFINE got == Build(Slice(req.filter, collected))
                 whole == Build(Slice(req.filter, SetToSeq(pool)))
      <3>1. /\ pool' = pool /\ collected' = collected /\ failed' = failed /\ Collected
        BY <2>3, Zenon DEF Ask
      <3>2. answer'.kind = "orphans" /\ failed = {} /\ Unambiguous(pool) /\ PublishedByKnownTypes(pool)
        BY <2>3, <3>1, Zenon
      <3>3. /\ answer'.request = req /\ answer'.report = Orphans(Traced(req), req.groupBy)
            /\ answer'.caveats = orphanCaveat(answer'.report) \cup narrowingCaveats(req)
        BY <2>3, <3>2, ReportOf
      <3>4. req.hostnames = {} BY <2>3, <3>3, Zenon
      <3>5. Traced(req) = got /\ FilterByHostname(whole, req.hostnames) = whole
        BY <3>4, Zenon DEF Traced, FilterByHostname
      <3> DEFINE lost(a) == nodeKey(a) \in Incident(FilterByHostname(whole, req.hostnames)) \ Incident(Traced(req))
      <3>6. /\ \E a \in pool : lost(a)
            /\ answer'.caveats \cap {"no raw", "raw missing for types"} = {}
        <4>1. answer'.request = req /\ pool' = pool /\ collected' = collected BY <3>1, <3>3
        <4>2. Traced(req)' = Traced(req) BY <3>1 DEF Traced
        <4> QED BY <2>3, <4>1, <4>2 DEF ListsWithoutReason
      <3> HIDE DEF got, whole
      <3>7. orphanCaveat(Orphans(got, req.groupBy)) \cap {"no raw", "raw missing for types"} = {}
        BY <3>3, <3>5, <3>6
      <3>8. Incident(whole) = Incident(got) BY <3>1, <3>2, <3>7, NothingLost DEF got, whole
      <3> QED BY <3>5, <3>6, <3>8
    <2>4. CASE UNCHANGED vars
      <3>1. answer' = answer /\ failed' = failed /\ pool' = pool /\ collected' = collected BY <2>4 DEF vars
      <3>2. ListsWithoutReason' <=> ListsWithoutReason BY <3>1 DEF ListsWithoutReason, Traced
      <3> QED BY <3>1, <3>2, <1>1, Zenon
    <2> QED BY <2>1, <2>2, <2>3, <2>4, Zenon DEF Next
  <1> QED BY <1>3, <1>4, GraphInvHolds, PTL DEF Spec
=============================================================================
