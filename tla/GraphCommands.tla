---------------------------- MODULE GraphCommands ----------------------------
(***************************************************************************)
(* The commands and handlers that answer from the graph: topology and       *)
(* reach, of the CLI and of the web server.  The collection delivers the    *)
(* estate's assets in any order, with the payloads of some providers only   *)
(* (a snapshot file may lack them); a provider may fail, and then what it   *)
(* had not delivered is missing.  One request is answered from the result.  *)
(***************************************************************************)
EXTENDS Reach, GraphReports, Filters

CONSTANTS
  Pools,    \* the estates: sets of assets, with their payloads
  Requests  \* the requests a client may make

\* What the resolvers go through as a list is one: the comma-joined tags and
\* the arrays of the payload.
IsReadable(a) ==
  LET Raw(key) == Get(a.raw, key, <<>>)
  IN /\ a.type = "oci.load_balancer" => IsList(TagList(a, "ip_addresses"))
     /\ a.type = "netbird.policy_rule" => \A key \in {"sources", "destinations"} : IsList(TagList(a, key))
     /\ a.type = "tailscale.acl_rule" => \A key \in {"src", "dst"} :
          IsList(TagList(a, key)) /\ \A sel \in ToSet(TagList(a, key)) : sel.form \in SelectorForms
     /\ a.type \in HTTPRoutes =>
          IsList(Raw("rules")) /\ \A rule \in ToSet(Raw("rules")) : IsList(rule.backendRefs)
     /\ a.type = "networking.k8s.io/v1.Ingress" =>
          IsList(Raw("rules")) /\ \A rule \in ToSet(Raw("rules")) : IsList(rule.paths)
     /\ a.type = "networking.k8s.io/v1.NetworkPolicy" => \A key \in {"ingress", "egress"} :
          IsList(Raw(key)) /\ \A rule \in ToSet(Raw(key)) : IsList(rule.peers)

ASSUME PoolsAreCollected == \A p \in Pools : \A a \in p : IsAsset(a) /\ IsReadable(a)

\* Every node that may be asked about has its place in the order.
ASSUME OrderIsComplete ==
  IsList(Order) /\ \A p \in Pools : \A a \in p : nodeKey(a) \in ToSet(Order)

\* The types that only one provider collects, of those whose payload is read
\* and of those that lead through a rule.
ASSUME TypesHaveProviders ==
  \A p \in Pools : \A a \in p :
    /\ a.type \in rawDependentTypes => a.provider = "kubernetes"
    /\ a.type = "tailscale.acl_rule" => a.provider = "tailscale"

\* A command line or a query that was parsed.
ASSUME RequestsAreParsed ==
  \A req \in Requests :
    /\ req.command \in {"topology", "reach"}
    /\ req.command = "reach" => req.opts.maxHops \in Int /\ req.opts.maxPaths \in Int

VARIABLES
  pool,       \* the estate
  payload,    \* the providers whose assets carry their payload
  collected,  \* the assets delivered, in order
  failed,     \* the providers that reported an error
  answer      \* what the request was answered with

vars == <<pool, payload, collected, failed, answer>>

ProvidersOf(assets) == {a.provider : a \in assets}
AsCollected(a) == IF a.provider \in payload THEN a ELSE [a EXCEPT !.raw = NoRaw]
Missing == {a \in pool : AsCollected(a) \notin ToSet(collected)}
NoAnswer == [kind |-> "none"]

Init ==
  /\ pool \in Pools
  /\ payload \in SUBSET ProvidersOf({a \in pool : HasRaw(a)})
  /\ collected = <<>>
  /\ failed = {}
  /\ answer = NoAnswer

Deliver(a) ==
  /\ answer = NoAnswer /\ a \in Missing /\ a.provider \notin failed
  /\ collected' = Append(collected, AsCollected(a))
  /\ UNCHANGED <<pool, payload, failed, answer>>

Fail(p) ==
  /\ answer = NoAnswer /\ p \notin failed
  /\ \E a \in Missing : a.provider = p
  /\ failed' = failed \cup {p}
  /\ UNCHANGED <<pool, payload, collected, answer>>

-----------------------------------------------------------------------------
(* topology                                                                *)

Refused == [kind |-> "refused"]
Partial(code) == IF failed # {} THEN "ErrPartial" ELSE code

Detail(req) == IF req.detail = "" THEN "low" ELSE req.detail

RenderGroupBy(detail, groupBy) == IF detail = "high" THEN "" ELSE groupBy

narrowingCaveats(req) ==
  (IF req.hostnames # {} THEN {"hostname"} ELSE {})
    \cup (IF req.filter # {} THEN {"filter"} ELSE {})

Traced(req) == FilterByHostname(Build(Slice(req.filter, collected)), req.hostnames)

\* The report is of the graph before DropOrphans; it refuses to be collapsed.
reportAnswer(req, report) ==
  [kind |-> "orphans", request |-> req, report |-> report,
   caveats |-> orphanCaveat(report) \cup narrowingCaveats(req), outcome |-> Partial("ok")]
orphansAnswer(req) ==
  IF Detail(req) # "low" THEN Refused ELSE reportAnswer(req, Orphans(Traced(req), req.groupBy))

graphAnswer(req, topo) ==
  [kind |-> "graph", request |-> req, topo |-> topo,
   drawn |-> IF Detail(req) = "low" THEN topo ELSE Collapse(topo, Detail(req), req.groupBy),
   clusters |-> RenderGroupBy(Detail(req), req.groupBy), outcome |-> Partial("ok")]
renderTopology(req) ==
  LET traced == Traced(req)
  IN graphAnswer(req, IF req.includeOrphans THEN traced ELSE DropOrphans(traced))

topologyAnswer(req) ==
  IF Detail(req) \notin {"low", "medium", "high"} THEN Refused
  ELSE IF req.orphans THEN orphansAnswer(req) ELSE renderTopology(req)

-----------------------------------------------------------------------------
(* reach                                                                   *)

\* A gate that finds a route says so before it says that the collection was
\* incomplete.
ReachOutcome(req, paths) ==
  IF req.exitCode /\ paths # <<>> THEN "ErrExposed" ELSE Partial("ok")

pathsAnswer(req, topo, res) ==
  IF (~req.exposed /\ req.from = {} /\ req.to = {}) \/ res = MatchedNothing THEN Refused
  ELSE [kind |-> "reach", request |-> req, topo |-> topo, paths |-> res.paths,
        truncated |-> res.truncated, outcome |-> ReachOutcome(req, res.paths)]
reachIn(req, topo) == pathsAnswer(req, topo, runReach(topo, req, req.opts))
reachAnswer(req) == reachIn(req, Build(Slice(req.filter, collected)))

-----------------------------------------------------------------------------

Collected == \A a \in Missing : a.provider \in failed

Ask(req) ==
  /\ Collected
  /\ answer' = IF req.command = "topology" THEN topologyAnswer(req) ELSE reachAnswer(req)
  /\ UNCHANGED <<pool, payload, collected, failed>>

Next ==
  \/ \E a \in Missing : Deliver(a)
  \/ \E p \in ProvidersOf(pool) : Fail(p)
  \/ answer = NoAnswer /\ \E req \in Requests : Ask(req)

Spec == Init /\ [][Next]_vars

-----------------------------------------------------------------------------
(* Properties.                                                             *)

\* An edge that is followed from a to b.
LeadsOn(topo, direction, opts, e, a, b) ==
  /\ e \in ToSet(topo.edges) /\ allows(opts, e) /\ {a, b} \subseteq Known(topo)
  /\ <<refKey(e.from), refKey(e.to)>> = IF direction = "upstream" THEN <<b, a>> ELSE <<a, b>>

Step(topo, direction, opts, from) ==
  {b \in Known(topo) :
     \E a \in from : \E e \in ToSet(topo.edges) : LeadsOn(topo, direction, opts, e, a, b)}

\* The nodes within n hops of the seeds.
Within(topo, direction, opts, seeds) ==
  LET W[n \in 0..maxHops(opts)] ==
        IF n = 0 THEN seeds ELSE W[n - 1] \cup Step(topo, direction, opts, W[n - 1])
  IN W

IsRoute(path, topo, direction, opts) ==
  /\ Cardinality(ToSet(path.nodes)) = Len(path.nodes)
  /\ Len(path.nodes) = Length(path) + 1
  /\ \A i \in 1..Length(path) :
       LeadsOn(topo, direction, opts, path.edges[i], path.nodes[i], path.nodes[i + 1])

ReachHolds(topo, direction, opts, seeds, paths) ==
  LET W == Within(topo, direction, opts, seeds)
      expected == W[maxHops(opts)] \ seeds
      found == {Target(p) : p \in ToSet(paths)}
      Distance(k) == CHOOSE n \in 1..maxHops(opts) : k \in W[n] /\ k \notin W[n - 1]
  IN /\ found \subseteq expected
     /\ Len(paths) = IF Cardinality(expected) < maxPaths(opts)
                     THEN Cardinality(expected) ELSE maxPaths(opts)
     /\ Cardinality(found) = Len(paths)
     /\ \A p \in ToSet(paths) :
          /\ IsRoute(p, topo, direction, opts) /\ Length(p) = Distance(Target(p))
          /\ \A k \in expected \ found : Distance(k) >= Length(p)

\* "What can X reach" and "what can reach X" are answered with one route to
\* every asset within the hop limit and to no other, no longer than it must
\* be; a limit on the number of routes leaves out none that is nearer than one
\* it keeps.  "How can X reach Y" is answered with real routes, and with none
\* only if no Y is within reach (Reachable and Paths, topology/reach.go).
ReachIsExact ==
  answer.kind = "reach" /\ ~answer.request.exposed =>
    LET req == answer.request
        topo == answer.topo
        sources == ToSet(Select(topo, req.from))
        targets == ToSet(Select(topo, req.to))
        Far(s) == Within(topo, "downstream", req.opts, {s})[maxHops(req.opts)] \ {s}
    IN CASE req.to = {} -> ReachHolds(topo, "downstream", req.opts, sources, answer.paths)
         [] req.from = {} /\ req.to # {} -> ReachHolds(topo, "upstream", req.opts, targets, answer.paths)
         [] OTHER ->
              /\ answer.paths = <<>> <=> \A s \in sources : Far(s) \cap targets = {}
              /\ \A p \in ToSet(answer.paths) :
                   /\ IsRoute(p, topo, "downstream", req.opts)
                   /\ p.nodes[1] \in sources /\ Target(p) \in targets

\* Every asset that a public entry point reaches is shown to be exposed (or is
\* itself one of the entry points) (entryRoots, topology/reach.go, whose comment
\* says that the fallback keeps the report populated).
ExposureIsComplete ==
  answer.kind = "reach" /\ answer.request.exposed /\ ~answer.truncated =>
    LET topo == answer.topo
        opts == answer.request.opts
        entries == ToSet(EntryPoints(topo))
        exposed == Within(topo, "downstream", opts, entries)[maxHops(opts)]
    IN exposed \subseteq entries \cup {Target(p) : p \in ToSet(answer.paths)}

\* Tracing hostnames keeps the parts of the graph that are connected to one of
\* their records, whole: what is left is closed under the edges in both
\* directions and holds nothing that is not joined to a record
\* (Topology.FilterByHostname).
HostnameTraceIsWhole ==
  answer.kind = "graph" /\ answer.request.includeOrphans /\ answer.request.hostnames # {} =>
    LET built == Build(Slice(answer.request.filter, collected))
        wanted == {Mapped(LowerCase, h) : h \in answer.request.hostnames}
        kept == {nodeKey(a) : a \in ToSet(answer.topo.nodes)}
        records == {nodeKey(a) : a \in {x \in ToSet(built.nodes) :
                      x.type = "cloudflare.dns_record" /\ Mapped(LowerCase, x.name) \in wanted}}
        Joined(S) == S \cup UNION {Ends(e) : e \in {x \in ToSet(built.edges) : Ends(x) \cap S # {}}}
        J[n \in 0..Len(built.nodes)] == IF n = 0 THEN records ELSE Joined(J[n - 1])
    IN /\ kept = J[Len(built.nodes)]
       /\ ToSet(answer.topo.edges) = {e \in ToSet(built.edges) : Ends(e) \subseteq kept}

\* A diagram at a lower level of detail accounts for every asset and every
\* edge of the graph it summarises, as a count on a node or on an arrow, and an
\* arrow is marked a guess exactly when one of the edges it stands for is
\* (Topology.Collapse: "only as trustworthy as its weakest constituent").
CollapseKeepsEveryEdge ==
  answer.kind = "graph" /\ Detail(answer.request) # "low" =>
    LET topo == answer.topo
        drawn == answer.drawn
        Bucket(ref) == BucketOf(topo, ref, Detail(answer.request),
                                bucketDimension(answer.request.groupBy))
        StandsFor(e) == {x \in ToSet(topo.edges) :
                           Bucket(x.from) = e.from /\ Bucket(x.to) = e.to /\ x.kind = e.kind}
    IN /\ SumOf(SetToSeq(drawn.nodes), LAMBDA n : n.member_count) = Len(topo.nodes)
       /\ SumOf(SetToSeq(drawn.nodes), LAMBDA n : n.internal_edges)
            + SumOf(SetToSeq(drawn.edges), LAMBDA e : e.count) = Len(topo.edges)
       /\ \A e \in drawn.edges :
            e.confidence = "heuristic" <=> \E x \in StandsFor(e) : x.confidence = "heuristic"

\* Of what the look-ups keep one asset of, there is one: no two assets share
\* an id, no two Services a namespace and name, no two users a login; and no
\* rule is what a rule names as a group.
Unambiguous(assets) ==
  LET Both(a, b, type) == a.type = type /\ b.type = type
      Place(a) == <<Tag(a, "namespace"), a.name>>
      Login(a) == Mapped(LowerCase, Tag(a, "login_name"))
      Groups(rule) == ToSet(TagList(rule, "sources")) \cup ToSet(TagList(rule, "destinations"))
  IN \A a, b \in assets :
       /\ a.id = b.id => a = b
       /\ Both(a, b, "v1.Service") /\ Place(a) = Place(b) => a = b
       /\ Both(a, b, "tailscale.user") /\ Tag(a, "login_name") # "" /\ Login(a) = Login(b)
            => a = b
       /\ Both(a, b, "netbird.policy_rule") => b.id \notin Groups(a)

\* Of Kubernetes, Services and Ingresses publish addresses in their payload.
PublishedByKnownTypes(assets) ==
  \A a \in assets :
    a.provider = "kubernetes" /\ a.type \notin {"v1.Service", "networking.k8s.io/v1.Ingress"} =>
      AssetAddresses(a) = AssetAddresses([a EXCEPT !.raw = NoRaw])

\* A report lists an asset that has an edge in the graph of the same assets with
\* all their payloads, and does not say that payloads are missing.
ListsWithoutReason ==
  LET req == answer.request
      whole == FilterByHostname(Build(Slice(req.filter, SetToSeq(pool))), req.hostnames)
      lost == {a \in pool : nodeKey(a) \in Incident(whole) \ Incident(Traced(req))}
      reported == UNION {ToSet(l.examples) : l \in answer.report.Unconnected
                                                   \cup answer.report.Unmodelled}
  IN /\ {a.name : a \in lost} \cap reported # {}
     /\ answer.caveats \cap {"no raw", "raw missing for types"} = {}

\* When the assets were collected without the payloads a relationship is read
\* from, and an asset is listed as connected to nothing for that reason alone,
\* the report on the whole graph says that payloads are missing (orphanCaveat:
\* "the report stays silent in exactly the case it is most wrong").
LostEdgesAreExplained ==
  answer.kind = "orphans" /\ failed = {} /\ answer.request.hostnames = {}
    /\ Unambiguous(pool) /\ PublishedByKnownTypes(pool) => ~ListsWithoutReason

\* So does the report on what a hostname was traced to, of which
\* narrowingCaveats (cli/topology.go) says that it lists nothing but "a matched
\* record that points at nothing".
TracedOrphansPointAtNothing ==
  answer.kind = "orphans" /\ failed = {} /\ answer.request.hostnames # {} => ~ListsWithoutReason

\* The graph does not depend on the order in which the collection happened to
\* deliver the assets, if no look-up is ambiguous (Build, over the fan-in of the
\* providers).
GraphIgnoresArrivalOrder ==
  answer.kind = "reach" /\ Unambiguous(pool) =>
    ToSet(answer.topo.edges)
      = ToSet(Build(Slice(answer.request.filter, SetToSeq(ToSet(collected)))).edges)
=============================================================================
