-------------------------------- MODULE Reach --------------------------------
(***************************************************************************)
(* Reachability over the graph (internal/topology/reach.go): which assets   *)
(* the given ones reach, over which route, what the internet reaches.  A    *)
(* path is its sequence of node keys with the edges between them.  The code *)
(* walks an asset's neighbours in the order of their keys; Order is that    *)
(* order.                                                                   *)
(***************************************************************************)
EXTENDS Topology

CONSTANT Order  \* the node keys, sorted

\* kinds = {} is every kind.
allows(opts, e) ==
  /\ e.kind = "traffic-deny" => opts.includeDeny
  /\ opts.kinds = {} \/ e.kind \in opts.kinds

maxHops(opts) == IF opts.maxHops <= 0 THEN 6 ELSE opts.maxHops
maxPaths(opts) == IF opts.maxPaths <= 0 THEN 25 ELSE opts.maxPaths

Known(topo) == {nodeKey(a) : a \in ToSet(topo.nodes)}
SortKeys(S) == Filter(Order, LAMBDA k : k \in S)

\* The hops from a node: the far end and the edge, nearest key first and the
\* edges to one neighbour by kind.
Hops(topo, key, direction) ==
  LET Near(e) == IF direction = "upstream" THEN refKey(e.to) ELSE refKey(e.from)
      Far(e) == IF direction = "upstream" THEN refKey(e.from) ELSE refKey(e.to)
      mine == Filter(topo.edges, LAMBDA e : Near(e) = key /\ Ends(e) \subseteq Known(topo))
      kinds == <<"dns", "gateway-route", "lb-backend", "network-containment",
                 "service-backend", "traffic-allow", "traffic-deny", "waf">>
  IN Each(SortKeys({Far(e) : e \in ToSet(mine)}), LAMBDA k : Each(kinds, LAMBDA kind :
       Map(Filter(mine, LAMBDA e : Far(e) = k /\ e.kind = kind),
           LAMBDA e : [to |-> k, edge |-> e])))

Start(key) == [nodes |-> <<key>>, edges |-> <<>>]
Extend(path, h) == [nodes |-> Append(path.nodes, h.to), edges |-> Append(path.edges, h.edge)]
Length(path) == Len(path.edges)
Target(path) == Last(path.nodes)

\* Mutant of Truncate: the limit is seen one route late.
TruncateLate(s, n) == SubSeq(s, 1, IF Len(s) < n + 1 THEN Len(s) ELSE n + 1)

\* The check for the limit on the number of routes, before each is added.
Truncate(s, n) == SubSeq(s, 1, IF Len(s) < n THEN Len(s) ELSE n)

\* Select: globs over id and name; a selector is the set of what it matches.
Select(topo, selector) ==
  SortKeys({nodeKey(a) : a \in {n \in ToSet(topo.nodes) : {n.id, n.name} \cap selector # {}}})

\* The hops that go on from the end of a path, but not to the nodes in seen.
Onward(topo, path, direction, opts, seen) ==
  IF Length(path) >= maxHops(opts) THEN <<>>
  ELSE Filter(Hops(topo, Target(path), direction),
              LAMBDA h : h.to \notin seen /\ allows(opts, h.edge))

\* The next path is taken from the queue: a node is marked when it is first
\* seen, and no more than maxPaths are found.
Taken(topo, search, direction, opts) ==
  LET path == search.queue[1]
      onward == Onward(topo, path, direction, opts, search.seen)
      new == Truncate(FirstOfEach(onward, LAMBDA h : h.to), maxPaths(opts) - Len(search.out))
      routes == Map(new, LAMBDA h : Extend(path, h))
  IN IF search.queue = <<>> \/ Len(search.out) >= maxPaths(opts) THEN search
     ELSE [queue |-> Tail(search.queue) \o routes,
           seen |-> search.seen \cup {h.to : h \in ToSet(new)}, out |-> search.out \o routes]

\* The shortest path to every node the seeds reach, seeds left out: breadth
\* first.
Reachable(topo, seeds, direction, opts) ==
  LET first == Filter(FirstOfEach(seeds, LAMBDA k : k), LAMBDA k : k \in Known(topo))
      rounds == Len(seeds) + Cardinality(Incident(topo))
      after[n \in 0..rounds] ==
        IF n = 0 THEN [queue |-> Map(first, Start), seen |-> ToSet(first), out |-> <<>>]
        ELSE Taken(topo, after[n - 1], direction, opts)
  IN after[rounds].out

Arrived(path, targets) == Length(path) > 0 /\ Target(path) \in ToSet(targets)

\* All paths of the frontier are extended, but one that has arrived is found.
Level(topo, search, targets, opts) ==
  LET Longer(p) ==
        IF Arrived(p, targets) THEN <<>>
        ELSE Map(Onward(topo, p, "downstream", opts, ToSet(p.nodes)), LAMBDA h : Extend(p, h))
      found == Filter(search.frontier, LAMBDA p : Arrived(p, targets))
  IN IF search.frontier = <<>> \/ Len(search.out) >= maxPaths(opts) THEN search
     ELSE [frontier |-> Each(search.frontier, Longer),
           out |-> search.out \o Truncate(found, maxPaths(opts) - Len(search.out))]

\* The simple routes from a source to a target, level by level.
Paths(topo, sources, targets, opts) ==
  LET start == Filter(sources, LAMBDA k : k \in Known(topo))
      levels == maxHops(opts) + 1
      after[n \in 0..levels] ==
        IF n = 0 THEN [frontier |-> Map(start, Start), out |-> <<>>]
        ELSE Level(topo, after[n - 1], targets, opts)
  IN IF targets = <<>> THEN <<>> ELSE after[levels].out

-----------------------------------------------------------------------------
(* What the internet reaches.                                              *)

internetFacingTypes ==
  {"cloudflare.dns_record", "cloudflare.load_balancer", "cloudflare.tunnel",
   "cloudflare.pages", "oci.load_balancer", "oci.network_load_balancer",
   "oci.internet_gateway"}

IsEntry(a) ==
  \/ a.type \in internetFacingTypes
  \/ a.provider = "kubernetes" /\ kubeExternalIPs(a.raw) \cup kubeExternalHosts(a.raw) # {}

EntryPoints(topo) == SortKeys({nodeKey(a) : a \in {n \in ToSet(topo.nodes) : IsEntry(n)}})

\* The entries no other entry reaches; all of them when that leaves none.
OrAll(entries, roots) == IF Len(entries) < 2 \/ roots = <<>> THEN entries ELSE roots
entryRoots(topo, entries, opts) ==
  LET downstream == UNION {{Target(p) : p \in ToSet(Reachable(topo, <<e>>, "downstream", opts))}
                             : e \in ToSet(entries)}
  IN OrAll(entries, Filter(entries, LAMBDA e : e \notin downstream))

Exposed(topo, opts) ==
  LET entries == EntryPoints(topo)
  IN [entries |-> entries,
      paths |-> Reachable(topo, entryRoots(topo, entries, opts), "downstream", opts)]

-----------------------------------------------------------------------------
(* The question a command or a request asks.  from and to are selectors, {} *)
(* when not given.                                                         *)

MatchedNothing == [error |-> "matched no assets"]

Answer(paths, opts) ==
  [paths |-> paths, truncated |-> opts.maxPaths > 0 /\ Len(paths) >= opts.maxPaths]

runReach(topo, question, opts) ==
  LET sources == Select(topo, question.from)
      targets == Select(topo, question.to)
      Unmatched(sel, found) == sel # {} /\ found = <<>>
      Found == CASE question.from = {} -> Reachable(topo, targets, "upstream", opts)
                 [] question.from # {} /\ question.to = {} ->
                      Reachable(topo, sources, "downstream", opts)
                 [] OTHER -> Paths(topo, sources, targets, opts)
  IN IF question.exposed THEN Answer(Exposed(topo, opts).paths, opts)
     ELSE IF Unmatched(question.from, sources) \/ Unmatched(question.to, targets)
          THEN MatchedNothing ELSE Answer(Found, opts)
=============================================================================
