------------------------------ MODULE Estimator ------------------------------
(***************************************************************************)
(* What one asset costs (internal/cost/cost.go), and what the machines and  *)
(* pods of a cluster cost (internal/cost/kube.go), by the price book b.  An *)
(* estimate is priced (a spend of its own), attributed (a share of spend    *)
(* that is counted elsewhere) or neither.  Nothing in the program supplies  *)
(* measured costs.  Of a payload, a node's capacity is in cores and         *)
(* gibibytes; what it can allocate and what a container requests is in      *)
(* thousandths of a core and mebibytes.                                     *)
(***************************************************************************)
EXTENDS Pricing

CONSTANTS
  NumberOf,    \* the texts that strconv.ParseFloat reads |-> their value
  InstanceIn,  \* the provider ids of nodes that name an OCI instance |-> its id
  Tables       \* the names of the book's shape tables, sorted

-----------------------------------------------------------------------------
(* One asset.                                                              *)

unknown == [monthly |-> 0, priced |-> FALSE, attributed |-> FALSE, currency |-> "",
            basis |-> "unknown"]
Estimated(monthly, currency, basis) ==
  [monthly |-> monthly, priced |-> TRUE, attributed |-> FALSE, currency |-> currency, basis |-> basis]
AttributedFrom(est, monthly) ==
  [monthly |-> monthly, priced |-> FALSE, attributed |-> TRUE, currency |-> est.currency,
   basis |-> est.basis]

Costed(est) == est.priced \/ est.attributed

basisRank(basis) ==
  CASE basis = "measured" -> 3 [] basis = "inferred" -> 2 [] basis = "assumed" -> 1 [] OTHER -> 0
weaker(a, b) == IF basisRank(b) < basisRank(a) THEN b ELSE a

selector(s, a) ==
  LET found == {s.tag} \cap {k \in DOMAIN a.tags : k # "" /\ a.tags[k] # ""}
  IN IF found # {} THEN a.tags[s.tag] ELSE Get(a.raw, s.raw, "")

parseNumber(text) ==
  IF text \in DOMAIN NumberOf THEN <<NumberOf[text]>> ELSE <<>>

\* The first source that has a number.  What a shape or the book says of an
\* asset is assumed; what its tags and its payload say, or the rule, is not.
quantityOnce(q, a, shape) ==
  LET From(values, basis) == Map(values, LAMBDA v : [value |-> v, basis |-> basis])
      sources == From(IF q.tag \in DOMAIN a.tags THEN parseNumber(a.tags[q.tag]) ELSE <<>>, "inferred")
                   \o From(parseNumber(Get(a.raw, q.raw, "")), "inferred")
                   \o From(DefaultQuantity(shape, q.shape), "assumed")
                   \o From(q.default, "assumed")
                   \o From(q.literal, "inferred")
  IN SubSeq(sources, 1, IF sources = <<>> THEN 0 ELSE 1)

weakest(parts) == FoldLeft(LAMBDA x, p : weaker(x, p.basis), "measured", parts)

Product(found, n) ==
  IF Len(found) < n THEN <<>>
  ELSE << [value |-> Multiplied(Map(found, LAMBDA f : f.value)), basis |-> weakest(found)] >>

quantity(factors, a, shape) ==
  Product(Each(factors, LAMBDA q : quantityOnce(q, a, shape)), Len(factors))

resolveRate(b, term, shape) ==
  LET id == IF term.from_shape # "" THEN RateID(shape, term.from_shape) ELSE term.rate
  IN IF id \in DOMAIN b.rates THEN <<b.rates[id]>> ELSE <<>>

noShape == [ocpu_rate |-> "", memory_rate |-> "", flexible |-> FALSE, default_ocpu |-> 0,
            default_memory_gb |-> 0, note |-> FALSE]

\* The machine shape a rule prices by: none when the rule needs one that the
\* asset does not name, the book does not list or nobody gives a rate for.
ShapeOf(b, rule, a) ==
  IF rule.shape_from = <<>> THEN <<noShape>>
  ELSE LET name == selector(rule.shape_from[1], a)
           table == Get(b.shapes, rule.shape_table, Empty)
       IN IF name = "" \/ name \notin DOMAIN table THEN <<>>
          ELSE Filter(<<table[name]>>, LAMBDA s : s.ocpu_rate # "")

\* A part of the price that an asset cannot be given makes all of it unknown.
PriceLines(b, rule, a, lines, used) ==
  LET currencies == {CurrencyOf(b, l.rate) : l \in ToSet(lines)}
      monthly == SumOf(lines, LAMBDA l : l.value * MonthlyAmount(b, l.rate))
      zero == ZerosAt(rule, a.status)
  IN IF \/ Len(lines) < used \/ lines = <<>>
        \/ \E l \in ToSet(lines) : l.value < 0
        \/ Cardinality(currencies) > 1
        \/ ~zero /\ monthly <= 0
     THEN unknown
     ELSE Estimated(IF zero THEN 0 ELSE monthly, CHOOSE c \in currencies : TRUE, weakest(lines))

PriceTerms(b, rule, a, shape) ==
  LET used == Filter(rule.terms, LAMBDA t : ~t.optional \/ resolveRate(b, t, shape) # <<>>)
      Line(t) == Each(resolveRate(b, t, shape), LAMBDA rate :
                   Map(quantity(t.quantity, a, shape), LAMBDA q :
                     [rate |-> rate, value |-> q.value, basis |-> q.basis]))
  IN PriceLines(b, rule, a, Each(used, Line), Len(used))

Estimate(b, a) ==
  IF a.type \notin DOMAIN b.rules THEN unknown
  ELSE LET rule == b.rules[a.type]
           shape == ShapeOf(b, rule, a)
       IN IF Declared(rule) THEN [unknown EXCEPT !.basis = rule.basis]
          ELSE IF rule.condition # <<>> /\ ~ConditionMatches(rule.condition[1], a)
               THEN [unknown EXCEPT !.basis = rule.else_basis]
               ELSE IF shape = <<>> THEN unknown ELSE PriceTerms(b, rule, a, shape[1])

\* What an asset shows of its price once it is annotated.
MonthlyString(est) ==
  IF est.attributed THEN "attributed"
  ELSE IF est.priced THEN "amount"
       ELSE IF est.basis = "unpriceable" THEN "metered" ELSE "unknown"

-----------------------------------------------------------------------------
(* Clusters.                                                               *)

\* Mutant of nodeFromInstance: the node's cost counts as spend of its own.
nodeCountedAgain(est) == est

\* One machine is one line of the bill: a node that runs on a collected and
\* priced instance repeats that instance's cost and adds none.
nodeFromInstance(est) == AttributedFrom(est, est.monthly)

indexPricedInstances(assets, est) ==
  {i \in DOMAIN assets : assets[i].type = "oci.compute.instance" /\ est[i].priced}

findShape(b, name) ==
  LET with == Filter(Tables, LAMBDA t : name \in DOMAIN Get(b.shapes, t, Empty))
  IN IF with = <<>> THEN noShape ELSE b.shapes[with[1]][name]

Amount(b, rateID, n) ==
  IF rateID \in DOMAIN b.rates THEN n * MonthlyAmount(b, b.rates[rateID]) ELSE 0

\* What a node has of a resource, in its payload.
Capacity(a, what) == Get(a.raw, "status.capacity." \o what, 0)

nodeFromShape(b, a) ==
  LET label == Tag(a, "node.kubernetes.io/instance-type")
      shape == findShape(b, IF label # "" THEN label
                            ELSE Tag(a, "beta.kubernetes.io/instance-type"))
      memory == IF Capacity(a, "memory") > 0 THEN Capacity(a, "memory") ELSE shape.default_memory_gb
      monthly == Amount(b, shape.ocpu_rate, shape.default_ocpu) + Amount(b, shape.memory_rate, memory)
  IN IF shape.ocpu_rate \notin DOMAIN b.rates \/ shape.default_ocpu <= 0 \/ monthly <= 0 THEN unknown
     ELSE Estimated(monthly, CurrencyOf(b, b.rates[shape.ocpu_rate]), "assumed")

nodeFromFallback(b, a) ==
  LET monthly == Amount(b, "k8s.fallback.cpu", Capacity(a, "cpu"))
                   + Amount(b, "k8s.fallback.ram", Capacity(a, "memory"))
                   + Amount(b, "k8s.fallback.gpu", Capacity(a, "gpu"))
  IN IF ~ {"k8s.fallback.cpu", "k8s.fallback.ram"} \subseteq DOMAIN b.rates
        \/ {"status.capacity.cpu", "status.capacity.memory"} \cap DOMAIN a.raw = {}
        \/ monthly <= 0
     THEN unknown
     ELSE Estimated(monthly, CurrencyOf(b, b.rates["k8s.fallback.cpu"]), "assumed")

\* The machine's own cost, from the best source there is.
priceNode(b, assets, est, a) ==
  LET machine == {i \in indexPricedInstances(assets, est) :
                    <<assets[i].id>> = IF Get(a.raw, "spec.providerID", "") \in DOMAIN InstanceIn
                                       THEN <<InstanceIn[a.raw["spec.providerID"]]>> ELSE <<>>}
      Rated(source, e) == [source |-> source, est |-> e]
      Guesses == <<Rated("instance-type", nodeFromShape(b, a)),
                   Rated("generic-fallback", nodeFromFallback(b, a))>>
      Priceable == Filter(Guesses, LAMBDA g : g.est.priced)
  IN IF machine # {} THEN Rated("oci-instance", nodeFromInstance(est[Max(machine)]))
     ELSE IF Priceable # <<>> THEN Priceable[1] ELSE Rated("unpriced", unknown)

\* Init containers run before the others, one after the other.
podRequests(a) ==
  LET Most(key, x) == Max({0} \cup {c[x] : c \in ToSet(Get(a.raw, key, <<>>))})
      Together(x) == SumOf(Get(a.raw, "spec.containers", <<>>), LAMBDA c : c[x])
      Needs(x) == Max({Together(x), Most("spec.initContainers", x)})
  IN [cpu |-> Needs("cpu"), memory |-> Needs("memory")]

\* In per cent of the node.
share(requested, allocatable) ==
  IF allocatable <= 0 \/ requested <= 0 THEN 0
  ELSE Min({100, (100 * requested) \div allocatable})

attributePod(pod, node, est) ==
  LET requests == podRequests(pod)
      Share(what) == share(requests[what], Get(node.raw, "status.allocatable." \o what, 0))
      shares == Share("cpu") + Share("memory")
  IN IF \/ Mapped(LowerCase, pod.status) \in {"succeeded", "failed"}
        \/ ~Costed(est) \/ "spec.containers" \notin DOMAIN pod.raw \/ shares = 0
     THEN unknown
     ELSE [AttributedFrom(est, (est.monthly * shares) \div 200) EXCEPT
             !.basis = weaker(est.basis, "inferred")]

\* A cluster's nodes are kept by name: of two with one name the later one.
NodeOf(assets, pod) ==
  {i \in DOMAIN assets :
     /\ assets[i].type = "v1.Node" /\ assets[i].account = pod.account
     /\ assets[i].name = Get(pod.raw, "spec.nodeName", "")}

nodeEstimates(b, assets, alone) ==
  [i \in DOMAIN assets |-> IF assets[i].type = "v1.Node"
                            THEN priceNode(b, assets, alone, assets[i]).est ELSE alone[i]]

podEstimates(assets, est) ==
  LET Pod(i) == LET on == NodeOf(assets, assets[i])
                IN IF on = {} THEN unknown
                   ELSE attributePod(assets[i], assets[Max(on)], est[Max(on)])
  IN [i \in DOMAIN assets |-> IF assets[i].type = "v1.Pod" THEN Pod(i) ELSE est[i]]

\* The estimates of all assets, nodes first and then the pods on them.
attributeKubernetes(b, assets) ==
  podEstimates(assets, nodeEstimates(b, assets, Map(assets, LAMBDA a : Estimate(b, a))))
=============================================================================
