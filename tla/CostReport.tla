------------------------------ MODULE CostReport ------------------------------
(***************************************************************************)
(* The report of `auditor cost` (internal/cost/report.go): totals, groups,  *)
(* what could not be priced, the clusters and the per-seat plans.  A bag of *)
(* money is one amount for each currency; nothing is converted.             *)
(***************************************************************************)
EXTENDS Estimator

-----------------------------------------------------------------------------
(* Money.                                                                  *)

CurrencyIn(est) == IF est.currency = "" THEN DefaultCurrency ELSE est.currency

moneyBag(ests) ==
  [c \in {CurrencyIn(e) : e \in ToSet(ests)} |->
     SumOf(Filter(ests, LAMBDA e : CurrencyIn(e) = c), LAMBDA e : e.monthly)]

\* The first currency added names the sum.
Money(ests) ==
  [currency |-> IF ests = <<>> THEN "" ELSE ests[1].currency,
   amount |-> SumOf(ests, LAMBDA e : e.monthly)]

-----------------------------------------------------------------------------
(* Clusters.                                                               *)

\* A cluster's amounts are in the currency of its first priced node of the list;
\* the code takes the first in the order of a map, which differs only for nodes
\* priced in several currencies.  No property is about these amounts.
summarizeClusters(b, assets, alone, est) ==
  LET Indices(Test(_)) == Filter([i \in DOMAIN assets |-> i], Test)
      kube == Indices(LAMBDA i : assets[i].type \in {"v1.Node", "v1.Pod"})
      Cluster(account) ==
        LET nodes == Indices(LAMBDA i :
              /\ assets[i].type = "v1.Node" /\ assets[i].account = account
              /\ \A j \in (i + 1)..Len(assets) :
                   ~(assets[j].type = "v1.Node" /\ assets[j].account = account
                     /\ assets[j].name = assets[i].name))
            pods == Indices(LAMBDA i : assets[i].type = "v1.Pod" /\ assets[i].account = account)
            Priced == Filter(nodes, LAMBDA i : Costed(est[i]))
            On(n) == Filter(pods, LAMBDA i :
                       est[i].attributed /\ n \in NodeOf(assets, assets[i]))
            Given(n) == SumOf(On(n), LAMBDA i : est[i].monthly)
            used == Filter(nodes, LAMBDA n : On(n) # <<>>)
        IN [cluster |-> account,
            nodes |-> Len(nodes), nodes_priced |-> Len(Priced),
            rate_sources |-> [s \in {priceNode(b, assets, alone, assets[i]).source : i \in ToSet(nodes)} |->
              Len(Filter(nodes, LAMBDA i : priceNode(b, assets, alone, assets[i]).source = s))],
            node_monthly |-> Money(Map(Priced, LAMBDA i : est[i])),
            counted_elsewhere |->
              SumOf(Filter(Priced, LAMBDA i : est[i].attributed), LAMBDA i : est[i].monthly),
            pods |-> Len(pods),
            pods_attributed |-> SumOf(nodes, LAMBDA n : Len(On(n))),
            attributed |-> SumOf(used, Given),
            unrequested |-> SumOf(used, LAMBDA n : Max({0, est[n].monthly - Given(n)}))]
  IN {Cluster(account) : account \in {assets[i].account : i \in ToSet(kube)}}

-----------------------------------------------------------------------------
(* Plans by the seat.                                                      *)

seatPlans(b, ids, users, extra) ==
  {[plan |-> id, currency |-> CurrencyOf(b, b.rates[id]),
    monthly |-> users * MonthlyAmount(b, b.rates[id]) + extra]
     : id \in {r \in ids \cap DOMAIN b.rates : users > 0}}

tailscaleRollup(b, users, tagged) ==
  seatPlans(b, {"ts.seat.standard", "ts.seat.premium"}, users, Amount(b, "ts.tagged_resource", tagged))
netbirdRollup(b, users) == seatPlans(b, {"nb.seat.team", "nb.seat.business"}, users, 0)

meshRollup(b, assets) ==
  LET seats == Filter(assets, LAMBDA a :
                 a.type \in {"tailscale.user", "tailscale.device", "netbird.user", "netbird.peer"})
      Rollup(account) ==
        LET Count(Test(_)) == Len(Filter(seats, LAMBDA a :
                                <<a.provider, a.account>> = account /\ Test(a)))
            users == Count(LAMBDA a : a.type \in {"tailscale.user", "netbird.user"})
            tagged == Count(LAMBDA a : a.type = "tailscale.device" /\ TagList(a, "acl_tags") # <<>>)
        IN [account |-> account, users |-> users, tagged |-> tagged,
            machines |-> Count(LAMBDA a : a.type \in {"tailscale.device", "netbird.peer"}),
            plans |-> IF account[1] = "tailscale" THEN tailscaleRollup(b, users, tagged)
                      ELSE netbirdRollup(b, users)]
  IN {Rollup(account) : account \in {<<a.provider, a.account>> : a \in ToSet(seats)}}

-----------------------------------------------------------------------------
(* The report.                                                             *)

\* A dimension that is none of these is the key of a tag.
groupKey(a, dim) ==
  LET v == CASE dim = "provider" -> a.provider [] dim = "type" -> a.type
             [] dim = "region" -> a.region [] dim = "account" -> a.account
             [] OTHER -> Tag(a, dim)
  IN IF v = "" THEN "(none)" ELSE v

\* Priced, attributed, metered or unknown: every asset is one of them.
Kind(e) ==
  CASE e.priced -> "priced" [] e.attributed -> "attributed"
    [] e.basis = "unpriceable" -> "metered" [] OTHER -> "unknown"

Counts(ests) ==
  [k \in {"priced", "attributed", "metered", "unknown"} |->
     Len(Filter(ests, LAMBDA e : Kind(e) = k))]

Tally(ests) == [assets |-> Len(ests), counts |-> Counts(ests),
                monthly |-> moneyBag(Filter(ests, LAMBDA e : e.priced))]

\* What could not be priced, by kind and by type.
unpricedBuilder(assets, ests, kind) ==
  LET those == Filter([i \in DOMAIN assets |-> i], LAMBDA i : Kind(ests[i]) = kind)
  IN [t \in {assets[i].type : i \in ToSet(those)} |->
        Len(Filter(those, LAMBDA i : assets[i].type = t))]

reportNotes(b, now, totals) ==
  {n \in {"currencies", "stale", "nothing priced"} :
     CASE n = "currencies" -> Cardinality(DOMAIN totals.monthly) > 1
       [] n = "stale" -> Stale(b, now, 90) # {}
       [] OTHER -> totals.counts["priced"] = 0 /\ totals.assets > 0}

Reported(b, assets, dim, now, alone, ests) ==
  LET keys == {groupKey(a, dim) : a \in ToSet(assets)}
      In(key) == LET members == Filter([i \in DOMAIN assets |-> i],
                                          LAMBDA i : groupKey(assets[i], dim) = key)
                 IN Map(members, LAMBDA i : ests[i])
  IN [estimates |-> ests,
      totals |-> Tally(ests),
      groups |-> [key \in keys |-> Tally(In(key))],
      unpriced |-> [kind \in {"attributed", "metered", "unknown"} |->
                      unpricedBuilder(assets, ests, kind)],
      clusters |-> summarizeClusters(b, assets, alone, ests),
      mesh |-> meshRollup(b, assets),
      notes |-> reportNotes(b, now, Tally(ests))]

Report(b, assets, dim, now) ==
  Reported(b, assets, dim, now, Map(assets, LAMBDA a : Estimate(b, a)),
           attributeKubernetes(b, assets))
=============================================================================
