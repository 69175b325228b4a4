----------------------------- MODULE CostInsights -----------------------------
(***************************************************************************)
(* Where the money is (internal/insight/costfindings.go).  An insight       *)
(* prices every asset on its own: nothing is attributed to the nodes and    *)
(* pods of a cluster, as the cost report does.                              *)
(***************************************************************************)
EXTENDS InsightInput, GraphReports

CONSTANT StatusOf  \* statuses |-> in lower case, with "_" between the words

-----------------------------------------------------------------------------
(* Spend.                                                                  *)

SpendItems(in) ==
  [i \in DOMAIN in.assets |->
     [asset |-> in.assets[i], est |-> in.prices[i], money |-> Monthly(in, in.prices[i])]]

pricedItems(in) == Filter(SpendItems(in), LAMBDA i : i.est.priced)

spendBag(items) == moneyBag(Map(Filter(items, LAMBDA i : i.est.priced), LAMBDA i : i.est))

\* Amounts of several currencies rank by their plain sum.
bagRank(bag) == SumOf(SetToSeq(DOMAIN bag), LAMBDA c : bag[c])

\* Nothing is said in one figure about two currencies.
rowMoney(bag) ==
  IF Cardinality(DOMAIN bag) # 1 THEN NoMoney
  ELSE LET c == CHOOSE x \in DOMAIN bag : TRUE IN Cash(c, bag[c])
totalOf(bag) == IF rowMoney(bag).amount > 0 THEN rowMoney(bag) ELSE NoMoney

Totalled(f, bag) == [f EXCEPT !.total = totalOf(bag)]

ItemRow(i) == MoneyRow(nodeKey(i.asset), {}, 0, i.money[1])

runRate(in) ==
  LET items == pricedItems(in)
      bag == spendBag(items)
      earning == {c \in DOMAIN bag : bag[c] > 0}
  IN IF earning = {} THEN <<>>
     ELSE << Finding("cost.run-rate", "info", Len(items), <<>>,
                     UNION {{MoneyRow(<<c, "monthly">>, {}, 0, Cash(c, bag[c])),
                             MoneyRow(<<c, "yearly">>, {}, 0, Cash(c, 12 * bag[c]))} : c \in earning},
                     {}) >>

\* The n dearest.  Which of two equal assets is ahead, by id in the code, is left out.
Dearest(paid, n) ==
  LET Dearer(i, j) == \/ paid[i].money[1].amount > paid[j].money[1].amount
                      \/ paid[i].money[1].amount = paid[j].money[1].amount /\ i < j
  IN At(paid, {j \in DOMAIN paid : Cardinality({i \in DOMAIN paid : Dearer(i, j)}) < n})

\* In the currency that most is spent in, of two with the first name; the total is
\* that of the assets shown.
concentration(in) ==
  LET bag == spendBag(pricedItems(in))
      currency == CHOOSE c \in DOMAIN bag :
        \A d \in DOMAIN bag \ {c} : bag[d] < bag[c] \/ (bag[d] = bag[c] /\ Earlier(c, d))
      paid == Filter(pricedItems(in), LAMBDA i : i.money[1].currency = currency /\ i.money[1].amount > 0)
      Running(n) == SumOf(Dearest(paid, n), LAMBDA i : i.money[1].amount)
      shown == Dearest(paid, 10)
      half == Min({n \in DOMAIN paid : 2 * Running(n) >= bag[currency]})
  IN IF DOMAIN bag = {} \/ bag[currency] <= 0 THEN <<>>
     ELSE << Totalled(
               Finding("cost.concentration", IF Len(paid) >= 10 /\ half <= 5 THEN "notable" ELSE "info",
                       half, <<Len(paid)>>,
                       {ItemRow(i) : i \in ToSet(shown)}, {}),
               spendBag(shown)) >>

\* An asset that is not priced is counted in its group and adds nothing.
byDimension(in) ==
  LET items == SpendItems(in)
      Key(i, dim) == groupKey(i.asset, dim)
      By(dim, id) ==
        LET groups == {Key(i, dim) : i \in ToSet(items)}
            Group(g) == Filter(items, LAMBDA i : Key(i, dim) = g)
        IN IF Cardinality(groups) < 2 THEN <<>>
           ELSE << Totalled(
                     Finding(id, "info", Cardinality(groups), <<>>,
                             {MoneyRow(<<g>>, {}, Len(Group(g)), rowMoney(spendBag(Group(g))))
                                : g \in groups}, {}),
                     spendBag(items)) >>
  IN IF pricedItems(in) = <<>> THEN <<>>
     ELSE By("provider", "cost.by-provider") \o By("region", "cost.by-region")
            \o By("account", "cost.by-account")

-----------------------------------------------------------------------------
(* Allocation by tag.                                                      *)

allocationTagKeys ==
  {"app", "application", "business-unit", "business_unit", "compartment_id", "component",
   "cost-center", "cost_center", "costcenter", "customer", "department", "env", "environment",
   "owner", "product", "project", "service", "stage", "team", "tenant", "workload"}

allocationKeys(items) ==
  {k \in UNION {DOMAIN i.asset.tags : i \in ToSet(items)} : Mapped(LowerCase, k) \in allocationTagKeys}

Untagged(items, keys) == Filter(items, LAMBDA i : \A k \in keys : Tag(i.asset, k) = "")
TaggedWith(items, k) == Filter(items, LAMBDA i : Tag(i.asset, k) # "")

\* The rows overlap, so there is no total.
unattributedFinding(items, keys) ==
  LET nobodys == Untagged(items, keys)
  IN Finding("cost.unattributed", IF bagRank(spendBag(nobodys)) > 0 THEN "warn" ELSE "info",
             Len(nobodys), <<Cardinality(keys)>>,
             {MoneyRow(<<k>>, {}, Len(TaggedWith(items, k)),
                       rowMoney(spendBag(Untagged(items, {k})))) : k \in keys}
               \cup {MoneyRow(<<"(none of these keys)">>, {}, Len(nobodys), rowMoney(spendBag(nobodys)))
                       : x \in {y \in {nobodys} : y # <<>>}},
             {})

\* Mutant of untaggedRow: what has no value for the key is left out.
untaggedNowhere(items, key) == {}

untaggedRow(items, key) ==
  LET without == Untagged(items, {key})
  IN IF without = <<>> THEN {}
     ELSE {MoneyRow(<<"(no key)">>, {}, Len(without), rowMoney(spendBag(without)))}

\* By the key that allocates most money, then most assets, then by name.
byTagFinding(items, keys) ==
  LET Allocated(k) == bagRank(spendBag(TaggedWith(items, k)))
      Covered(k) == Len(TaggedWith(items, k))
      Before(k, l) == \/ Allocated(k) > Allocated(l)
                      \/ Allocated(k) = Allocated(l) /\ Covered(k) > Covered(l)
                      \/ Allocated(k) = Allocated(l) /\ Covered(k) = Covered(l) /\ Earlier(k, l)
      best == CHOOSE k \in keys : \A l \in keys \ {k} : Before(k, l)
      values == {Tag(i.asset, best) : i \in ToSet(items)} \ {""}
      With(v) == Filter(items, LAMBDA i : Tag(i.asset, best) = v)
  IN IF values = {} \/ (Cardinality(values) < 2 /\ Untagged(items, {best}) = <<>>) THEN <<>>
     ELSE << Totalled(
               Finding("cost.by-tag", "info", Cardinality(values), <<best>>,
                       {MoneyRow(<<best, v>>, {}, Len(With(v)), rowMoney(spendBag(With(v)))) : v \in values}
                         \cup untaggedRow(items, best), {}),
               spendBag(items)) >>

showback(in) ==
  LET items == pricedItems(in)
      keys == allocationKeys(items)
  IN IF items = <<>> THEN <<>>
     ELSE IF keys = {}
          THEN << Totalled(Finding("cost.unattributed", "notable", Len(items), <<>>, {}, {}),
                           spendBag(items)) >>
          ELSE <<unattributedFinding(items, keys)>> \o byTagFinding(items, keys)

-----------------------------------------------------------------------------
(* Spend on what nothing uses, and what has no price.                      *)

ItemsFinding(id, severity, items, caveats) ==
  IF items = <<>> THEN <<>>
  ELSE << Totalled(Finding(id, severity, Len(items), <<>>, {ItemRow(i) : i \in ToSet(items)}, caveats),
                   spendBag(items)) >>

\* Types that nothing could be connected to say nothing by being alone.
orphanedSpend(in) ==
  LET orphans == Orphans([nodes |-> in.assets, edges |-> in.edges], "provider")
      connectable == {l.type : l \in orphans.Unconnected}
  IN ItemsFinding("cost.orphaned-spend", "notable",
       Filter(pricedItems(in), LAMBDA i :
         i.money[1].amount > 0 /\ i.asset.type \in connectable /\ Degree(in, i.asset) = 0),
       orphanCaveat(orphans))

stoppedStatuses ==
  {"archived", "deallocated", "disabled", "inactive", "paused", "poweroff", "powered_off",
   "shutdown", "shutoff", "shut_off", "stopped", "stopping", "suspended", "terminated"}
stoppedStatus(a) == Mapped(StatusOf, a.status) \in stoppedStatuses

stoppedBilled(in) ==
  ItemsFinding("cost.stopped-but-billed", "warn",
    Filter(pricedItems(in), LAMBDA i : stoppedStatus(i.asset) /\ i.money[1].amount > 0), {})

unpriced(in) ==
  LET items == Filter(SpendItems(in), LAMBDA i : ~i.est.priced)
      Of(k) == Filter(items, LAMBDA i : <<Kind(i.est), i.asset.type>> = k)
  IN IF items = <<>> THEN <<>>
     ELSE << Finding("cost.unpriced",
                     IF \E i \in ToSet(items) : Kind(i.est) = "unknown" THEN "notable" ELSE "info",
                     Len(items), <<>>,
                     {Row(k, {}, Len(Of(k))) : k \in {<<Kind(i.est), i.asset.type>> : i \in ToSet(items)}},
                     {}) >>
=============================================================================
