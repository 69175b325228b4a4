---------------------------- MODULE InsightInput -----------------------------
(***************************************************************************)
(* What an insight reads (insight.Input) and what it says (insight.Finding). *)
(* A finding's numbers are its count and the facts of its summary; a row is *)
(* what it is about, the assets it relates to, a number and an amount of    *)
(* money.  Which order rows are listed in is left out.                      *)
(***************************************************************************)
EXTENDS CostReport, Topology

CONSTANTS
  InputOrder,  \* the node keys of all assets, sorted by provider, type and id
  ListTags,    \* the tags that hold a list
  NameOrder    \* tag keys and currencies, sorted

\* Each key stands in it once.
ASSUME InputOrderIsAList ==
  /\ InputOrder \in Seq(ToSet(InputOrder))
  /\ \A i, j \in DOMAIN InputOrder : InputOrder[i] = InputOrder[j] => i = j

SortedAssets(assets) ==
  Each(InputOrder, LAMBDA k : Filter(assets, LAMBDA a : nodeKey(a) = k))

\* Sorted by provider, type and id; the graph is built over the sorted assets.
\* A book of <<>> is no estimator; prices are the estimates of the assets.
NewInput(assets, book, now) ==
  LET sorted == SortedAssets(assets)
  IN [assets |-> sorted, edges |-> Build(sorted).edges, book |-> book, now |-> now,
      prices |-> Map(sorted, LAMBDA a : IF book = <<>> THEN unknown ELSE Estimate(book[1], a))]

OfTypes(in, types) == Filter(in.assets, LAMBDA a : a.type \in types)
HasProvider(in, p) == \E a \in ToSet(in.assets) : a.provider = p
AssetByID(in, id) == IF id = "" THEN <<>> ELSE ById(in.assets, id)
RawAvailable(in) == \E a \in ToSet(in.assets) : HasRaw(a)
Priced(in) == in.book # <<>>

EdgesFrom(in, a) == Filter(in.edges, LAMBDA e : refKey(e.from) = nodeKey(a))
EdgesTo(in, a) == Filter(in.edges, LAMBDA e : refKey(e.to) = nodeKey(a))
Degree(in, a) == Len(EdgesFrom(in, a)) + Len(EdgesTo(in, a))

Earlier(x, y) ==
  \E i, j \in DOMAIN NameOrder : i < j /\ NameOrder[i] = x /\ NameOrder[j] = y

\* The texts of all tags: a list of one is that one.
TagTexts(a) ==
  LET lists == {a.tags[k] : k \in DOMAIN a.tags \cap ListTags}
  IN {a.tags[k] : k \in DOMAIN a.tags \ ListTags} \cup {l[1] : l \in {x \in lists : Len(x) = 1}}

-----------------------------------------------------------------------------
(* Money.                                                                  *)

Cash(currency, amount) == [currency |-> currency, amount |-> amount]
NoMoney == Cash("", 0)

\* An asset's own spend: one that is only attributed has none.
Monthly(in, est) ==
  IF Priced(in) /\ est.priced THEN <<Cash(est.currency, est.monthly)>> ELSE <<>>

\* Refused over two currencies.
SumMoney(ms) ==
  LET currencies == {m.currency : m \in ToSet(ms)} \ {""}
  IN IF Cardinality(currencies) # 1 THEN <<>>
     ELSE <<Cash(CHOOSE c \in currencies : TRUE, SumOf(ms, LAMBDA m : m.amount))>>

-----------------------------------------------------------------------------
(* Findings.                                                               *)

Severities == <<"info", "notable", "warn", "risk">>
Rank(s) == CHOOSE i \in DOMAIN Severities : Severities[i] = s

Row(subject, related, value) ==
  [subject |-> subject, related |-> related, value |-> value, money |-> NoMoney]
MoneyRow(subject, related, value, money) ==
  [Row(subject, related, value) EXCEPT !.money = money]
AssetRow(a, value) == Row(nodeKey(a), {}, value)

Finding(id, severity, count, facts, rows, caveats) ==
  [id |-> id, severity |-> severity, count |-> count, facts |-> facts, rows |-> rows,
   total |-> NoMoney, caveats |-> caveats]

Keys(assets) == {nodeKey(a) : a \in ToSet(assets)}
DisplayName(a) == IF a.name # "" THEN a.name ELSE a.id

\* The texts a finding must have are always given; a row may still be about
\* something without a name.
ValidateFinding(f) ==
  /\ f.id # "" /\ f.severity \in ToSet(Severities) /\ f.count >= 0
  /\ \A r \in f.rows : r.subject # <<"">>
=============================================================================
