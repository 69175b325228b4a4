---------------------------- MODULE ReportCommands ----------------------------
(***************************************************************************)
(* The commands that judge an inventory: insights, cost, check, and diff    *)
(* against a live collection, with their exit codes.  A provider that       *)
(* cannot be started is only warned about; one that is started delivers     *)
(* what it has, or a part of it and an error.  The payloads come along or   *)
(* not (a snapshot file may lack them).  One request is answered.           *)
(***************************************************************************)
EXTENDS InsightReport, Policy, Drift

CONSTANTS
  Estates,   \* functions from providers to the assets they would deliver
  Requests,  \* the requests a client may make
  Today

\* A provider's collector makes assets of that provider, one after the other; all
\* of them have their place in the order.
ASSUME EstatesAreCollected ==
  \A e \in Estates :
    /\ IsFiniteSet(DOMAIN e)
    /\ \A p \in DOMAIN e :
         /\ e[p] \in Seq(ToSet(e[p]))
         /\ \A a \in ToSet(e[p]) : IsAsset(a) /\ a.provider = p /\ nodeKey(a) \in ToSet(InputOrder)

\* A command line that was parsed: the assets of a baseline, the rules of the
\* files, severities there are.
ASSUME RequestsAreParsed ==
  \A req \in Requests :
    /\ req.command \in {"insights", "cost", "check", "diff"}
    /\ req.command = "diff" =>
         /\ req.baseline \in Seq(ToSet(req.baseline))
         /\ \A a \in ToSet(req.baseline) : IsAsset(a)
    /\ req.command = "check" =>
         /\ req.failOn \in DOMAIN severityRank
         /\ req.files \in Seq(ToSet(req.files))
         /\ \A file \in ToSet(req.files) :
              file \in Seq(ToSet(file)) /\ \A r \in ToSet(file) : IsRule(r)
    /\ req.command = "insights" =>
         req.severity \in DOMAIN Severities /\ req.failOn \in DOMAIN Severities /\ req.budget \in Nat

VARIABLES
  estate,     \* what there is
  payload,    \* whether the payloads are collected
  started,    \* the providers that could be started
  ended,      \* the providers whose collection is over
  failed,     \* those of them that reported an error
  collected,  \* the assets collected
  answer      \* what the request was answered with

vars == <<estate, payload, started, ended, failed, collected, answer>>

AsCollected(a) == IF payload THEN a ELSE [a EXCEPT !.raw = NoRaw]
NoAnswer == [kind |-> "none"]

Init ==
  /\ estate \in Estates
  /\ payload \in BOOLEAN
  /\ started \in SUBSET DOMAIN estate
  /\ ended = {} /\ failed = {} /\ collected = <<>>
  /\ answer = NoAnswer

\* Provider p delivers its first n assets.
Collect(p, n, fails) ==
  /\ answer = NoAnswer /\ p \in started \ ended
  /\ fails \/ n = Len(estate[p])
  /\ ended' = ended \cup {p}
  /\ failed' = IF fails THEN failed \cup {p} ELSE failed
  /\ collected' = collected \o Map(SubSeq(estate[p], 1, n), AsCollected)
  /\ UNCHANGED <<estate, payload, started, answer>>

-----------------------------------------------------------------------------
(* The commands.                                                           *)

Refused == [kind |-> "refused"]
BookOf(req) == loadPriceBook(req.docs, req.refresh, req.feed, req.hours)

\* Where the decoders read a number there is one: in the books of the requests,
\* the tags and the payloads.
ASSUME NumbersAreRead ==
  /\ \A text \in DOMAIN NumberOf : NumberOf[text] \in Int
  /\ IsList(Tables)
  /\ \A req \in Requests :
       req.command \in {"cost", "insights"} /\ IsBook(BookOf(req)) => HoldsNumbers(BookOf(req))
  /\ \A e \in Estates : \A p \in DOMAIN e : \A a \in ToSet(e[p]) :
       \A what \in {"cpu", "memory", "gpu"} : Capacity(a, what) \in Int

\* Mutant of ReportOutcome: the collection's errors are not looked at.
outcomeOfTheGate(gate, tripped) == IF tripped THEN gate ELSE "ok"

\* A report is printed first; then an incomplete collection is said to be
\* incomplete, whatever was found; then comes the gate.
ReportOutcome(gate, tripped) ==
  IF failed # {} THEN "ErrPartial" ELSE IF tripped THEN gate ELSE "ok"

insightsReported(req, report) ==
  [kind |-> "insights", request |-> req, report |-> report,
   outcome |-> ReportOutcome("ErrInsights",
                 req.exitCode /\ report.findings # <<>> /\ MaxSeverity(report) >= req.failOn)]
insightsPriced(req, books) ==
  IF \E b \in ToSet(books) : ~IsBook(b) THEN Refused
  ELSE insightsReported(req, Run(NewInput(Slice(req.filter, collected), books, Today),
                                 req.only, req.severity, req.budget))
insightsAnswer(req) == insightsPriced(req, IF req.cost THEN <<BookOf(req)>> ELSE <<>>)

costPriced(req, book) ==
  IF ~IsBook(book) THEN Refused
  ELSE [kind |-> "cost", request |-> req,
        report |-> Report(book, Slice(req.filter, collected), req.groupBy, Today),
        outcome |-> ReportOutcome("", FALSE)]
costAnswer(req) == costPriced(req, BookOf(req))

checkAnswer(req) ==
  LET rules == loadRuleFiles(req.files)
      found == Evaluate(rules, Slice(req.filter, collected))
  IN IF rules = NoRules THEN Refused
     ELSE [kind |-> "check", request |-> req, findings |-> found,
           outcome |-> ReportOutcome("ErrFindings",
                         req.exitCode /\ WorstFinding(found) >= severityRank[req.failOn])]

\* Mutant of missingProviders: whoever could be started is enough.
noneMissing(req) == {}

\* The providers of the baseline that could not be started.
missingProviders(req) == req.providers \ started

\* A partial collection is refused: what a provider did not deliver would be
\* taken for removed.
diffAnswer(req) ==
  LET drift == Compute(req.baseline, Filter(collected, LAMBDA a : a.provider \in req.providers))
  IN IF missingProviders(req) # {} \/ failed \cap req.providers # {} THEN Refused
     ELSE [kind |-> "diff", request |-> req, drift |-> drift,
           outcome |-> IF req.exitCode /\ drift # NoDrift THEN "ErrDrift" ELSE "ok"]

\* insights and cost force --include-raw: without payloads it is a snapshot
\* that they read, which reports no errors.
Ask(req) ==
  /\ ended = started
  /\ req.command \in {"insights", "cost"} => payload \/ failed = {}
  /\ answer' = CASE req.command = "insights" -> insightsAnswer(req)
                 [] req.command = "cost" -> costAnswer(req)
                 [] req.command = "check" -> checkAnswer(req)
                 [] OTHER -> diffAnswer(req)
  /\ UNCHANGED <<estate, payload, started, ended, failed, collected>>

Next ==
  \/ \E p \in DOMAIN estate, fails \in BOOLEAN :
       \E n \in 0..Len(estate[p]) : Collect(p, n, fails)
  \/ answer = NoAnswer /\ \E req \in Requests : Ask(req)

Spec == Init /\ [][Next]_vars

-----------------------------------------------------------------------------
(* Properties.                                                             *)

\* What the providers that were started would have delivered.
Everything == Each(SetToSeq(started), LAMBDA p : Map(estate[p], AsCollected))

\* What these providers have, with its payloads.
Inventory(providers) == Each(SetToSeq(providers), LAMBDA p : estate[p])

\* What the providers that were started have, with its payloads: nothing of one
\* that could not be started, which a command only warns of.
WholeOfStarted == Inventory(started)

Plus(bags) ==
  [c \in UNION {DOMAIN b : b \in ToSet(bags)} |-> SumOf(bags, LAMBDA b : Get(b, c, 0))]

\* A cost report counts every machine once: in each currency the total is what
\* the priced assets cost on their own and what the nodes cost that run on no
\* priced machine of the report, and what pods are given of a node is in no total.
\* The groups add up to it, however they are grouped (attributeKubernetes,
\* whose nodes repeat the instances of the inventory).
SpendIsCountedOnce ==
  answer.kind = "cost" =>
    LET report == answer.report
        assets == Slice(answer.request.filter, collected)
        alone == Map(assets, LAMBDA a : Estimate(BookOf(answer.request), a))
        Machine(a) ==
          {i \in DOMAIN assets :
             /\ assets[i].type = "oci.compute.instance" /\ alone[i].priced
             /\ Get(a.raw, "spec.providerID", "") \in DOMAIN InstanceIn
             /\ assets[i].id = InstanceIn[a.raw["spec.providerID"]]}
        bill ==
          [i \in DOMAIN assets |->
             IF assets[i].type = "v1.Node" /\ Machine(assets[i]) = {} THEN report.estimates[i]
             ELSE IF assets[i].type \in {"v1.Node", "v1.Pod"} THEN unknown ELSE alone[i]]
        groups == SetToSeq(DOMAIN report.groups)
    IN /\ report.totals.monthly =
            moneyBag(Filter(bill, LAMBDA e : e.priced))
       /\ report.totals.monthly = Plus(Map(groups, LAMBDA g : report.groups[g].monthly))
       /\ \A kind \in DOMAIN report.totals.counts :
            report.totals.counts[kind] = SumOf(groups, LAMBDA g : report.groups[g].counts[kind])

\* No two of the assets share an identity.
UniqueIdentities(assets) ==
  \A i, j \in DOMAIN assets : nodeKey(assets[i]) = nodeKey(assets[j]) => i = j

\* The rows under a finding's total make it up, in its currency: no spend is in
\* two rows, and what belongs to no group has a row too (cost.by-tag: the "(no
\* key)" row, cost.by-region: "(none)", cost.concentration: the rows shown).
\* Rows are a set here: of two assets with one identity and price there is one.
RowsMakeUpTheTotal ==
  answer.kind = "insights" /\ UniqueIdentities(collected) =>
    \A f \in ToSet(answer.report.findings) : f.total # NoMoney /\ f.rows # {} =>
      /\ \A r \in f.rows : r.money.currency \in {"", f.total.currency}
      /\ f.total.amount = SumOf(SetToSeq(f.rows), LAMBDA r : r.money.amount)

\* No asset of a started provider answers at the address or owns the name a
\* record points at, as far as the inventory shows: these are the addresses that
\* the graph indexes and those of NAT gateways, pods and nodes.  An OCI compute
\* instance shows none, and the cluster address of a Service is not looked at.
LeadsNowhere(rec) ==
  LET On(a, type, texts) == IF a.type = type THEN texts ELSE {}
      Texts(a) ==
        AssetAddresses(a).ips
          \cup On(a, "oci.nat_gateway", {Tag(a, "nat_ip")})
          \cup On(a, "v1.Pod", {Get(a.raw, "status.podIP", "")})
          \cup On(a, "v1.Node", Get(a.raw, "status.addresses", {}))
      text == Tag(rec, "content")
  IN \A a \in ToSet(WholeOfStarted) :
       \/ /\ Tag(rec, "type") \in {"A", "AAAA"}
          /\ AddressOf[text] \notin Addresses(Texts(a))
       \/ Tag(rec, "type") = "CNAME" /\ normalizeHost(text) \notin AssetAddresses(a).hosts

\* A name that is reported as leading nowhere is that of a record which leads to
\* no address or name that the started providers show in the inventory, whatever
\* the order, completeness and payloads of the collection: not to an address of a
\* pod, a node or a NAT gateway either, which are read from other places than the
\* graph's index; otherwise the report says that payloads are missing or that the
\* collection was partial (danglingDNS).  It says nothing of a provider that did
\* not start, nor of an asset whose address the inventory does not show.
DanglingIsGenuine ==
  answer.kind = "insights" /\ answer.outcome # "ErrPartial" /\ answer.request.filter = {} =>
    \A f \in ToSet(answer.report.findings) :
      f.id = "network.dangling-dns" /\ "no raw" \notin f.caveats =>
        \A r \in f.rows : \E rec \in ToSet(WholeOfStarted) :
          rec.type = "cloudflare.dns_record" /\ nodeKey(rec) = r.subject /\ LeadsNowhere(rec)

\* An insight that would say something of all that the started providers have, and
\* says nothing, has its reason in the report: it is listed as not run, the report
\* is said to be incomplete or partial, findings are said to be hidden or
\* suppressed, or the notes say that there are no payloads or no edges (unmet,
\* scopeNotes).  Of a provider that did not start see AbsentOwnerIsListed.
SilenceIsAccounted ==
  answer.kind = "insights" /\ answer.outcome # "ErrPartial" =>
    LET req == answer.request
        report == answer.report
        assets == Slice(req.filter, WholeOfStarted)
        said == {f.id : f \in ToSet(report.findings)}
        Unsaid(found) == found # {} /\ found \cap said = {}
        Silent(in) == {i \in ToSet(Chosen(req.only)) :
                         unmet(i, in) = "" /\ Unsaid({f.id : f \in ToSet(Findings(i.id, in))})}
    IN \A i \in Silent(NewInput(assets, <<BookOf(req)>>, Today)) :
           \/ \E s \in report.skipped : s.insight = i.id
           \/ ~report.complete \/ report.hidden + report.suppressed > 0
           \/ {"no raw", "no edges"} \cap report.notes # {}

\* An insight that has something to say of the estate, but not without one
\* provider, is listed as not run when that provider did not start: "an insight
\* that could not run at all (no raw payloads, no cost estimates, the owning
\* provider absent) is listed under NOT RUN" (cli/insights.go:54-57).  Left out
\* are reports made without payloads, partial, cut off, hiding findings or saying
\* that at most one provider was collected.  It does not hold: most insights
\* require no provider and no type, and run on what the others have.
AbsentOwnerIsListed ==
  answer.kind = "insights" /\ payload /\ answer.outcome # "ErrPartial" =>
    LET req == answer.request
        report == answer.report
        In(providers) ==
          NewInput(Slice(req.filter, Inventory(providers)), <<BookOf(req)>>, Today)
        Speaks(i, providers) ==
          unmet(i, In(providers)) = "" /\ Findings(i.id, In(providers)) # <<>>
        Owns(p, i) == Speaks(i, DOMAIN estate) /\ ~Speaks(i, DOMAIN estate \ {p})
    IN report.complete /\ report.hidden = 0 /\ report.suppressed = 0
         /\ {"nothing collected", "one provider"} \cap report.notes = {} =>
           \A i \in ToSet(Chosen(req.only)), p \in DOMAIN estate \ started :
             Owns(p, i) => \E s \in report.skipped : s.insight = i.id

\* A gate that passes speaks for the whole of what the started providers have:
\* no asset there breaks a rule of the severity asked for, whoever failed
\* (check's and insights' RunE: the collection's errors come before the gate).
GateSpeaksForTheEstate ==
  answer.kind \in {"check", "insights"} /\ answer.outcome = "ok" =>
    LET req == answer.request
        assets == Slice(req.filter, Everything)
        books == IF req.cost THEN <<BookOf(req)>> ELSE <<>>
    IN req.exitCode =>
         IF answer.kind = "check"
         THEN \A rule \in ToSet(loadRuleFiles(req.files)), a \in ToSet(assets) :
                severityRank[rule.severity] >= severityRank[req.failOn] /\ matches(rule.match, a)
                  => problems(rule, a) = {}
         ELSE answer.report.complete /\ req.severity <= req.failOn =>
                \A f \in ToSet(Run(NewInput(assets, books, Today),
                                   req.only, 1, Len(Registered)).findings) :
                  Rank(f.severity) < req.failOn

\* What a comparison with a live collection reports is a difference of the
\* estate: nothing is added or removed because a provider did not start or did
\* not deliver, and a gate that passes has seen every asset of the baseline that
\* shares its identity with no other unchanged (diff --against live, liveSnapshot).
DriftIsReal ==
  answer.kind = "diff" =>
    LET now == UNION {ToSet(estate[p]) : p \in answer.request.providers}
        before == ToSet(answer.request.baseline)
        KeysOf(assets) == {nodeKey(a) : a \in assets}
    IN /\ answer.drift.added = KeysOf(now) \ KeysOf(before)
       /\ answer.drift.removed = KeysOf(before) \ KeysOf(now)
       /\ answer.outcome = "ok" /\ answer.request.exitCode =>
            \A a \in {b \in before : \A c \in before : nodeKey(c) = nodeKey(b) => c = b} :
              \E x \in now :
                /\ nodeKey(x) = nodeKey(a) /\ x.status = a.status /\ x.name = a.name
                /\ \A k \in DOMAIN a.tags \ DerivedTags : Tag(x, k) = a.tags[k]
=============================================================================
