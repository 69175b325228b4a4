# A verification project for cloud-asset-auditor

`auditor` collects the assets of several clouds at once, streams them through a
short pipeline to a renderer, a browser or an analysis, and keeps complete
snapshots in a SQLite file that later runs compare and prune.  The code is
mostly straight conversion; what can go wrong in it is the plumbing: many
goroutines, unbuffered channels, a context that may end at any moment, errors
that travel beside the data, and several processes on one database; and the
analyses at its end, which turn whatever the plumbing delivered, perhaps not all
of it and perhaps without payloads, into a graph, a bill, a list of findings or
a verdict.  This directory models both in TLA+, checks them with TLC, and proves
the properties that matter most of the plumbing for every value of the constants
with TLAPS.

## 1. Inventory

| component | state | operations | interacts with |
|---|---|---|---|
| provider (`internal/providers/*`) | a lead call, a limited `errgroup` of collectors, an unbuffered asset channel, a buffered error channel | `Collect`, `run`, `sendAsset`, `emitErr` | sends to `forward`, watches the context |
| collectors (`internal/providers/*/*.go`, one per kind of resource) | the place of each listing; per provider what the collectors share: Cloudflare's account list behind a `sync.Once`, OCI's bucket namespace behind a mutex | list the places page by page, join or return failures, filter what is kept quiet | the service; `sendAsset`, `emitErr` |
| fan-in (`cli/audit.go`, `server/audit.go`: two identical pairs) | one `forward` goroutine per provider, the merged pair of channels, a `WaitGroup` | `runProviders`, `forward`, the closer | joins providers and callers |
| `audit` (`cli/audit.go`, `cli/cache.go`) | the buffered snapshot, the error slice and its drain goroutine, the stage goroutines | cache lookup, stream or buffer, annotate, filter, render, cache write, exit code | fan-in, snapshot store, renderer |
| event stream (`server/handlers.go`, `server/sse.go`) | a mutex-guarded writer shared by two goroutines, counters | `meta`, `init_error`, `asset`, `error`, `done` | fan-in, the browser |
| collect-then-answer callers (`cli/diff.go`, `cli/check.go`, `cli/graphsource.go`, `server/topology.go`, `reach.go`, `insights.go`) | slice of assets, slice of errors | collect, join the drain, decide | fan-in; then pure analyses |
| server configuration | `s.cfg.IncludeRaw` | save, set, restore around a request | read by every request's `applyProviderOptions` |
| snapshot store (`internal/store`) | the `audits` and `assets` tables, the AUTOINCREMENT id, the wall clock | `SaveAudit`, `LatestAudit`, `ApplyRetention`, `DeleteAudit`, `ClearAudits`, `AuditBefore`, `NewestAudit`, `AuditAssets`, timelines | several processes at once |
| topology and reach (`internal/topology`, `internal/filter`) | none kept; an index over the assets while a graph is built | `Build` with a resolver for each relationship, `FilterByHostname`, `DropOrphans`, `Orphans`, `Collapse`, `Reachable`, `Paths`, `EntryPoints`, the filter language | called after the join, by the CLI and by the server |
| price book and estimates (`internal/pricing`, `internal/cost`) | the merged book of one run | load, merge, validate and refresh books; estimate an asset, a node, a pod; totals, groups, clusters, seats | a user's books, the public price feed; `cost` and `insights --cost` |
| insights (`internal/insight`) | none | the registered insights over one `Input`, what is skipped and why, severities | topology, cost; `insights` and its handler |
| policy (`internal/policy`) | none | load and validate rules, match, assert, worst severity | `check` |
| diff engine (`internal/diff`) | none | match by identity, what counts as a change | `diff` |
| renderers, secrets vault, configuration, metrics | none, or one row | I/O | |

What is hard: a context that ends while an item is in a goroutine's hand;
channels of one provider that close one after the other while `forward` selects
on both; an error channel at its capacity and a group at its limit while the
reader has gone away; a cache that must never hold a truncated audit; two
goroutines that write one HTTP response; two processes that list, rank, delete
and load snapshots in separate statements.  In the analyses: a graph that must
not depend on which provider answered first; limits and cycles on the way to an
answer; payloads that were not collected, so that an edge, a price or a finding
is missing and nothing looks wrong; the same machine in the inventory of a cloud
and of a cluster; a gate that passes on what a failed provider left.
`PROJECT.json` lists each hazard at its line with the properties that cover it,
or why none does yet.

What makes each component correct: the collection loses and duplicates nothing,
hides no failure, closes nothing under a sender and always ends; the command
caches and prints only what those facts allow; the event stream is framed,
ordered and counted; a collector lists everything it owes or leaves an error,
save for causes it is meant to be quiet about; an answer says truly whether it
is complete; retention spares and bounds; a diff compares two snapshots of one
series.  A graph is the same whatever arrived first, a route is real and a
missing one does not exist, a summary accounts for what it summarises; no spend
is counted twice and every row is in the total; a finding is genuine, and where
there is none the report says why one could be missing; a gate that passes has
seen everything.

## 2. Modules

There are two halves.  The first half is processes: goroutines, requests and
commands that interleave.  The fan-in is its seam.  `MergedStream` is its
abstract promise, `Collection` the detailed system that is shown to keep it, and
the callers are modelled on the promise instead of on the goroutines behind it.

```
 Collection ──implements──▶ MergedStream ◀──extends── AuditCommand
                                         ◀──extends── SseAudit
                                         ◀──extends── BufferedAudit
     ▲ justifies `Optional`
 Listing (over the rows of CollectorTable)

 SnapshotStore        IncludeRawToggle

 Assets ◀── Topology ◀── GraphReports ──┐
        │            ◀── Reach ─────────┼──▶ GraphCommands
        ◀── Filters ────────────────────┘
        │
        ◀── Pricing ◀── Estimator ◀── CostReport ◀── InsightInput (and Topology)
        │                                                ▲
        │      NetworkInsights, HygieneInsights, CostInsights
        │                                                ▲
        │                                          InsightReport ──┐
        ◀── Policy (and Filters) ──────────────────────────────────┼──▶ ReportCommands
        ◀── Drift ─────────────────────────────────────────────────┘
```

**MergedStream.** `ctx`, `got`, `reported`, `out`.  Assets and errors are handed
over one at a time, none twice; the pair of channels closes once, the assets
first, and with a live context only when every provider has delivered its
inventory or has reported an error.  A property of the promise itself,
`CleanEndIsComplete`, is what the cache write relies on.

**Collection.** One audit's providers and forwarders.  A provider is a lead
collector (zones, regions, contexts; the whole listing for GCP) and a fan-out
limited to `Limit`; `NeedsLead` names what a failed lead takes down, `Optional`
what may give up without an error (a disabled Cloudflare service, a forbidden
Kubernetes resource).  `Launch` is `g.Go` under `g.SetLimit`; `SendAsset` is the
rendezvous of `sendAsset` with the receive in `forward`; `AbandonSend`,
`DropErr`, `FwdCancel` are the `ctx.Done` branches; `EmitErr` fills the buffered
channel; `CloseErrs` and `CloseAssets` are the deferred closes in their order;
`SeeClosed` is `forward` setting a drained source to nil; `CloseMerged` is the
goroutine behind `wg.Wait`.  An asset is an opaque value, so "sent twice" and
"lost" are statements about sets.

**CollectorTable, Listing.** What happens inside one collector, which for
`Collection` only sends and then returns.  `CollectorTable` has one row for each
collector of each provider: its phases (accounts, zones, a namespace, the one
compartment or tailnet it was started for), whether a place takes several
requests, whether a failure ends it or is joined with the others, and which
answers are kept quiet (a disabled service, a forbidden resource, an absent
policy, a page token that does not advance).  `Listing` runs several rows
together: `listAccounts` with its `sync.Once` and its three stop conditions
(`BeginAccounts`, `TakeAccountsPage`, `FailAccounts`), the namespace lookup that
keeps only success, the listing of place after place (`Answer`, `FailCall`,
`StopSending`), and the wrapper of `Provider.run` with `filterServiceDisabled`
(`Surfacing`, `Settle`).  `LastPage` and `AccountPage` are the service, as the
comment of `listAccounts` describes it: a page past the last repeats the last.
What `Collection` takes as `Optional`, a collector that may stop short without
an error, is what `SilenceIsJustified` puts bounds on.

**AuditCommand.** `RunE` from the cache lookup to the return value, in its four
modes (stream, `--cache`, `--cache-max-age`, served from the cache).  Stages are
goroutines of their own, chained by unbuffered channels: `Move` is one
rendezvous over one of them.  `Return` includes the deferred cancel.

**SseAudit.** `handleAuditSSE`, its drain goroutine and the writer.  `emit` is
two steps (`Lock` writes the name line, `Unlock` the data), so that frames could
interleave if the mutex were missing.

**BufferedAudit.** The five callers that collect everything and then decide;
`Verdict` is where they differ.

**SnapshotStore.** Each SQL statement, and `SaveAudit`'s transaction, is a step;
a command is several.  A process may die or give up between any two of them
(`Leave`).  `saved` and `erased` are history variables.

**IncludeRawToggle.** Save, set, configure and restore of the flag that all
request goroutines share.

The second half is functions of a finished collection, operators over sequences
of asset records, and two small state machines that run them after any
collection there may have been.

**Lists.** The loops over slices the code is written in: what a loop keeps
(`Filter`, `FirstOfEach`), makes of each element (`Map`), appends for each
(`Each`), adds up (`SumOf`) or multiplies (`Multiplied`).  Their recursions are functions, so that
`Lists_proofs` can say what they compute; no module of the project declares a
RECURSIVE operator.

**Assets.** `core.Asset` and `core.Edge`.  `raw` holds the part of the upstream
payload that somebody reads, `NoRaw` if the audit ran without `--include-raw`.
Strings that the code splits, folds or parses are values with a table of what
they fold or parse to (`LowerCase`, `Undotted`, `AddressOf`, ...), given by the
MC modules.

**Topology.** The index over an inventory, one operator for each resolver of
`resolvers.go` (DNS, ingresses, gateways, services, network policies, NetBird,
Tailscale, OCI, Cloudflare), `Build` with its removal of duplicates and dangling
ends, `FilterByHostname`, `DropOrphans`.  **GraphReports** has `Collapse` and
`Orphans` with its caveats, **Reach** the breadth-first search with its limits,
the paths between two sets, the entry points and `entryRoots`, **Filters** the
clauses of `--filter`.

**GraphCommands.** Assets arrive one at a time in any order, with the payloads
of some providers only; a provider may fail; then one topology or reach request
is answered, with its refusals and its exit code.

**Pricing.** Books merged in order, what makes a book invalid, and the refresh
of rates from the feed (a product with no price in the currency, a tiered price,
a product that is gone).  **Estimator** evaluates the rule of a type over an
asset's tags and payload with its fallbacks, then the nodes and pods of a
cluster, which are attributed and not priced when their machine is in the
inventory.  **CostReport** sums: totals by currency, groups, what is unpriced,
clusters, seats.

**InsightInput, NetworkInsights, HygieneInsights, CostInsights, InsightReport.**
Every registered insight as an operator from the input to its findings, and the
runner that decides which insights can run, hides what is below a severity and
records what it skipped.  Where the code is a chain of `if`s whose conditions
overlap the operator is one too: the arms of a TLA+ CASE have no order, and any
one whose guard holds may be meant.

**Policy, Drift, ReportCommands.** Rules and their verdict; the comparison of
two inventories; and the commands `insights`, `cost`, `check` and `diff
--against live` after a collection in which any provider may not start, may
fail, or may have delivered a part, with and without payloads.

## 3. Runs

| run | instance | shows |
|---|---|---|
| `collection` | a provider with a lead, a dependent and an optional collector, a provider that is a lead alone; two assets; limit 1; error buffers of one | `TypeOK` (types, the group's limit, the error channel's capacity), `NothingLost`, `FailureIsReported`, `ClosedHasNoSender`, `ImplementsMergedStream`, `EveryAuditEnds` |
| `listing` | every row of the table next to R2 and the account diagnostic (Cloudflare), the buckets (OCI) or a companion of its provider; no account, two, and for the printing collector three, with pages of two; one zone; two requests per paged place; a context that may be canceled or expire | `SilenceIsJustified`, `RealFailureSurfaces`, `AccountListIsWhole`, `NoAccountsIsExplained`, `EveryCollectorReturns` |
| `audit_command` | two providers with one asset each, every mode, no stage or both stages, a filter that selects one asset | `CachedSnapshotIsComplete`, `CleanRunPrintsAll`, `PartialOutputIsValid`, `CommandReturnsQuietly` |
| `sse_audit` | two assets, two errors, one init error, a browser that may leave, a timeout | `FramesAreWhole`, `StreamContract`, `DoneCountsMatch`, `HandlerReturns` |
| `buffered_audit` | two providers, three assets, three possible errors, each caller | `UninterruptedAnswerIsHonest`, `LiveNeverHidesAnError`, `AnswerComes` |
| `snapshot_store` | two processes, two series, three snapshots, a clock of three ticks, keep one, maximal age one, batches of one | `RetentionSpares`, `RetentionBounds`, `ReportedIsGone`, `DiffIsComparable` |
| `graph` | six estates of two to five assets that between them use every resolver (a name and an alias over an ingress to a pod; a published service with a load balancer and a network policy; a route; NetBird peers with a two-way rule; a Tailscale rule; OCI containment), 14 requests | `ReachIsExact`, `HostnameTraceIsWhole`, `CollapseKeepsEveryEdge`, `LostEdgesAreExplained`, `GraphIgnoresArrivalOrder` |
| `reports` | three estates (a cluster with a node on a priced machine and one on no collected machine; DNS records to a load balancer, a NAT gateway, a pod, and to nothing; seats, tags and two currencies), 14 requests with price books, rule files and baselines | `SpendIsCountedOnce`, `RowsMakeUpTheTotal`, `DanglingIsGenuine`, `SilenceIsAccounted`, `GateSpeaksForTheEstate`, `DriftIsReal` |
| `skipped_accounts`, `exit_zero`, `include_raw` | the instances above | disagreements with a comment or a document, section 6 |
| `exposed_cycle` | two names for one target, a third name, an ingress | another one, section 6 |

**Bounds.**  Two providers are needed for forwarders to race with each other and
with the closer; a lead, a dependent and an independent collector give every way
a provider is left; limit 1 makes the group wait while a collector waits for a
reader, and an error buffer of one makes the second error of a provider wait for
`forward`.  Collectors, assets and errors each move only once, so nothing else
bounds these state spaces.  In `Listing` two accounts on pages of two are the
case in which no page is short, three need a second page, none is the case the
diagnostic is for; equal rows coincide, so one pair stands for all collectors
with the same row.  `MaxCalls` of two gives a first and a last page of a
listing.  `Pipelines` lists the stage lists that flags can produce, at most two
stages.  `SnapshotStore` bounds the number of snapshots ever saved (`MaxSaves`)
and the clock (`MaxClock`): three snapshots are enough for a delete to be
overtaken by a save in the same and in another series, and three ticks for a
snapshot to be fresh, on the boundary and old.  The two series are
interchangeable, which is the only symmetry used, and that run checks no
liveness.

The properties of `graph` and `reports` compare an answer with a definition that
does not follow the code: routes with distances computed layer by layer, a
traced graph with the closure of its records, a total with what each asset costs
alone, a silent report with one on all that the started providers have.  A pure function needs only
inputs on which its branches differ, so the estates are small and each is made
for some of them; what TLC varies is everything that happens before the function
runs, which is where these programs are hard to test: every order of deliveries,
every subset of payloads, every point at which a provider fails.  Between them
the requests use each limit (hops, number of routes, kinds of edges) below, at
and above its effect.  Amounts are small whole numbers and a month has ten
hours, so that a sum that counts something twice differs from one that does not.

**Deadlock** is not checked where the program really stops (an audit that has
ended, a request that has been answered); for audits the liveness property says
that it stops in the right place.  The store never stops and is checked for
deadlock.

**Fairness.**  `Collection` assumes only that some enabled step of the
goroutines is eventually taken (`WF_vars(Fabric)`): Go's scheduler runs runnable
goroutines and API calls return or fail.  Neither the reader of the assets nor
the end of the context is fair; `EveryAuditEnds` has them as its hypothesis
instead: the consumer keeps taking what is held out to it, or the context ends.
The callers assume their own goroutines are scheduled and that the collection's
closing steps, once allowed, are taken, which is what `EveryAuditEnds` gives
them.  `Listing` assumes that its goroutines run and that a page of accounts
that was asked for comes; that it fails instead is possible but never assumed,
so a loop that only a failure would leave counts as endless.  Nothing assumes
that a write fails, a user interrupts or a provider errs.  `TimedSpec` adds that
`--timeout` expires if nothing else happened, which `context.WithTimeout`
guarantees; without it `CommandReturnsQuietly` is false (`RenderFailureReturns`,
section 6).  `graph` and `reports` state no fairness and check no liveness.

## 4. Proofs

`Collectors_proofs` holds the proofs of `Collection` and of `Listing`.  Of
`Collection`, for every finite set of collectors, every assignment of
collectors to providers, every limit and every capacity:

- `TypeCorrect`, `NothingIsLost`, `EveryFailureReported`, `NoSendOnClosed`: the
  four invariants of the run.
- `CollectionImplementsStream`: `Spec => ImplementsMergedStream`, so that what
  is shown of the callers on top of `MergedStream` holds on top of the
  goroutines.

None of the properties is inductive.  The inductive invariant `IInv` adds what
the goroutines know of one another: `RunInv` ties a provider's place to its
collectors (while the lead runs nobody else has started; once the channels are
closed everyone has returned), `FwdInv` says that what `forward` has seen closed
stays closed and empty, `AssetInv` and `ErrInv` say where an asset and an error
may be and that they are nowhere else.  `ReturningEffect` is the lemma under all
of them: the six ways a collector returns change one collector, what its failed
lead takes down, and nothing of any other provider.  The refinement maps the
closing of the merged pair with `CloseIsJustified`: all forwarders done under a
live context means both sources seen closed, hence all collectors returned, no
error buffered and no asset in hand; then `FailureIsReported` and `AssetInv`
leave each provider only the choice of having delivered or having reported.

`MergedStream_proofs`: `CleanEnd`, the promise's consequence
`CleanEndIsComplete`.

`AuditCommand_proofs`, for every inventory, filter and list of stages:

- `CacheIsComplete`: whatever fails and whenever the context ends, only complete
  audits are in the cache.  The invariant `Sighted` says what `RunE` knows at
  each place: past the join of the drain goroutine the error channel is closed,
  so no error can arrive between the test of `provErrs` and the write.
- `CmdTypeCorrect`: the types.
- `CleanRunIsWhole` and `PartialRunKeepsTheRest`: under a live context a run
  prints exactly what the filter selects of what it was handed.  When it exits 0
  that is everything; when it exits 2 it is everything of the providers that
  reported no error, and of the others whatever they delivered.  `FlowInv` is the conservation law of the
  pipeline: while the context lives, what the filter selects of the assets that
  entered it is rendered, waits to be replayed, or is in the hands of a stage
  (`NoLoss`); hence a renderer that returned well has written all of it and
  nothing is added to what it owed (`Printed`).  `Place` ties the program counter
  of `RunE` to what has ended before it, `Complete` carries the facts over to the
  time after the return.

`Callers_proofs`, two modules' theorems on top of the same stream.  Of
`SseAudit`, for every finite inventory and number of init errors:
`SseTypeCorrect`, `FramesStayWhole`, `ContractHolds`, `CountsMatch`.  The
inductive invariant `SseInv` has three parts on top of the stream's:
`WriterInv`, on who holds the mutex and which halves of frames are on the wire
while he does; `Order`, which events may be there at each place of the two
goroutines; and `Counted`, the counters against the frames.  `FiniteAssumption`
is needed because the property speaks of the number of assets.  Of
`BufferedAudit`: `BufTypeCorrect`, `AnswersAreHonest` and `NoErrorHidden`, from
an invariant that says when the slice of errors is the stream's.

`SnapshotStore_proofs`, for any number of processes and series, any policy and
any batch size: `StoreTypeCorrect`, `RetentionTakesOnlyTheDue`,
`RetentionIsThorough`, `PrunedIsGone`, `DiffsCompareOneSeries`.  `StoreInv` says
of the table that ids are never given twice (`Table`), and of each process that
what it remembers was true of the table when it read it (`Memory`, `Retained`,
`Picked`).  What makes it inductive is that nothing a process planned can become
wrong behind its back: a snapshot that was due stays due, since ranks among
newer ones only grow while ids grow with time (`RankMonotone`, `DueStays`), and
one that is gone stays gone (`GoneStays`).  That is also where the model's clock
matters, which never goes back.

Of `Listing` (`Collectors_proofs`), for any rows, accounts, zones and page size:

- `QuietOnlyAboutQuietCauses`, i.e. `RealFailureSurfaces`.  The invariant
  `QuietInv` adds that under a live context neither the account list nor any
  recorded cause is a cancellation, which the wrapper would take as a reason to
  say nothing; its assumption, `ListingAssumption`, is that the quiet answers of
  a row are answers of a service, never the context's errors.
- `AccountListComplete`, i.e. `AccountListIsWhole`: the list the collectors
  share is, once it is there, the token's accounts, each once and in their order.
  The invariant `ListInv` says that while page p is asked for the list is what
  comes before p, `SubSeq(visible, 1, Earlier(p))`; a page that repeats the last
  one adds nothing, since `visible` has no account twice (`ListingAssumption`),
  and a short page is the last (`PageCount`, `EarlierInRange`).
- `SilenceHasACause`, i.e. `SilenceIsJustified`, with no hypothesis beyond the
  assumptions now that the account list is known to be whole.  The invariant
  `Progress` says that every place before the one a collector is at is listed or
  has left a cause; `RowAssumption` is how a row may be made (zones are listed
  after the list of zones, a single phase if it only prints the account list),
  and TLC evaluates it on the table.
- `NoAccountsNoSilence`, i.e. `NoAccountsIsExplained`, and `ListingTypeCorrect`,
  the bounds of every position and of the page of accounts.

`Lists_proofs`, about the operators of `Lists` for every list: what a filter
keeps, how long it is and in which order (`AtElements`, `AtLength`, `KeepConcat`),
what a concatenation of lists holds (`FlattenElements`), the least and greatest
number of a set (`MinOf`, `MaxOf`), and how numbers add up: one changed by d
changes the total by d (`TotalBump`), the sizes of the classes of a list are its
length (`ClassesMakeUp`, `GroupsMakeUp`, `KeepSplit`), and what the elements of
each class amount to makes up what the list amounts to (`ClassAmountsMakeUp`,
`AmountsMakeUp`).  These are inductions over data.
The library's induction theorems take an operator and no prover here can
instantiate one, so the module proves its own form first: a nonempty set of
naturals has a least element (`Least`), a set that holds 0 and the successor of
each of its members holds every natural (`Induct`), and a recursion over 0..n with
values in a set has a solution (`RecursionExists`).  What is to be shown of every
list is then a set of numbers, and the lists are the solutions of the recursion.

`Graph_proofs`, about `GraphCommands`, for every estate, request, order of
arrival and set of failed providers:

- `TracesAreWhole`, i.e. `HostnameTraceIsWhole`: what a hostname trace keeps is
  exactly what the edges join, in either direction, to one of the names' records.
- `SummariesAreWhole`, i.e. `CollapseKeepsEveryEdge`: a summary counts every node
  and every edge of the graph once, in a bucket or on an arrow, and an arrow is
  marked a guess exactly when an edge it stands for is.
- `RoutesAreExact`, i.e. `ReachIsExact`: what an asset reaches, or what reaches
  it, is answered with one shortest route to every asset within the hop limit and
  to no other, and what a limit on the routes leaves out is no nearer than what
  it keeps; how one asset reaches another is answered with real routes only, and
  with none only if none is within reach.
- `ArrivalOrderIsIrrelevant`, i.e. `GraphIgnoresArrivalOrder`: of an estate in
  which no look-up is ambiguous, the graph an answer rests on has the same edges
  in whatever order the assets were delivered.
- `LostEdgesHaveAReason`, i.e. `LostEdgesAreExplained`: a report on the whole
  graph that lists an asset as connected to nothing, although it has an edge when
  every payload is there, says that payloads are missing.

The first three rest on `BuildJoins`: every edge of a graph joins two nodes of the
inventory it was built from.  It is shown resolver by resolver (`DnsEdges` to
`NetPolEdges`), since each looks its ends up in another way; `Joins` carries it
through tracing and dropping orphans (`CutJoins`), so that nothing a summary
counts has an end outside every bucket.

The trace is a breadth-first search
whose queue and marks are a recursion; `Searching` is its loop invariant (what is
marked is joined to a record, the neighbours of what has left the queue are
marked, one node leaves it a round) and `ComponentIsJoined` its result: the
smallest set that holds the records and is closed under the edges.  The property
says the same in rounds over the whole graph, and `RoundsAreJoined` shows that as
many rounds as there are nodes are enough.  The summary's counts are three sums
over classes: nodes by bucket, the edges inside a bucket by bucket, the others by
their two buckets and kind.

`RoutesAreExact` needs more of its search than that it marks the right nodes.  The
property says in layers what is within how many hops (`Within`), over the edges
themselves and not over the lists of hops the code walks; `HopsAre` and
`OnwardAre` show that those lists hold exactly the edges, and `WithinIs` that the
layers are what the walk's steps compose to (`Balls`).  `Found` is the loop
invariant of `Reachable`: what has been seen is the seeds and the ends of the
routes found, each once; a route is as long as its end is far; the queue is
sorted by length and no two of its routes differ by more than one hop; and all
that is as near as the head of the queue has been seen.  That the head's new
neighbours keep it (`NewHops`, `TakenIs`, `TakenFinds`) is the step,
`FoundExact` and `ReachableExact` what it amounts to when the queue is empty or
the limit is met.  For `Paths` the invariant is `Levels`: the
frontier holds simple routes from a source (`Walked`), and from one level to the
next, as long as nothing was found, every route that has not arrived is there
again for each node it can be grown by (`Further`, `LevelGoes`).  So if a target
is within reach, a shortest route to it (`RouteWithin`) is grown node by node
until it is found, or another one was found before (`WalkFinds`).  `ReachSearched` hands
both to the command.  `OrderIsComplete` is its assumption that every node has its
place in the order the code sorts keys by, `RequestsAreParsed` that the limits of
a request are integers.

The last two compare two graphs, of the same assets in two orders or with and
without payloads, and share `BuildTwins`: graphs of twins have the same edges.
Two assets are twins (`Twin`) when they agree in all that a resolver reads: the
reference, the name, the tags, the addresses, and the payload where
`rawDependentTypes` names the type.  A graph keeps the first of the edges with one
key (`Leading`, `DedupLeading`), so what has to agree is which edges are first
(`Alike`), and that is shown piece by piece, for lists that follow one another and
for lists made of one list per element (`AlikeConcat`, `AlikeEach`).  How a
resolver comes to agree depends on what it does:

- The five that join two assets for what the two are, DNS, WAF, load balancer,
  Service and OCI containment, are each shown to give the edges of a set of pairs
  (`Related`, `Linked`; `DnsIs`, `WafIs`, `LbIs`, `ServiceIs`, `OciIs`), in which
  one key means one edge.
- NetBird and Tailscale lead from an asset over a rule to another (`ViaIs`).  The
  two ways of a rule have different keys unless a rule is named as a group
  (`RulesKeyed`).  `Unambiguous` rules that out for NetBird; a Tailscale selector
  never picks a rule (`SelectedAreNoRules`).
- All edges of one route are one list, made from its rules in their order
  (`GatewayAlike`).
- Rules of one network policy may give edges of one key and different ports, so
  that the order within a policy counts; between policies no edge is shared
  (`PoliciesAlike`).

Wherever a map keeps one asset of a name, the last one delivered, the proof needs
that there is only one: this is all that `Unambiguous` asks.  For the arrival
order the twins are the assets themselves.  For the payloads, `NothingLost` says
where they come from: with no provider failed the collection is the estate
(`AllCollected`), and when the report is silent about payloads, every asset that a
resolver reads one of has it (`SilentReport`), because the types of
`rawDependentTypes` are one provider's and a provider is asked for all payloads or
for none.  That is `TypesHaveProviders`: these types are Kubernetes', and an ACL
rule is Tailscale's.

The assumption of all five, `PoolsAreCollected`, is that an
asset has the fields of `core.Asset` and that what a resolver goes through as a
list is one: the tags that are joined lists, the arrays of a payload, a Tailscale
selector of one of the forms the parser tells apart.  TLC evaluates it and the
others in `graph`.

`Report_proofs`, about `ReportCommands`, for every estate, request, filter, rule
set, price book and baseline:

- `LiveDriftIsReal`, i.e. `DriftIsReal`: what `diff --against live` reports is a
  difference between the baseline and the whole of what the started providers
  have, although every collection order, failure and provider that did not start
  is possible.
- `PassingGateSpeaks`, i.e. `GateSpeaksForTheEstate`: a gate that exits 0 has
  judged everything.
- `EverySilenceIsAccounted`, i.e. `SilenceIsAccounted`: an insight that has
  something to say of all that the started providers have, and says nothing, is
  accounted for in the report.  Of a provider that did not start the theorem says
  nothing; what the program promises there is false (`AbsentOwnerIsListed`, section 6).
- `DanglingNamesAreReal`, i.e. `DanglingIsGenuine`: every name that an unfiltered,
  complete report says leads nowhere is that of a record whose address or target
  no asset of a started provider shows in the inventory, unless the report says
  that it was made without payloads.  "Shows" is where the report reads: the
  graph's index, NAT gateways, pods and nodes.  That a name leads nowhere in the
  clouds themselves does not follow, section 6.
- `SpendCountedOnce`, i.e. `SpendIsCountedOnce`: the total of a cost report is,
  in each currency, what the priced assets cost on their own and what the nodes
  cost that run on no priced machine of the report, and the groups add up to the
  totals, the money and the counts, whatever they are grouped by.
- `RowsAddUpToTotals`, i.e. `RowsMakeUpTheTotal`: where an insight gives a total,
  its rows are in the total's currency or have no money, and make it up.

The first four properties compare an answer with one about all that the started
providers have.  The
invariant `CollectInv` is what makes the two comparable: of each provider, what
was collected is a beginning of its list, all of it once it has ended without
failing, and none before it has ended.  What is collected interleaves the
providers in the order they ended in, and that order is arbitrary; so the
properties need that no answer depends on it.  The diff and the rules look at
elements only.  The insights sort: `NewInput` on the collection and on the estate
laid out provider by provider give one and the same list, because sorting is
stable and the assets of one key are of one provider, whose own order is kept.
For the silences the two inputs differ in their prices as well (the report may
have been asked without a price book, the estate is judged with one); the lemmas
`PricesAside` and the ones before it show, insight by insight, that one which can
run without prices finds the same without them; the ones that need prices are
skipped by name.

`DanglingNamesAreReal` takes two more steps.  A finding of that name is made by
the one insight about names and by no other (`OneInsight`), and what that insight
looked through is all they have with its payloads: where no asset has one, the
finding carries the caveat (`DanglingReads`, `WholePicture`).

The fifth is about one report.  That every amount in it is a number is
`EstimateSound`, through the quantities, terms and shapes of a rule; `NodePrice`
and `PodPrice` say which estimates are no spend of their own, so that the report
and the bill of the property have the same priced lines at the same places
(`BillIs`).  The sums are `ReportAddsUp`: the report's groups are the classes of
the positions of its list, its currencies the classes of each group's priced
positions, and `AmountsMakeUp` adds them up.  Amounts are whole numbers in the
model: that the code's floating-point sums of the groups may differ from its sum
of the total in the last digit is not in it.

So is the sixth, over the same sums.  An insight works on a list of items, one per
asset of its input; every list it makes of it, the priced, the dearest ten, what
nothing uses, those of a region or a tag's value, is the items at some of the
positions (`PickedItems`, `GroupItems`), and the money of such a list is that of its
priced positions (`ItemsCost`).  A total that is one figure is in one currency
(`OneCurrency`).  So a finding adds up when every priced position under its total
belongs to one row, and each row has the money of its positions (`TotalledMadeUp`).
There are two cases: a row per item, with the asset's identity for a name
(`ItemRowsMadeUp`), and a row per label, a region, an account, a tag's value or none
(`GroupRowsMadeUp`).  Rows are a set in the model, and of two assets with one
identity and price it keeps one row: the property is about inputs whose assets have
an identity each, which the lemmas carry from what was collected over the filter to
the sorted input (`UniquePicked`, `UniqueSorted`).  The findings without a total
are in the proof with a line each.

The constants' assumptions are `EstatesAreCollected` (an estate is lists of
assets of finitely many providers, each asset under its own provider's name and
with a place in the order the inputs are sorted by),
`RequestsAreParsed` (what the flags and files can be parsed to),
`NumbersAreRead` (the fields that are decoded into numbers hold numbers: of a
price book that cost or insights read, of the quantities in tags and payloads, of
a node's capacity) and `InputOrderIsAList` (the order the inputs are sorted by,
provider, type and id, is a list in which each key stands once).  TLC evaluates them in the run `reports`.

The assumptions are the named ones of the modules: collectors belong to one
provider, leads are neither optional nor dependent, no two collectors enumerate
the same asset, limits and capacities are positive.  The code justifies them: a
provider's collectors enumerate different kinds of resources, a limit that is
not positive is replaced by the provider's default, and every provider but the
demo fixture makes its error channel with a capacity.

Only model-checked are the liveness properties, which the prover cannot reach, and
the refutations of the four runs that expect a violation.  Every safety invariant
and action property that a passing run checks is stated by a theorem.

## 5. What is not modelled, and the plan

Left out of the modelled parts:

- *The audit itself.*  The conversion of a cloud's objects to assets, flag
  parsing, the wording of messages, the failures before an audit's context is
  made.  The order in which a collector enumerates its assets is left open.
  Provider selection with its init errors appears in `ReportCommands` (a
  provider that does not start) but not in `Collection`; the scope options
  (regions, namespaces, compartments, contexts) are in no module's state, so
  neither is the cache that does not know them, nor the merge of several
  Kubernetes contexts.
- *The demo provider*, a fixture that fabricates its errors and sends them over
  an unbuffered channel between its assets, is outside `Collection`, whose error
  channels have room for one at least.
- *Listing.*  An asset is not an object of its own: a page is taken or not; the
  100,000-page backstop of the GCP search is out of its bounds.  That this search
  may stop early without an error on a repeated page token is here only: in
  `Collection` every lead reports what it fails to list, and a partial discovery of
  Kubernetes that leaves nothing to list reports one error, not two.
- *Store.*  Timelines, statistics and the identity index are reads of what
  `SnapshotStore` writes; the wall clock never goes back.
- *Server.*  Session and export endpoints, and the optional price estimates' stage
  between the collection and an answer (`server/audit.go:81`).
- *Analyses.*  A collection carries the payloads of a provider whole or not at
  all; identities are unique; `ReportCommands` interrupts a collection by
  failing providers, not by a timeout, which `BufferedAudit` has.  Amounts are
  whole numbers. Measured costs are left out because nothing in the program
  supplies them. Wording, sorting for display and drawing are left out.

Next, in order of importance: the scope options as part of the cache key's
state; two Kubernetes contexts in `GraphCommands`, with the join by namespace
and name that ignores the context; identities that collide, in `ReportCommands`;
a clock that goes back, in `SnapshotStore`, with the weaker promise retention
keeps then.

Not planned: rendering, the secrets vault, configuration and telemetry.  They
keep no protocol that several actors share.

## 6. Disagreements found

Shown by a run:

- `include_raw`: the topology, reach and insights handlers toggle a field of the
  shared configuration while their comments say no concurrent handler may
  observe it; the run shows an audit request configured with it.
- `exit_zero`: errors are dropped once the timeout has expired, and so `audit`
  can print a truncated inventory and exit with 0, documented as "every selected
  provider returned results".
- `skipped_accounts`: the account-scoped Cloudflare collectors return at the
  first account whose listing fails; when the failure is a service that account
  has not enabled, it is dropped, and the accounts after it are missing without
  an error although the collectors' comments promise every account.
- `exposed_cycle`: two DNS names with one target are found to reach each other,
  so neither is a root; unless nothing else is exposed, what only they lead to
  disappears from `reach --exposed` and from its exit code, in the function
  whose comment calls that the worse failure (`topology/reach.go:333-336`).

Stated as properties of the modules that TLC refutes on the runs' instances
or the one named, without a run of their own:

- `LivePartialIsRefused` (BufferedAudit): `diff --against live` promises to
  refuse a partial collection but judges by the errors alone, which a timeout
  drops.
- `RenderFailureReturns` (AuditCommand): when the renderer fails in the middle
  of a stream nothing cancels the context; the providers stay blocked and the
  command waits for the timeout, which a comment says cannot happen.
- `LoadIsWhole` (SnapshotStore): `AuditAssets` reads a snapshot in two
  statements; a prune between them makes it look like an existing, empty audit.
- `TracedOrphansPointAtNothing` (GraphCommands, with `MCPublished` and `MCTraced`
  of MCGraph): `topology --orphans --hostname` looks for missing payloads among the
  nodes the trace has left.  A record that points at a Service is joined to
  nothing when the Service carries no payload, so the trace cuts that Service
  away and with it the reason; the report calls the record one "that points at
  nothing" (`cli/topology.go:172-174`) and says nothing of payloads.  The report
  on the whole graph does (`LostEdgesAreExplained`).
- `AbsentOwnerIsListed` (ReportCommands): `insights` promises to list an insight
  that could not run because "the owning provider" is absent under NOT RUN
  (`cli/insights.go:54-57`).  No registered insight names a provider among its
  requirements, and those without a required type run on what the others have.
  With OCI and Cloudflare started and Tailscale, which has the one expiring
  credential of the estate `seats`, not, `hygiene.expiry` (`insight/hygiene.go:517`)
  returns nothing in a complete live report and is not listed.

Met while translating, outside what a property states:

- `insight/network.go:1199-1202`: whether an address is held is asked of what was
  collected.  When the provider that has it did not start, which `insights` only
  warns of (`cli/audit.go:422`), a good record is reported as leading nowhere in a
  complete report; in the estate `names` without Kubernetes it is `app.ex.com`,
  whose address pod `app` holds.  The caveat of every such finding begins by saying
  that a record's target must have been collected, but not that a provider is
  missing.  The same caveat says that OCI compute instances show no address, so a
  record aimed at one is reported too (`:1297-1301`); and the cluster address of a
  Service is not read.  `DanglingIsGenuine` is about the started providers, at the
  addresses the report reads.
- `topology/index.go:152-165`: addresses are read from the payload of any
  Kubernetes object, a Gateway's or a custom resource's status included, but
  `rawDependentTypes` names five types: without payloads such an object can be
  listed as an orphan in a report that says nothing of payloads.  The condition
  `PublishedByKnownTypes` of `LostEdgesAreExplained` excludes it.
- `server/reach.go:119,218`: without `max_paths` the limit passed on is 0, the
  engine cuts at its own 25, and `truncated` is only set for a positive limit:
  the default answer is cut silently.
- `topology/resolvers.go:181-189`: a route finds its Service by namespace and
  name; with two contexts the last one delivered takes the other cluster's
  routes.
- `topology/reach.go`: a policy node is walked through like an asset, so that the
  source of one rule and the destination of another are joined into a route
  that no rule allows.
- `insight/network.go`: of two DNS names that only name each other, each
  resolves the other, and `dangling-dns` reports neither; with `--filter` what
  was filtered out counts as not there, and a name of it is reported.
- `insight/registry.go`: an insight that needs payloads runs as soon as any
  asset has one, so that on a mixed snapshot it finds nothing and does not say
  why. `--severity` hides findings before the report's highest severity is
  taken, so it can lower what `--fail-on` compares.  No registered insight makes
  a finding of severity `risk`, the default of `--fail-on`: `insights
  --exit-code` alone never fails (`docs/configuration.md:630` offers it as a
  gate).  A Ctrl-C during the run marks the report incomplete, and the command
  can still return without an error.
- `insight/costfindings.go:459`: the run rate claims "the same estimator and
  price book `auditor cost` uses", which leaves out what `auditor cost` adds for
  nodes on machines that were not collected.
- `cost/kube.go`: a cluster's summary adds the estimates of its nodes whatever
  their currency, and the per-seat summary adds the rate for tagged devices
  likewise.
- `pricing`: `--refresh-prices` overwrites a rate with a product number also
  where the user's own book had set it.
- `diff/diff.go:71-74`: duplicate identities are "never" produced by an audit;
  `--provider oci,oci` and two Workers scripts of one name in two accounts are.
