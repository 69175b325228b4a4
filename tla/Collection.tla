----------------------------- MODULE Collection -----------------------------
(***************************************************************************)
(* One audit's collection: every selected provider runs a lead step and    *)
(* then a limited group of collectors (Provider.Collect in                 *)
(* src/internal/providers/<name>/collect.go); one forward goroutine per    *)
(* provider copies its two channels onto the merged pair; a closer waits   *)
(* for them (runProviders and forward in src/internal/cli/audit.go, and    *)
(* the identical pair in src/internal/server/audit.go).                    *)
(*                                                                         *)
(* The channels of assets are unbuffered, so a send is one joint step of   *)
(* the sender and the receiver.  A provider's error channel is buffered    *)
(* (ErrCap).  The consumer of the merged pair is only sketched here (it    *)
(* takes whatever is offered); the modules that EXTEND this one, one per   *)
(* caller of runProviders, refine it.                                      *)
(*                                                                         *)
(* An asset is an opaque value; Items[c] is what collector c would send if *)
(* nothing went wrong.  The order in which a collector sends its items and *)
(* in which g.Go starts collectors is left open.                           *)
(***************************************************************************)
EXTENDS Naturals, FiniteSets

CONSTANTS
  Providers,   \* the selected providers
  Collectors,  \* every lead step and every g.Go function of every provider
  Owner,       \* the provider a collector belongs to
  Lead,        \* per provider, the step that runs before the fan-out
  NeedsLead,   \* collectors that are never started when their lead failed
  Optional,    \* collectors that may give up without an error
  Assets,      \* assets that exist in the audited clouds
  Items,       \* per collector, the assets it enumerates
  Limit,       \* --max-concurrency
  ErrCap       \* per provider, the capacity of its error channel

\* A provider's lead reports what it fails to list.  Google Cloud's one search can
\* also stop without an error when the server repeats a page token
\* (gcp/collect.go:60-62); Listing has that, as "stuck".
ASSUME CollectorsAssumption ==
  /\ IsFiniteSet(Collectors)
  /\ Owner \in [Collectors -> Providers]
  /\ Lead \in [Providers -> Collectors]
  /\ \A p \in Providers : Owner[Lead[p]] = p
  /\ NeedsLead \subseteq Collectors /\ Optional \subseteq Collectors
  /\ \A p \in Providers : Lead[p] \notin NeedsLead \cup Optional

ASSUME ItemsAssumption ==
  /\ Items \in [Collectors -> SUBSET Assets]
  /\ \A c, d \in Collectors : c # d => Items[c] \cap Items[d] = {}
  /\ Assets = UNION {Items[c] : c \in Collectors}

ASSUME BoundsAssumption ==
  /\ Limit \in Nat \ {0}
  /\ ErrCap \in [Providers -> Nat \ {0}]

VARIABLES
  ctx,      \* "live", or why the audit's context ended
  cs,       \* collector state
  left,     \* per collector, the items it has not sent
  run,      \* per provider, where Collect's goroutine is
  errbuf,   \* per provider, the errors in its buffered channel
  fwd,      \* per provider, whether forward is in its loop or has returned
  src,      \* per provider, the source channels forward has not seen closed
  held,     \* per provider, the asset forward received and is sending on
  heldErr,  \* per provider, the error forward received and is sending on
  out,      \* the merged pair: "open", "assetsClosed", "closed"
  got,      \* assets the consumer received from the merged channel
  reported  \* errors its reader received from the merged error channel

vars == <<ctx, cs, left, run, errbuf, fwd, src, held, heldErr,
          out, got, reported>>
provVars == <<cs, left, run, errbuf>>
fwdVars  == <<fwd, src, held, heldErr>>
sinkVars == <<got, reported>>

Of(p) == {c \in Collectors : Owner[c] = p}
Fan(p) == Of(p) \ {Lead[p]}

\* The collectors g.Go counts: started and not returned.
Running(p) == {c \in Of(p) : cs[c] \in {"listing", "failed"}}

Types ==
  /\ ctx \in {"live", "deadline", "canceled"}
  /\ cs \in [Collectors -> {"idle", "listing", "failed", "done", "skipped"}]
  /\ left \in [Collectors -> SUBSET Assets]
  /\ run \in [Providers -> {"lead", "fan", "errsClosed", "closed"}]
  /\ errbuf \in [Providers -> SUBSET Collectors]
  /\ fwd \in [Providers -> {"loop", "done"}]
  /\ src \in [Providers -> SUBSET {"assets", "errs"}]
  /\ held \in [Providers -> SUBSET Assets]
  /\ heldErr \in [Providers -> SUBSET Collectors]
  /\ out \in {"open", "assetsClosed", "closed"}
  /\ got \in SUBSET Assets
  /\ reported \in SUBSET Collectors

\* Types, and the two bounds the code relies on: errgroup's limit and the
\* capacity of a provider's error channel.
TypeOK ==
  /\ Types
  /\ \A p \in Providers : Cardinality(Running(p)) <= Limit
  /\ \A p \in Providers : Cardinality(errbuf[p]) <= ErrCap[p]

Init ==
  /\ ctx = "live"
  /\ cs = [c \in Collectors |-> IF c = Lead[Owner[c]] THEN "listing" ELSE "idle"]
  /\ left = Items
  /\ run = [p \in Providers |-> "lead"]
  /\ errbuf = [p \in Providers |-> {}]
  /\ fwd = [p \in Providers |-> "loop"]
  /\ src = [p \in Providers |-> {"assets", "errs"}]
  /\ held = [p \in Providers |-> {}]
  /\ heldErr = [p \in Providers |-> {}]
  /\ out = "open"
  /\ got = {}
  /\ reported = {}

-----------------------------------------------------------------------------
(* The context: --timeout expires; or it is canceled, by Ctrl-C, a client  *)
(* disconnect or the caller's deferred cancel.                             *)

CtxEnd(why) ==
  /\ ctx = "live"
  /\ ctx' = why
  /\ UNCHANGED <<provVars, fwdVars, out, sinkVars>>

-----------------------------------------------------------------------------
(* A provider.  Returning from the lead step either opens the fan-out or   *)
(* abandons the collectors that depend on it.                              *)

AtSelect(p) == fwd[p] = "loop" /\ held[p] = {} /\ heldErr[p] = {}

\* The lead of p returns, leaving `skip` unstarted for good.
LeadReturns(p, skip) ==
  run' = [run EXCEPT ![p] = "fan"] /\
  cs' = [c \in Collectors |->
           CASE c = Lead[p] -> "done"
             [] c \in skip -> "skipped"
             [] OTHER -> cs[c]]

\* Collector c returns; when it is a lead, `skip` names what it takes down.
Returns(c, skip) ==
  IF c = Lead[Owner[c]]
  THEN LeadReturns(Owner[c], skip)
  ELSE cs' = [cs EXCEPT ![c] = "done"] /\ UNCHANGED run

\* Mutant of Launch: no g.SetLimit.
LaunchAll(c) ==
  /\ cs[c] = "idle"
  /\ run[Owner[c]] = "fan"
  /\ cs' = [cs EXCEPT ![c] = "listing"]
  /\ UNCHANGED <<ctx, left, run, errbuf, fwdVars, out, sinkVars>>

\* g.Go blocks while Limit functions are running.
Launch(c) ==
  /\ cs[c] = "idle"
  /\ run[Owner[c]] = "fan"
  /\ Cardinality(Running(Owner[c])) < Limit
  /\ cs' = [cs EXCEPT ![c] = "listing"]
  /\ UNCHANGED <<ctx, left, run, errbuf, fwdVars, out, sinkVars>>

\* sendAsset meets the receive in forward's select.
SendAsset(c, a) ==
  LET p == Owner[c] IN
  /\ cs[c] = "listing" /\ a \in left[c]
  /\ AtSelect(p) /\ "assets" \in src[p]
  /\ left' = [left EXCEPT ![c] = @ \ {a}]
  /\ held' = [held EXCEPT ![p] = {a}]
  /\ UNCHANGED <<ctx, cs, run, errbuf, fwd, src, heldErr, out, sinkVars>>

\* sendAsset takes its ctx.Done branch: the collector returns nil.  A lead
\* that gives up returns from run, so nothing is ever launched.
AbandonSend(c) ==
  /\ cs[c] = "listing" /\ left[c] # {} /\ ctx # "live"
  /\ Returns(c, Fan(Owner[c]))
  /\ UNCHANGED <<ctx, left, errbuf, fwdVars, out, sinkVars>>

\* An API call returns an error.  Only context.Canceled is swallowed (below);
\* every other error, DeadlineExceeded included, must go on the error channel.
Fail(c) ==
  /\ cs[c] = "listing"
  /\ cs' = [cs EXCEPT ![c] = "failed"]
  /\ UNCHANGED <<ctx, left, run, errbuf, fwdVars, out, sinkVars>>

\* Mutant of SwallowCanceled: errors.Is(err, context.DeadlineExceeded) or any
\* other error taken for a cancellation.
SwallowAny(c) ==
  /\ cs[c] = "listing"
  /\ Returns(c, NeedsLead \cap Of(Owner[c]))
  /\ UNCHANGED <<ctx, left, errbuf, fwdVars, out, sinkVars>>

SwallowCanceled(c) ==
  /\ cs[c] = "listing" /\ ctx = "canceled"
  /\ Returns(c, NeedsLead \cap Of(Owner[c]))
  /\ UNCHANGED <<ctx, left, errbuf, fwdVars, out, sinkVars>>

\* A disabled Cloudflare service, a Forbidden Kubernetes resource: the
\* collector returns without its items and without an error.
GiveUpSilently(c) ==
  /\ cs[c] = "listing" /\ c \in Optional
  /\ Returns(c, {})
  /\ UNCHANGED <<ctx, left, errbuf, fwdVars, out, sinkVars>>

Finish(c) ==
  /\ cs[c] = "listing" /\ left[c] = {}
  /\ Returns(c, {})
  /\ UNCHANGED <<ctx, left, errbuf, fwdVars, out, sinkVars>>

\* emitErr's send: into the provider's buffered channel while it has room.
EmitErr(c) ==
  LET p == Owner[c] IN
  /\ cs[c] = "failed" /\ Cardinality(errbuf[p]) < ErrCap[p]
  /\ errbuf' = [errbuf EXCEPT ![p] = @ \cup {c}]
  /\ Returns(c, NeedsLead \cap Of(p))
  /\ UNCHANGED <<ctx, left, fwdVars, out, sinkVars>>

\* Mutant of DropErr: emitErr with a default branch, losing what does not fit.
DropErrWhenFull(c) ==
  /\ cs[c] = "failed"
  /\ ctx # "live" \/ Cardinality(errbuf[Owner[c]]) >= ErrCap[Owner[c]]
  /\ Returns(c, NeedsLead \cap Of(Owner[c]))
  /\ UNCHANGED <<ctx, left, errbuf, fwdVars, out, sinkVars>>

\* Mutant of DropErr: emitErr waits for room without watching the context.
NeverDropErr(c) ==
  /\ cs[c] = "failed" /\ ctx # "live" /\ FALSE
  /\ UNCHANGED vars

\* emitErr's ctx.Done branch: the error is dropped.
DropErr(c) ==
  /\ cs[c] = "failed" /\ ctx # "live"
  /\ Returns(c, NeedsLead \cap Of(Owner[c]))
  /\ UNCHANGED <<ctx, left, errbuf, fwdVars, out, sinkVars>>

\* Mutant of CloseErrs: run returns without g.Wait.
CloseErrsEarly(p) ==
  /\ run[p] = "fan"
  /\ run' = [run EXCEPT ![p] = "errsClosed"]
  /\ UNCHANGED <<ctx, cs, left, errbuf, fwdVars, out, sinkVars>>

\* g.Wait returns and the deferred closes run: errs first, then assets.
CloseErrs(p) ==
  /\ run[p] = "fan"
  /\ \A c \in Of(p) : cs[c] \in {"done", "skipped"}
  /\ run' = [run EXCEPT ![p] = "errsClosed"]
  /\ UNCHANGED <<ctx, cs, left, errbuf, fwdVars, out, sinkVars>>

CloseAssets(p) ==
  /\ run[p] = "errsClosed"
  /\ run' = [run EXCEPT ![p] = "closed"]
  /\ UNCHANGED <<ctx, cs, left, errbuf, fwdVars, out, sinkVars>>

-----------------------------------------------------------------------------
(* forward, one goroutine per provider.                                    *)

RecvErr(p, c) ==
  /\ AtSelect(p) /\ "errs" \in src[p] /\ c \in errbuf[p]
  /\ errbuf' = [errbuf EXCEPT ![p] = @ \ {c}]
  /\ heldErr' = [heldErr EXCEPT ![p] = {c}]
  /\ UNCHANGED <<ctx, cs, left, run, fwd, src, held, out, sinkVars>>

\* Mutant of SeeClosed: the loop ends with the first closed source (&& for ||).
SeeFirstClosed(p, ch) ==
  /\ AtSelect(p) /\ ch \in src[p]
  /\ IF ch = "errs" THEN run[p] \in {"errsClosed", "closed"} /\ errbuf[p] = {}
                    ELSE run[p] = "closed"
  /\ src' = [src EXCEPT ![p] = @ \ {ch}]
  /\ fwd' = [fwd EXCEPT ![p] = "done"]
  /\ UNCHANGED <<ctx, provVars, held, heldErr, out, sinkVars>>

\* A closed source is set to nil; the loop ends when both are.
SeeClosed(p, ch) ==
  /\ AtSelect(p) /\ ch \in src[p]
  /\ IF ch = "errs" THEN run[p] \in {"errsClosed", "closed"} /\ errbuf[p] = {}
                    ELSE run[p] = "closed"
  /\ src' = [src EXCEPT ![p] = @ \ {ch}]
  /\ fwd' = [fwd EXCEPT ![p] = IF src[p] = {ch} THEN "done" ELSE @]
  /\ UNCHANGED <<ctx, provVars, held, heldErr, out, sinkVars>>

\* Either select's ctx.Done branch: an item in hand is lost.
FwdCancel(p) ==
  /\ fwd[p] = "loop" /\ ctx # "live"
  /\ fwd' = [fwd EXCEPT ![p] = "done"]
  /\ held' = [held EXCEPT ![p] = {}]
  /\ heldErr' = [heldErr EXCEPT ![p] = {}]
  /\ UNCHANGED <<ctx, provVars, src, out, sinkVars>>

\* Mutant of DeliverAsset: the item stays in hand after it was sent.
DeliverTwice(p, a) ==
  /\ fwd[p] = "loop" /\ a \in held[p]
  /\ got' = got \cup {a}
  /\ UNCHANGED <<ctx, provVars, fwdVars, out, reported>>

\* forward's inner send meets the consumer's receive.
DeliverAsset(p, a) ==
  /\ fwd[p] = "loop" /\ a \in held[p]
  /\ held' = [held EXCEPT ![p] = {}]
  /\ got' = got \cup {a}
  /\ UNCHANGED <<ctx, provVars, fwd, src, heldErr, out, reported>>

\* The same for an error, with the caller's drain goroutine, which receives
\* until the channel is closed.
DeliverErr(p, c) ==
  /\ fwd[p] = "loop" /\ c \in heldErr[p]
  /\ heldErr' = [heldErr EXCEPT ![p] = {}]
  /\ reported' = reported \cup {c}
  /\ UNCHANGED <<ctx, provVars, fwd, src, held, out, got>>

-----------------------------------------------------------------------------
(* The closer, after wg.Wait.                                              *)

\* Mutant of CloseMerged: the merged pair closes with the first forwarder.
CloseMergedEarly ==
  \/ /\ out = "open" /\ \E p \in Providers : fwd[p] = "done"
     /\ out' = "closed"
     /\ UNCHANGED <<ctx, provVars, fwdVars, sinkVars>>
  \/ /\ out = "assetsClosed"
     /\ out' = "closed"
     /\ UNCHANGED <<ctx, provVars, fwdVars, sinkVars>>

CloseMerged ==
  \/ /\ out = "open" /\ \A p \in Providers : fwd[p] = "done"
     /\ out' = "assetsClosed"
     /\ UNCHANGED <<ctx, provVars, fwdVars, sinkVars>>
  \/ /\ out = "assetsClosed"
     /\ out' = "closed"
     /\ UNCHANGED <<ctx, provVars, fwdVars, sinkVars>>

-----------------------------------------------------------------------------
Collector(c) ==
  \/ Launch(c) \/ AbandonSend(c) \/ Fail(c) \/ SwallowCanceled(c)
  \/ GiveUpSilently(c) \/ Finish(c) \/ EmitErr(c) \/ DropErr(c)
  \/ \E a \in Assets : SendAsset(c, a)

Provider(p) == CloseErrs(p) \/ CloseAssets(p)

\* Steps of forward that do not need the consumer.
Forward(p) ==
  \/ \E c \in Collectors : RecvErr(p, c)
  \/ \E ch \in {"assets", "errs"} : SeeClosed(p, ch)
  \/ FwdCancel(p)
  \/ \E c \in Collectors : DeliverErr(p, c)

Fabric ==
  \/ \E c \in Collectors : Collector(c)
  \/ \E p \in Providers : Provider(p) \/ Forward(p)
  \/ CloseMerged

Next ==
  \/ \E why \in {"deadline", "canceled"} : CtxEnd(why)
  \/ Fabric
  \/ \E p \in Providers, a \in Assets : DeliverAsset(p, a)

\* Go schedules some runnable goroutine, and an API call returns.  No step can
\* be repeated for ever, so this is all the fairness a collection needs.  The
\* reader of the asset channel need not be fair, nor the context ever end.
Spec == Init /\ [][Next]_vars /\ WF_vars(Fabric)

-----------------------------------------------------------------------------
(* Properties.                                                             *)

\* With a live context nothing is lost on the way, and nothing is duplicated
\* under any: an asset is still with its collector, in forward's hand, or
\* with the consumer - in exactly one of them.
Held == UNION {held[p] : p \in Providers}
Left == UNION {left[c] : c \in Collectors}
NothingLost ==
  /\ ctx = "live" => Assets = Left \cup Held \cup got
  /\ Left \cap Held = {} /\ Left \cap got = {} /\ Held \cap got = {}

\* A failure is never silent while the context is live: the assets a
\* non-Optional collector did not send are accounted for by an error of its
\* own or of its lead, somewhere between the collector and the consumer.
InFlight(p) == errbuf[p] \cup heldErr[p] \cup reported
FailureIsReported ==
  ctx = "live" =>
    \A c \in Collectors \ Optional :
      cs[c] \in {"done", "skipped"} /\ left[c] # {} =>
        {c, Lead[Owner[c]]} \cap InFlight(Owner[c]) # {}

\* No goroutine of a provider is left to send once its channels are closed
\* (a send on a closed channel panics), and none of the forwarders once the
\* merged pair is.
ClosedHasNoSender ==
  /\ \A p \in Providers : run[p] \in {"errsClosed", "closed"} =>
       \A c \in Of(p) : cs[c] \in {"done", "skipped"}
  /\ out # "open" => Held = {} /\ \A p \in Providers : heldErr[p] = {}

\* The whole collection keeps the promise its callers build on.  A provider's
\* inventory is everything but what an Optional collector may leave out.
Inventory == [p \in Providers |-> UNION {Items[c] : c \in Of(p) \ Optional}]
Promise == INSTANCE MergedStream WITH Reporters <- Collectors
ImplementsMergedStream == Promise!StreamSpec

\* Every audit ends, whatever fails, if its consumer keeps reading or if its
\* context ends: the merged pair is closed, and no collector, provider or
\* forwarder goroutine is left behind.
Quiet ==
  /\ out = "closed"
  /\ \A p \in Providers : run[p] = "closed" /\ fwd[p] = "done"
  /\ \A c \in Collectors : cs[c] \in {"done", "skipped"}
EveryAuditEnds == []<>(Held = {}) \/ <>(ctx # "live") => <>Quiet
=============================================================================
