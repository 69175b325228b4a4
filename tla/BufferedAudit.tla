---------------------------- MODULE BufferedAudit ---------------------------
(***************************************************************************)
(* The callers of runProviders that collect everything before they answer: *)
(*   "live"    liveSnapshot, `diff --since ... --against live`             *)
(*             (src/internal/cli/diff.go)                                  *)
(*   "check"   `check` on a live audit (src/internal/cli/check.go)         *)
(*   "graph"   gatherForGraph, used by topology, reach, cost and insights  *)
(*             (src/internal/cli/graphsource.go)                           *)
(*   "handler" GET topology, reach and insights (src/internal/server)      *)
(* All of them append what arrives until the asset channel closes, wait    *)
(* for the drain goroutine, and then decide.  None of them looks at the    *)
(* context again.                                                          *)
(***************************************************************************)
EXTENDS MergedStream

VARIABLES
  caller,
  phase,    \* "collect", "join", "decide", "returned"
  provErrs, \* the errors the drain goroutine has appended to the slice
  errsDone, \* it has ended
  collected,\* the slice, as the set of its elements
  answer    \* "none", "full", "partial" (errors reported with it), "refused"

drainVars == <<provErrs, errsDone>>
bufVars == <<caller, phase, drainVars, collected, answer>>
vars == <<streamVars, bufVars>>

Callers == {"live", "check", "graph", "handler"}

BufTypeOK ==
  /\ StreamTypeOK
  /\ caller \in Callers
  /\ phase \in {"collect", "join", "decide", "returned"}
  /\ provErrs \in SUBSET Reporters /\ errsDone \in BOOLEAN
  /\ collected \in SUBSET Assets
  /\ answer \in {"none", "full", "partial", "refused"}
  /\ phase = "returned" <=> answer # "none"

BufInit ==
  /\ StreamInit
  /\ caller \in Callers
  /\ phase = "collect" /\ provErrs = {} /\ errsDone = FALSE
  /\ collected = {} /\ answer = "none"

\* Mutant of Collect: the errors are waited for first.
CollectAfterErrs(a) ==
  /\ phase = "collect" /\ errsDone /\ HandOver(a)
  /\ collected' = collected \cup {a}
  /\ UNCHANGED <<caller, phase, drainVars, answer>>

Collect(a) ==
  /\ phase = "collect" /\ HandOver(a)
  /\ collected' = collected \cup {a}
  /\ UNCHANGED <<caller, phase, drainVars, answer>>

RangeEnds ==
  /\ phase = "collect" /\ out # "open"
  /\ phase' = "join"
  /\ UNCHANGED <<streamVars, caller, drainVars, collected, answer>>

\* Mutant of AwaitErrs: the decision does not wait for the drain goroutine.
AwaitNothing ==
  /\ phase = "join"
  /\ phase' = "decide"
  /\ UNCHANGED <<streamVars, caller, drainVars, collected, answer>>

AwaitErrs ==
  /\ phase = "join" /\ errsDone
  /\ phase' = "decide"
  /\ UNCHANGED <<streamVars, caller, drainVars, collected, answer>>

\* Mutant of Verdict: liveSnapshot reports what it has.
VerdictNeverRefuses == IF provErrs = {} THEN "full" ELSE "partial"

\* An error makes liveSnapshot refuse; the others report it beside the result
\* (exit 2 and ErrPartial, or the response's list of errors).
Verdict ==
  IF provErrs = {} THEN "full"
  ELSE IF caller = "live" THEN "refused" ELSE "partial"

\* Mutant of Decide: nothing is answered once the context has ended.
DecideIfLive ==
  /\ phase = "decide"
  /\ phase' = "returned" /\ answer' = IF ctx = "live" THEN Verdict ELSE "none"
  /\ IF ctx = "live" THEN CtxEnds("returned") ELSE UNCHANGED streamVars
  /\ UNCHANGED <<caller, drainVars, collected>>

\* The command or handler returns, and its deferred cancel runs.
Decide ==
  /\ phase = "decide"
  /\ phase' = "returned" /\ answer' = Verdict
  /\ IF ctx = "live" THEN CtxEnds("returned") ELSE UNCHANGED streamVars
  /\ UNCHANGED <<caller, drainVars, collected>>

\* The collection and the drain goroutine.
CollectionEnds ==
  /\ CloseAssetChan \/ CloseErrChan
  /\ UNCHANGED bufVars

DrainErr(r) ==
  /\ provErrs = reported /\ Report(r)
  /\ UNCHANGED bufVars

\* Receiving an error and appending it are two steps of the goroutine.
AppendErr ==
  /\ provErrs # reported /\ provErrs' = reported
  /\ UNCHANGED <<streamVars, caller, phase, errsDone, collected, answer>>

ErrsEnd ==
  /\ out = "closed" /\ provErrs = reported /\ ~errsDone
  /\ errsDone' = TRUE
  /\ UNCHANGED <<streamVars, caller, phase, provErrs, collected, answer>>

Interrupt(why) ==
  /\ phase # "returned" /\ CtxEnds(why)
  /\ UNCHANGED bufVars

BufNext ==
  \/ \E a \in Assets : Collect(a)
  \/ RangeEnds \/ AwaitErrs \/ Decide \/ CollectionEnds \/ AppendErr \/ ErrsEnd
  \/ \E r \in Reporters : DrainErr(r)
  \/ \E why \in {"deadline", "canceled"} : Interrupt(why)

BufSpec ==
  /\ BufInit /\ [][BufNext]_vars
  /\ WF_vars(RangeEnds \/ AwaitErrs \/ Decide \/ \E a \in Assets : Collect(a))
  /\ WF_vars(CollectionEnds) /\ WF_vars(AppendErr \/ ErrsEnd)

-----------------------------------------------------------------------------
(* Properties.                                                             *)

Complete == \A p \in Providers : Inventory[p] \subseteq collected

\* When the collection was not interrupted, an answer given as a full one is
\* complete, and a partial one lacks nothing but what failed providers own.
UninterruptedAnswerIsHonest ==
  ctx = "returned" =>
    /\ answer = "full" => Complete
    /\ answer = "partial" =>
         \A p \in Providers : Inventory[p] \subseteq collected \/ Failed(p)

\* "every asset belonging to the provider that failed would show up as
\* removed": no error a provider reported is ever behind an accepted live
\* snapshot, whenever the context ends.
LiveNeverHidesAnError ==
  caller = "live" /\ answer \in {"full", "partial"} => reported = {}

\* The answer always comes.
AnswerComes == <>(answer # "none")

\* "A partial collection is refused outright": what liveSnapshot accepts as
\* the current side of a diff is complete.
LivePartialIsRefused == caller = "live" /\ answer = "full" => Complete
=============================================================================
