---------------------------- MODULE MergedStream ----------------------------
(***************************************************************************)
(* What runProviders (src/internal/cli/audit.go and the identical one in   *)
(* src/internal/server/audit.go) promises the commands and handlers that   *)
(* call it, without saying how: assets are handed over one at a time, none *)
(* invented and none twice; so are errors; the pair of channels is closed  *)
(* once, assets first, and only when every provider has either delivered   *)
(* its whole inventory or reported an error - or the context has ended.    *)
(*                                                                         *)
(* Collection implements this module; the modules of the callers build on  *)
(* it and add the readers of the two channels.                             *)
(***************************************************************************)
EXTENDS Naturals

CONSTANTS
  Providers,  \* the selected providers
  Assets,     \* assets that exist in the audited clouds
  Inventory,  \* per provider, what it delivers when nothing goes wrong
  Reporters,  \* the collectors that may report an error
  Owner       \* the provider of a reporter

ASSUME InventoryAssumption ==
  /\ Inventory \in [Providers -> SUBSET Assets]
  /\ Owner \in [Reporters -> Providers]

VARIABLES
  ctx,       \* "live", or why the audit's context ended
  got,       \* the assets handed to the reader of the merged asset channel
  reported,  \* the errors handed to the reader of the error channel
  out        \* the pair of channels: "open", "assetsClosed", "closed"

streamVars == <<ctx, got, reported, out>>

StreamTypeOK ==
  /\ ctx \in {"live", "deadline", "canceled", "returned"}
  /\ got \in SUBSET Assets
  /\ reported \in SUBSET Reporters
  /\ out \in {"open", "assetsClosed", "closed"}

StreamInit ==
  /\ ctx = "live" /\ got = {} /\ reported = {} /\ out = "open"

\* --timeout expires; Ctrl-C or a client disconnect; the caller returns and
\* its deferred cancel runs.
Endings == {"deadline", "canceled", "returned"}
CtxEnds(why) ==
  /\ ctx = "live" /\ ctx' = why
  /\ UNCHANGED <<got, reported, out>>

HandOver(a) ==
  /\ out = "open" /\ a \notin got
  /\ got' = got \cup {a}
  /\ UNCHANGED <<ctx, reported, out>>

Report(r) ==
  /\ out = "open" /\ r \notin reported
  /\ reported' = reported \cup {r}
  /\ UNCHANGED <<ctx, got, out>>

Failed(p) == \E r \in reported : Owner[r] = p
Delivered(p) == Inventory[p] \subseteq got

CloseAssetChan ==
  /\ out = "open"
  /\ ctx # "live" \/ \A p \in Providers : Delivered(p) \/ Failed(p)
  /\ out' = "assetsClosed"
  /\ UNCHANGED <<ctx, got, reported>>

CloseErrChan ==
  /\ out = "assetsClosed"
  /\ out' = "closed"
  /\ UNCHANGED <<ctx, got, reported>>

StreamNext ==
  \/ \E why \in Endings : CtxEnds(why)
  \/ \E a \in Assets : HandOver(a)
  \/ \E r \in Reporters : Report(r)
  \/ CloseAssetChan \/ CloseErrChan

StreamSpec == StreamInit /\ [][StreamNext]_streamVars

-----------------------------------------------------------------------------
\* A clean end is a complete one: when the channels are closed, no error was
\* handed over and the context is still live, every provider delivered its
\* inventory.  The cache write in audit.go relies on it.
CleanEndIsComplete ==
  out # "open" /\ reported = {} /\ ctx = "live" => \A p \in Providers : Delivered(p)
=============================================================================
