---------------------------- MODULE AuditCommand ----------------------------
(***************************************************************************)
(* `auditor audit`: RunE in src/internal/cli/audit.go, reading what runProviders *)
(* promises (MergedStream).                                                *)
(* It may serve a cached snapshot, stream the live collection, or buffer   *)
(* it first (--cache); the assets pass the annotate and filter stages to   *)
(* the renderer; the snapshot may be written to the cache; the outcome     *)
(* becomes the exit code.  Flag parsing and the hard failures before the   *)
(* context is made are left out.                                           *)
(*                                                                         *)
(* The pipeline is a chain of unbuffered channels: channel 0 is the source *)
(* (the merged channel, or assetChan's replay of a slice) and channel i is *)
(* the output of stage i.  The renderer reads the last one.                *)
(***************************************************************************)
EXTENDS MergedStream, Sequences, SequencesExt

CONSTANTS
  Pipelines,   \* the stage lists a flag combination gives
  Matching,    \* the assets --filter selects
  MaxStages

ASSUME PipelineAssumption ==
  /\ MaxStages \in Nat
  /\ Pipelines \subseteq SeqOf({"annotate", "filter"}, MaxStages)
  /\ Matching \subseteq Assets

VARIABLES
  provErrs,  \* the errors the drain goroutine has appended to the slice
  errsDone,  \* it saw the error channel closed
  mode,      \* "stream", "buffer" (--cache), "maxage" (--cache-max-age),
             \* "hit" once a cached snapshot is being served
  main,      \* where RunE is
  snapshots, \* the snapshots the database holds for this provider set
  stages,    \* the stages of this run
  st,        \* per stage: "recv", "send" or "done" (its output is closed)
  item,      \* per stage, the assets in its hand (at most one)
  replay,    \* what assetChan's goroutine still has to send
  replayer,  \* "off", "on", "closed"
  rend,      \* renderer: "recv", or how Render returned
  rendered,  \* the assets it wrote
  exit       \* "none", or what RunE returned: "ok" 0, "hard" 1, "partial" 2

pipeVars == <<stages, st, item, replay, replayer, rend, rendered>>
drainVars == <<provErrs, errsDone>>
cmdVars  == <<drainVars, mode, main, snapshots, exit>>
allVars  == <<streamVars, pipeVars, cmdVars>>

Stages == 1..MaxStages
Snapshots == SUBSET Assets

CmdTypeOK ==
  /\ StreamTypeOK
  /\ provErrs \in SUBSET Reporters /\ errsDone \in BOOLEAN
  /\ mode \in {"stream", "buffer", "maxage", "hit"}
  /\ main \in {"lookup", "collect", "join", "render", "write", "returned"}
  /\ snapshots \in SUBSET Snapshots
  /\ stages \in Pipelines
  /\ st \in [Stages -> {"recv", "send", "done"}]
  /\ item \in [Stages -> SUBSET Assets]
  /\ replay \in SUBSET Assets
  /\ replayer \in {"off", "on", "closed"}
  /\ rend \in {"recv", "ok", "failed", "ctxErr"}
  /\ rendered \in SUBSET Assets
  /\ exit \in {"none", "ok", "hard", "partial"}

\* The database may hold an entry an earlier complete run left; only a run with
\* --cache-max-age reads it.
CmdInit ==
  /\ StreamInit
  /\ provErrs = {} /\ errsDone = FALSE
  /\ mode \in {"stream", "buffer", "maxage"}
  /\ main = "lookup"
  /\ snapshots = IF mode = "maxage" THEN {Assets} ELSE {}
  /\ stages \in Pipelines
  /\ st = [i \in Stages |-> "recv"]
  /\ item = [i \in Stages |-> {}]
  /\ replay = {} /\ replayer = "off"
  /\ rend = "recv" /\ rendered = {}
  /\ exit = "none"

-----------------------------------------------------------------------------
(* The pipeline.                                                           *)

Live == mode = "stream" /\ main # "lookup"      \* channel 0 is the merged channel
Reading == \/ Live /\ main \in {"render", "join", "returned"}
           \/ ~Live /\ replayer # "off"         \* renderStream has been called
Final == Len(stages)

\* The reader of channel i: stage i+1 or, on the last channel, the renderer.
ReaderReady(i) == Reading /\ IF i = Final THEN rend = "recv" ELSE st[i + 1] = "recv"

\* Asset a moves over channel i.  Its writer (if it is a stage) goes back to
\* receiving; a filter that does not match drops the asset at once.
Keeps(i, a) == stages[i] = "filter" => a \in Matching
Move(i, a) ==
  /\ ReaderReady(i)
  /\ rendered' = IF i = Final THEN rendered \cup {a} ELSE rendered
  /\ st' = [j \in Stages |->
              CASE j = i -> "recv"
                [] j = i + 1 /\ i < Final /\ Keeps(j, a) -> "send"
                [] OTHER -> st[j]]
  /\ item' = [j \in Stages |->
                CASE j = i -> {}
                  [] j = i + 1 /\ i < Final /\ Keeps(j, a) -> {a}
                  [] OTHER -> item[j]]

SourceClosed == IF Live THEN out # "open" ELSE replayer = "closed"
Closed(i) == IF i = 0 THEN SourceClosed ELSE st[i] = "done"

\* Channel 0 in stream mode: the hand-over meets the first reader.
StreamAsset(a) ==
  /\ Live
  /\ HandOver(a)
  /\ Move(0, a)
  /\ UNCHANGED <<stages, replay, replayer, rend, cmdVars>>

\* Channel 0 otherwise: assetChan's goroutine replays a slice.
ReplayAsset(a) ==
  /\ replayer = "on" /\ a \in replay
  /\ replay' = replay \ {a}
  /\ Move(0, a)
  /\ UNCHANGED <<streamVars, stages, replayer, rend, cmdVars>>

ReplayEnds ==
  /\ replayer = "on"
  /\ replay = {} \/ ctx # "live"
  /\ replayer' = "closed"
  /\ UNCHANGED <<streamVars, stages, st, item, replay, rend, rendered, cmdVars>>

\* A stage (Annotate, Filter.Chan) hands its item to the next reader.
StageSend(i, a) ==
  /\ i <= Final /\ st[i] = "send" /\ a \in item[i]
  /\ Move(i, a)
  /\ UNCHANGED <<streamVars, stages, replay, replayer, rend, cmdVars>>

\* Mutant of StageEnds: a stage that sees its input closed drops its item.
StageEndsEarly(i) ==
  /\ Reading /\ i <= Final /\ st[i] # "done"
  /\ ctx # "live" \/ Closed(i - 1)
  /\ st' = [st EXCEPT ![i] = "done"]
  /\ item' = [item EXCEPT ![i] = {}]
  /\ UNCHANGED <<streamVars, stages, replay, replayer, rend, rendered, cmdVars>>

\* A stage returns, closing its output: its input is closed or the context
\* has ended; an item in hand is dropped.
StageEnds(i) ==
  /\ Reading /\ i <= Final /\ st[i] # "done"
  /\ ctx # "live" \/ (st[i] = "recv" /\ Closed(i - 1))
  /\ st' = [st EXCEPT ![i] = "done"]
  /\ item' = [item EXCEPT ![i] = {}]
  /\ UNCHANGED <<streamVars, stages, replay, replayer, rend, rendered, cmdVars>>

\* Render returns: the input is closed, the context has ended, or a write
\* failed.  When several hold, select and the writer decide.
RenderReturns(how) ==
  /\ Reading /\ rend = "recv"
  /\ CASE how = "ok" -> Closed(Final)
       [] how = "ctxErr" -> ctx # "live"
       [] how = "failed" -> TRUE
  /\ rend' = how
  /\ UNCHANGED <<streamVars, stages, st, item, replay, replayer, rendered, cmdVars>>

-----------------------------------------------------------------------------
(* RunE.                                                                   *)

StartReplay(set) == replay' = set /\ replayer' = "on"

\* readCache: a fresh snapshot is served instead of collecting; any failure
\* (the context, the file, the age) means a live run.
CacheHit ==
  /\ main = "lookup" /\ mode = "maxage"
  /\ \E s \in snapshots : StartReplay(s)
  /\ main' = "render" /\ mode' = "hit"
  /\ UNCHANGED <<streamVars, stages, st, item, rend, rendered, drainVars, snapshots, exit>>

StartCollect ==
  /\ main = "lookup"
  /\ main' = IF mode = "stream" THEN "render" ELSE "collect"
  /\ UNCHANGED <<streamVars, pipeVars, drainVars, mode, snapshots, exit>>

\* `for a := range assets` does not watch the context.
BufferAsset(a) ==
  /\ main = "collect"
  /\ HandOver(a)
  /\ UNCHANGED <<pipeVars, cmdVars>>

RangeEnds ==
  /\ main = "collect" /\ out # "open"
  /\ main' = "join"
  /\ UNCHANGED <<streamVars, pipeVars, drainVars, mode, snapshots, exit>>

\* <-errsDone, then renderStream over the buffered snapshot.
RenderBuffered ==
  /\ main = "join" /\ ~Live /\ errsDone
  /\ StartReplay(got)
  /\ main' = "render"
  /\ UNCHANGED <<streamVars, stages, st, item, rend, rendered, drainVars, mode, snapshots, exit>>

\* In stream mode RunE waits for <-errsDone after Render has returned, also
\* when it failed: nothing cancels the context in between.
JoinErrs ==
  /\ main = "render" /\ Live /\ rend # "recv"
  /\ main' = "join"
  /\ UNCHANGED <<streamVars, pipeVars, drainVars, mode, snapshots, exit>>

\* Mutant of Cacheable: what the drain goroutine collected is ignored.
CacheableIgnoringErrs == rend = "ok" /\ ctx = "live" /\ Providers # {}

\* The cache write is attempted only for a complete, uncancelled audit.
Cacheable == rend = "ok" /\ provErrs = {} /\ ctx = "live" /\ Providers # {}

CheckCacheable ==
  /\ main = "render" /\ mode \in {"buffer", "maxage"} /\ rend # "recv"
  /\ Cacheable
  /\ main' = "write"
  /\ UNCHANGED <<streamVars, pipeVars, drainVars, mode, snapshots, exit>>

\* Mutant of ExitCode: the errors of providers are looked at first.
ExitCodePartialFirst ==
  IF provErrs # {} THEN "partial" ELSE IF rend # "ok" THEN "hard" ELSE "ok"

\* Mutant of ExitCode: the renderer's own error is the outcome.
ExitCodeOfRender ==
  IF rend # "ok" THEN rend ELSE IF provErrs # {} THEN "partial" ELSE "ok"

\* The order of RunE's final returns.
ExitCode ==
  IF rend # "ok" THEN "hard" ELSE IF provErrs # {} THEN "partial" ELSE "ok"

\* Mutant of Return: no deferred cancel.
ReturnWithoutCancel ==
  /\ main' = "returned" /\ exit' = ExitCode
  /\ UNCHANGED streamVars

\* Returning runs the deferred cancel.
Return ==
  /\ main' = "returned" /\ exit' = ExitCode
  /\ IF ctx = "live" THEN CtxEnds("returned") ELSE UNCHANGED streamVars

\* SaveAudit is one transaction; it fails when the context has ended, or for
\* the database's own reasons, and a failure only warns.
WriteCache ==
  /\ main = "write"
  /\ \/ ctx = "live" /\ snapshots' = snapshots \cup {got}
     \/ UNCHANGED snapshots
  /\ Return
  /\ UNCHANGED <<pipeVars, drainVars, mode>>

ReturnUncached ==
  /\ \/ main = "join" /\ mode = "stream" /\ errsDone
     \/ main = "render" /\ mode = "hit" /\ rend # "recv"
     \/ main = "render" /\ mode \in {"buffer", "maxage"} /\ rend # "recv" /\ ~Cacheable
  /\ Return
  /\ UNCHANGED <<pipeVars, drainVars, mode, snapshots>>

-----------------------------------------------------------------------------
\* Ctrl-C or --timeout while RunE is running.
Interrupt(why) ==
  /\ main # "returned"
  /\ CtxEnds(why)
  /\ UNCHANGED <<pipeVars, cmdVars>>

\* The collection runs once RunE has called runProviders; the drain goroutine
\* takes every error and ends with the error channel.
CollectionEnds ==
  /\ main # "lookup" /\ mode # "hit"
  /\ CloseAssetChan \/ CloseErrChan
  /\ UNCHANGED <<pipeVars, cmdVars>>

DrainErr(r) ==
  /\ main # "lookup" /\ mode # "hit"
  /\ provErrs = reported /\ Report(r)
  /\ UNCHANGED <<pipeVars, cmdVars>>

\* The error it received is appended to the slice.
AppendErr ==
  /\ provErrs # reported /\ provErrs' = reported
  /\ UNCHANGED <<streamVars, pipeVars, errsDone, mode, main, snapshots, exit>>

DrainEnds ==
  /\ main # "lookup" /\ mode # "hit"
  /\ out = "closed" /\ provErrs = reported /\ ~errsDone
  /\ errsDone' = TRUE
  /\ UNCHANGED <<streamVars, pipeVars, provErrs, mode, main, snapshots, exit>>

Pipeline ==
  \/ \E a \in Assets : ReplayAsset(a) \/ \E i \in Stages : StageSend(i, a)
  \/ \E a \in Assets : StreamAsset(a)
  \/ ReplayEnds
  \/ \E i \in Stages : StageEnds(i)
  \/ \E how \in {"ok", "ctxErr"} : RenderReturns(how)

Main ==
  \/ CacheHit \/ StartCollect \/ RangeEnds \/ RenderBuffered \/ JoinErrs
  \/ CheckCacheable \/ WriteCache \/ ReturnUncached
  \/ \E a \in Assets : BufferAsset(a)

CmdNext ==
  \/ \E why \in {"deadline", "canceled"} : Interrupt(why)
  \/ CollectionEnds \/ AppendErr \/ DrainEnds \/ Pipeline \/ Main
  \/ \E r \in Reporters : DrainErr(r)
  \/ RenderReturns("failed")

CmdSafety == CmdInit /\ [][CmdNext]_allVars

\* The collection ends once its assets are read or its context has ended
\* (Collection's EveryAuditEnds); every goroutine of the command is scheduled;
\* nothing makes a write fail, a user press Ctrl-C or the timeout expire.
CmdFairness ==
  /\ WF_allVars(CollectionEnds) /\ WF_allVars(AppendErr \/ DrainEnds)
  /\ WF_allVars(Pipeline) /\ WF_allVars(Main)

CmdSpec == CmdSafety /\ CmdFairness

\* context.WithTimeout: the context of every audit does end.
TimedSpec == CmdSpec /\ WF_allVars(Interrupt("deadline"))

-----------------------------------------------------------------------------
(* Properties.                                                             *)

\* Nothing but a complete audit is ever in the cache: "never persist a
\* snapshot truncated by a provider failure or a ctx timeout/cancel".
AllInventory == UNION {Inventory[p] : p \in Providers}
CachedSnapshotIsComplete == \A s \in snapshots : AllInventory \subseteq s

\* What a run that was not interrupted prints when it exits 0: exactly what
\* the filter selects of the collected (or cached) assets, nothing lost
\* between the stages.
Selected(set) == IF \E i \in 1..Final : stages[i] = "filter" THEN set \cap Matching ELSE set
CleanRunPrintsAll ==
  exit = "ok" /\ ctx = "returned" =>
    /\ Selected(AllInventory) \subseteq rendered
    /\ rendered \subseteq Selected(Assets)
    /\ mode # "hit" => rendered = Selected(got)

\* "the rendered output is still valid for the providers that completed": a
\* run that exits 2 without being interrupted has printed exactly what the filter
\* selects of the assets it was handed, those of a failed provider included, and
\* it was handed every asset of the providers that reported no error.
PartialOutputIsValid ==
  exit = "partial" /\ ctx = "returned" =>
    /\ rendered = Selected(got)
    /\ \A p \in Providers : ~Failed(p) => Selected(Inventory[p]) \subseteq rendered

\* The command returns and leaves no goroutine behind, because its deferred
\* cancel releases whoever is still blocked on a reader that went away.
CommandReturnsQuietly ==
  <>(/\ exit # "none"
     /\ mode = "hit" \/ errsDone
     /\ replayer # "on"
     /\ \A i \in 1..Final : st[i] = "done")

\* "the renderer (consumer of assets) and providers (sender of errs) can never
\* deadlock each other": when a write fails, the command returns without the
\* help of the timeout.
RenderFailureReturns == rend = "failed" ~> exit # "none"

\* Exit code 0 as the documentation states it: every selected provider
\* returned results without error.
ExitZeroMeansComplete ==
  exit = "ok" /\ mode # "hit" => Selected(AllInventory) \subseteq rendered
=============================================================================
