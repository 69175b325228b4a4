------------------------------ MODULE SseAudit ------------------------------
(***************************************************************************)
(* GET /api/v1/audit: handleAuditSSE (src/internal/server/handlers.go) and *)
(* the event writer it shares between two goroutines                       *)
(* (src/internal/server/sse.go), reading what runProviders promises        *)
(* (MergedStream).  The asset loop and the error drain both emit; the      *)
(* browser may go away, the timeout may expire.                            *)
(*                                                                         *)
(* The wire holds what a browser that is still attached receives.  An      *)
(* event is written in two pieces, its name line and its data, under the   *)
(* writer's mutex.                                                         *)
(***************************************************************************)
EXTENDS MergedStream, Sequences, FiniteSets

CONSTANT InitErrs   \* how many providers failed before the audit started
ASSUME InitErrsAssumption == InitErrs \in Nat
ASSUME FiniteAssumption == IsFiniteSet(Assets) /\ IsFiniteSet(Reporters)

VARIABLES
  main,     \* where the handler is
  initSent, \* init_error events emitted
  drain,    \* the drain goroutine: "off", "recv", "emit", "ended"
  mutex,    \* sseWriter.mu: "free", or who holds it
  cur,      \* per goroutine, the event it is emitting, or "none"
  wire,     \* <<event, piece>> pairs the attached browser receives
  gone,     \* the browser has disconnected
  assetCount, errCount,
  done      \* the payload of the done event, once emitted

sseVars == <<main, initSent, drain, mutex, cur, wire, gone, assetCount, errCount, done>>
allVars == <<streamVars, sseVars>>

Writers == {"main", "drain"}
Events == {"meta", "init_error", "asset", "error", "done"}
NoDone == [count |-> 0, errors |-> 0]

SseTypeOK ==
  /\ StreamTypeOK
  /\ main \in {"meta", "init", "loop", "emit", "join", "done", "returned"}
  /\ initSent \in 0..InitErrs
  /\ drain \in {"off", "recv", "emit", "ended"}
  /\ mutex \in Writers \cup {"free"}
  /\ cur \in [Writers -> Events \cup {"none"}]
  /\ wire \in Seq(Events \X {"name", "data"})
  /\ gone \in BOOLEAN
  /\ assetCount \in 0..Cardinality(Assets)
  /\ errCount \in 0..Cardinality(Reporters)
  /\ done \in [count : Nat, errors : Nat]

SseInit ==
  /\ StreamInit
  /\ main = "meta" /\ initSent = 0 /\ drain = "off"
  /\ mutex = "free"
  /\ cur = [w \in Writers |-> "none"]
  /\ wire = <<>> /\ gone = FALSE
  /\ assetCount = 0 /\ errCount = 0 /\ done = NoDone

-----------------------------------------------------------------------------
(* emit.                                                                   *)

\* A piece reaches the browser only while it is attached.
Write(event, piece) ==
  wire' = IF gone THEN wire ELSE Append(wire, <<event, piece>>)

\* Mutant of Lock: emit without the mutex.
NoLock(w, event) ==
  /\ cur[w] = "none"
  /\ mutex' = w
  /\ cur' = [cur EXCEPT ![w] = event]
  /\ Write(event, "name")

\* emit takes the mutex and writes the event's name line.
Lock(w, event) ==
  /\ cur[w] = "none" /\ mutex = "free"
  /\ mutex' = w
  /\ cur' = [cur EXCEPT ![w] = event]
  /\ Write(event, "name")

\* Mutant of Unlock: a write error leaves the mutex locked.
UnlockUnlessGone(w) ==
  /\ Write(cur[w], "data")
  /\ mutex' = IF gone THEN mutex ELSE "free"
  /\ cur' = [cur EXCEPT ![w] = "none"]

\* The data line and the flush; the deferred unlock runs.
Unlock(w) ==
  /\ Write(cur[w], "data")
  /\ mutex' = "free"
  /\ cur' = [cur EXCEPT ![w] = "none"]

emitVars == <<mutex, cur, wire>>

-----------------------------------------------------------------------------
(* The handler.                                                            *)

EmitMeta ==
  /\ main = "meta" /\ Lock("main", "meta")
  /\ UNCHANGED <<streamVars, main, initSent, drain, gone, assetCount, errCount, done>>

\* Mutant of EmitInitErr: one message too many.
EmitInitErrPastEnd ==
  /\ main = "init" /\ initSent <= InitErrs /\ Lock("main", "init_error")
  /\ UNCHANGED <<streamVars, main, initSent, drain, gone, assetCount, errCount, done>>

\* Then runProviders is called and its init errors are emitted in turn.
EmitInitErr ==
  /\ main = "init" /\ initSent < InitErrs /\ Lock("main", "init_error")
  /\ UNCHANGED <<streamVars, main, initSent, drain, gone, assetCount, errCount, done>>

\* The drain goroutine is started, then the asset loop.
StartReading ==
  /\ main = "init" /\ initSent = InitErrs
  /\ main' = "loop" /\ drain' = "recv"
  /\ UNCHANGED <<streamVars, initSent, emitVars, gone, assetCount, errCount, done>>

RecvAsset(a) ==
  /\ main = "loop" /\ HandOver(a)
  /\ main' = "emit"
  /\ UNCHANGED <<initSent, drain, emitVars, gone, assetCount, errCount, done>>

EmitAsset ==
  /\ main = "emit" /\ Lock("main", "asset")
  /\ UNCHANGED <<streamVars, main, initSent, drain, gone, assetCount, errCount, done>>

LoopEnds ==
  /\ main = "loop" /\ out # "open"
  /\ main' = "join"
  /\ UNCHANGED <<streamVars, initSent, drain, emitVars, gone, assetCount, errCount, done>>

\* Mutant of Join: done is emitted without waiting for the drain goroutine.
JoinNothing ==
  /\ main = "join"
  /\ main' = "done"
  /\ UNCHANGED <<streamVars, initSent, drain, emitVars, gone, assetCount, errCount, done>>

\* <-errsDone.
Join ==
  /\ main = "join" /\ drain = "ended"
  /\ main' = "done"
  /\ UNCHANGED <<streamVars, initSent, drain, emitVars, gone, assetCount, errCount, done>>

\* Mutant of EmitDone: the init errors are not counted.
EmitDoneWithoutInit ==
  /\ main = "done" /\ Lock("main", "done")
  /\ done' = [count |-> assetCount, errors |-> errCount]
  /\ UNCHANGED <<streamVars, main, initSent, drain, gone, assetCount, errCount>>

EmitDone ==
  /\ main = "done" /\ Lock("main", "done")
  /\ done' = [count |-> assetCount, errors |-> errCount + InitErrs]
  /\ UNCHANGED <<streamVars, main, initSent, drain, gone, assetCount, errCount>>

\* What the handler does when an asset's emit returns: count it, or cancel
\* the audit and leave the loop.
AssetEmitted(ok) ==
  /\ main = "emit"
  /\ IF ok
     THEN /\ assetCount' = assetCount + 1
          /\ main' = "loop" /\ UNCHANGED streamVars
     ELSE /\ main' = "join"
          /\ IF ctx = "live" THEN CtxEnds("canceled") ELSE UNCHANGED streamVars
          /\ UNCHANGED assetCount
  /\ UNCHANGED initSent

\* The errors of the other emits are ignored.
OtherEmitted ==
  /\ main # "emit" /\ UNCHANGED <<streamVars, assetCount>>
  /\ main' = CASE main = "meta" -> "init"
               [] main = "init" -> "init"
               [] main = "done" -> "returned"
  /\ initSent' = IF main = "init" THEN initSent + 1 ELSE initSent

\* A write to a browser that has gone away may still succeed.  One that fails is
\* taken to mean that the browser has gone, which is how the handler takes it.
\* That the assets may pass the price estimates' stage first is left out
\* (server/audit.go:81): it forwards like the stages of AuditCommand.
MainEmitted(ok) ==
  /\ cur["main"] # "none" /\ (~ok => gone)
  /\ Unlock("main")
  /\ AssetEmitted(ok) \/ (ok /\ OtherEmitted)
  /\ UNCHANGED <<drain, gone, errCount, done>>

\* The deferred cancel, after done was emitted.
DeferredCancel ==
  /\ main = "returned" /\ ctx = "live"
  /\ CtxEnds("returned")
  /\ UNCHANGED sseVars

-----------------------------------------------------------------------------
(* The drain goroutine, the audit and the browser.                         *)

DrainRecv(r) ==
  /\ drain = "recv" /\ Report(r)
  /\ drain' = "emit" /\ errCount' = errCount + 1
  /\ UNCHANGED <<main, initSent, emitVars, gone, assetCount, done>>

DrainEmit ==
  /\ drain = "emit" /\ Lock("drain", "error")
  /\ UNCHANGED <<streamVars, main, initSent, drain, gone, assetCount, errCount, done>>

DrainEmitted ==
  /\ cur["drain"] # "none"
  /\ Unlock("drain")
  /\ drain' = "recv"
  /\ UNCHANGED <<streamVars, main, initSent, gone, assetCount, errCount, done>>

DrainEnds ==
  /\ drain = "recv" /\ out = "closed"
  /\ drain' = "ended"
  /\ UNCHANGED <<streamVars, main, initSent, emitVars, gone, assetCount, errCount, done>>

StreamCloses ==
  /\ main # "meta"
  /\ CloseAssetChan \/ CloseErrChan
  /\ UNCHANGED sseVars

Timeout ==
  /\ main \notin {"meta", "returned"}
  /\ CtxEnds("deadline")
  /\ UNCHANGED sseVars

\* net/http cancels the request's context when the connection closes.
Disconnect ==
  /\ ~gone /\ gone' = TRUE
  /\ IF ctx = "live" THEN CtxEnds("canceled") ELSE UNCHANGED streamVars
  /\ UNCHANGED <<main, initSent, drain, emitVars, assetCount, errCount, done>>

Handler ==
  \/ EmitMeta \/ EmitInitErr \/ StartReading
  \/ \E a \in Assets : RecvAsset(a)
  \/ EmitAsset \/ LoopEnds \/ Join \/ EmitDone \/ DeferredCancel
  \/ \E ok \in BOOLEAN : MainEmitted(ok)
Drain == DrainEmit \/ DrainEmitted \/ DrainEnds

SseNext ==
  \/ Handler \/ Drain \/ StreamCloses \/ Timeout \/ Disconnect
  \/ \E r \in Reporters : DrainRecv(r)

\* Both goroutines are scheduled and the collection ends once it is read
\* (Collection's EveryAuditEnds).  No provider need ever fail.
SseSpec ==
  /\ SseInit /\ [][SseNext]_allVars
  /\ WF_allVars(Handler) /\ WF_allVars(Drain) /\ WF_allVars(StreamCloses)

-----------------------------------------------------------------------------
(* Properties.                                                             *)

Frames == Len(wire) \div 2
Frame(i) == wire[2 * i - 1][1]
CountOf(event) == Cardinality({i \in 1..Frames : Frame(i) = event})

\* "Unsynchronized calls would interleave bytes into corrupt frames": every
\* name line on the wire is followed by its own data.
FramesAreWhole ==
  \A i \in 1..Frames :
    /\ wire[2 * i - 1] = <<Frame(i), "name">>
    /\ wire[2 * i] = <<Frame(i), "data">>

\* The contract handleAuditSSE documents: meta exactly once and first,
\* init_error before any asset, done exactly once and last.
StreamContract ==
  \A i, j \in 1..Frames : i < j =>
    /\ i > 1 <=> Frame(i) # "meta"
    /\ Frame(j) = "init_error" => Frame(i) \in {"meta", "init_error"}
    /\ Frame(i) # "done" /\ Frame(j) # "meta"

\* done tells an attached browser exactly what it was sent, and everything
\* the audit handed over was sent.
DoneCountsMatch ==
  main = "returned" /\ ~gone =>
    /\ done.count = CountOf("asset") /\ done.count = Cardinality(got)
    /\ done.errors = CountOf("error") + CountOf("init_error")
    /\ CountOf("error") = Cardinality(reported)

\* The handler returns and its drain goroutine ends, also when the browser
\* goes away in the middle (auditor_server_sse_clients goes back down).
HandlerReturns == <>(main = "returned" /\ drain = "ended")
=============================================================================
