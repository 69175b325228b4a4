------------------------- MODULE AuditCommand_proofs -------------------------
(***************************************************************************)
(* Proofs about AuditCommand, for every set of providers, every inventory  *)
(* and every list of pipelines: what the cache may hold, and what a run   *)
(* that was not interrupted has printed.                                   *)
(***************************************************************************)
EXTENDS AuditCommand, MergedStream_proofs

\* Where RunE is tells what it knows of the stream: past the join of the drain
\* goroutine the error channel is closed, and the write is reached only
\* without errors.  So nothing reported later can make the snapshot partial.
Sighted ==
  /\ errsDone => out = "closed" /\ provErrs = reported
  /\ main = "render" /\ mode \in {"buffer", "maxage"} => errsDone
  /\ main = "write" => errsDone /\ provErrs = {}

CacheInv == EndIsAccounted /\ Sighted /\ CachedSnapshotIsComplete

\* The command takes from the stream only what the stream offers.
LEMMA CmdStepIsStreamStep == [CmdNext]_allVars => [StreamNext]_streamVars
  <1>. SUFFICES ASSUME [CmdNext]_allVars PROVE [StreamNext]_streamVars
    OBVIOUS
  <1>1. ASSUME NEW why \in {"deadline", "canceled"}, Interrupt(why) PROVE StreamNext
    BY <1>1 DEF Interrupt, StreamNext, Endings
  <1>2. CASE CollectionEnds
    BY <1>2 DEF CollectionEnds, StreamNext
  <1>3. CASE AppendErr \/ DrainEnds
    BY <1>3 DEF AppendErr, DrainEnds
  <1>4. CASE Pipeline
    BY <1>4 DEF Pipeline, ReplayAsset, StageSend, StreamAsset, ReplayEnds, StageEnds,
                RenderReturns, StreamNext
  <1>5. CASE Main
    <2>1. ASSUME Return PROVE [StreamNext]_streamVars
      BY <2>1 DEF Return, StreamNext, Endings
    <2>. QED
      BY <1>5, <2>1 DEF Main, CacheHit, StartCollect, RangeEnds, RenderBuffered, JoinErrs,
                        CheckCacheable, WriteCache, ReturnUncached, BufferAsset, StreamNext
  <1>6. ASSUME NEW r \in Reporters, DrainErr(r) PROVE StreamNext
    BY <1>6 DEF DrainErr, StreamNext
  <1>7. CASE RenderReturns("failed")
    BY <1>7 DEF RenderReturns
  <1>8. CASE UNCHANGED allVars
    BY <1>8 DEF allVars
  <1>. QED
    BY <1>1, <1>2, <1>3, <1>4, <1>5, <1>6, <1>7, <1>8 DEF CmdNext

LEMMA SightedStep == Sighted /\ [CmdNext]_allVars => Sighted'
  <1>. SUFFICES ASSUME Sighted, [CmdNext]_allVars PROVE Sighted'
    OBVIOUS
  <1>1. out = "closed" => UNCHANGED <<out, reported>>
    BY CmdStepIsStreamStep
    DEF StreamNext, CtxEnds, HandOver, Report, CloseAssetChan, CloseErrChan, streamVars
  <1>2. CASE AppendErr \/ DrainEnds
    BY <1>1, <1>2 DEF AppendErr, DrainEnds, Sighted, streamVars
  <1>3. CASE Main
    BY <1>1, <1>3
    DEF Main, CacheHit, StartCollect, RangeEnds, RenderBuffered, JoinErrs, CheckCacheable,
        WriteCache, ReturnUncached, Return, BufferAsset, Sighted, Live, Cacheable, cmdVars,
        drainVars
  <1>4. CASE UNCHANGED <<drainVars, main, mode>>
    BY <1>1, <1>4 DEF Sighted, drainVars
  <1>. QED
    BY <1>2, <1>3, <1>4
    DEF CmdNext, Interrupt, CollectionEnds, DrainErr, Pipeline, ReplayAsset, StageSend,
        StreamAsset, ReplayEnds, StageEnds, RenderReturns, allVars, cmdVars

LEMMA CachedStep == CacheInv /\ [CmdNext]_allVars => CachedSnapshotIsComplete'
  <1>. SUFFICES ASSUME CacheInv, [CmdNext]_allVars PROVE CachedSnapshotIsComplete'
    OBVIOUS
  <1>1. CASE UNCHANGED snapshots
    BY <1>1 DEF CacheInv, CachedSnapshotIsComplete, AllInventory
  <1>2. CASE WriteCache /\ ctx = "live" /\ snapshots' = snapshots \cup {got}
    <2>1. \A p \in Providers : Inventory[p] \subseteq got
      BY <1>2 DEF WriteCache, CacheInv, Sighted, EndIsAccounted, Failed, Delivered
    <2>2. AllInventory \subseteq got
      BY <2>1 DEF AllInventory
    <2>. QED
      BY <1>2, <2>2 DEF CacheInv, CachedSnapshotIsComplete, AllInventory
  <1>. QED
    BY <1>1, <1>2
    DEF CmdNext, Interrupt, CollectionEnds, AppendErr, DrainEnds, DrainErr, Pipeline, ReplayAsset,
        StageSend, StreamAsset, ReplayEnds, StageEnds, RenderReturns, Main, CacheHit,
        StartCollect, RangeEnds, RenderBuffered, JoinErrs, CheckCacheable, WriteCache,
        ReturnUncached, BufferAsset, allVars, cmdVars

\* For any providers, inventories and pipelines: whenever the timeout or a
\* Ctrl-C comes, and whatever fails, the cache holds complete audits only.
THEOREM CacheIsComplete == CmdSafety => []CachedSnapshotIsComplete
  <1>1. CmdInit => CacheInv
    <2>. SUFFICES ASSUME CmdInit PROVE CacheInv
      OBVIOUS
    <2>1. EndIsAccounted
      BY AccountedInit DEF CmdInit
    <2>2. Sighted
      BY DEF CmdInit, Sighted
    <2>3. CachedSnapshotIsComplete
      BY InventoryAssumption DEF CmdInit, CachedSnapshotIsComplete, AllInventory
    <2>. QED
      BY <2>1, <2>2, <2>3 DEF CacheInv
  <1>2. CacheInv /\ [CmdNext]_allVars => CacheInv'
    BY CmdStepIsStreamStep, AccountedStep, SightedStep, CachedStep DEF CacheInv
  <1>3. CacheInv => CachedSnapshotIsComplete
    BY DEF CacheInv
  <1>. QED
    BY <1>1, <1>2, <1>3, PTL DEF CmdSafety

-----------------------------------------------------------------------------
(* Types.                                                                  *)

LEMMA PipelineIsList == \A s \in Pipelines : s \in Seq({"annotate", "filter"})
                                             /\ Len(s) \in 0..MaxStages
  <1>. SUFFICES ASSUME NEW s \in Pipelines
                PROVE  s \in Seq({"annotate", "filter"}) /\ Len(s) \in 0..MaxStages
    OBVIOUS
  <1>1. PICK m \in 0..MaxStages : s \in [1..m -> {"annotate", "filter"}]
    BY PipelineAssumption DEF SeqOf
  <1>. QED
    BY <1>1, PipelineAssumption

\* A rendezvous over channel i leaves the stages well typed.
LEMMA MoveTypes ==
  ASSUME CmdTypeOK, NEW i \in Nat, NEW a \in Assets, Move(i, a)
  PROVE  /\ rendered' \in SUBSET Assets
         /\ st' \in [Stages -> {"recv", "send", "done"}]
         /\ item' \in [Stages -> SUBSET Assets]
  BY DEF CmdTypeOK, Move

LEMMA CmdTypeStep == CmdTypeOK /\ [CmdNext]_allVars => CmdTypeOK'
  <1>. SUFFICES ASSUME CmdTypeOK, [CmdNext]_allVars PROVE CmdTypeOK'
    OBVIOUS
  <1>1. StreamTypeOK'
    BY CmdStepIsStreamStep, StreamTypeStep DEF CmdTypeOK
  <1>2. ASSUME UNCHANGED <<pipeVars, cmdVars>> PROVE CmdTypeOK'
    BY <1>1, <1>2 DEF CmdTypeOK, pipeVars, cmdVars, drainVars
  <1>3. CASE AppendErr \/ DrainEnds
    BY <1>1, <1>3 DEF AppendErr, DrainEnds, CmdTypeOK, StreamTypeOK, pipeVars
  <1>4. ASSUME NEW a \in Assets, StreamAsset(a) PROVE CmdTypeOK'
    BY <1>1, <1>4, MoveTypes DEF StreamAsset, CmdTypeOK, cmdVars, drainVars
  <1>5. ASSUME NEW a \in Assets, ReplayAsset(a) PROVE CmdTypeOK'
    <2>1. replay' \in SUBSET Assets
      BY <1>5 DEF ReplayAsset, CmdTypeOK
    <2>. QED
      BY <1>1, <1>5, <2>1, MoveTypes DEF ReplayAsset, CmdTypeOK, cmdVars, drainVars
  <1>6. ASSUME NEW a \in Assets, NEW i \in Stages, StageSend(i, a) PROVE CmdTypeOK'
    <2>1. i \in Nat
      BY PipelineAssumption DEF Stages
    <2>. QED
      BY <1>1, <1>6, <2>1, MoveTypes DEF StageSend, CmdTypeOK, cmdVars, drainVars
  <1>7. CASE ReplayEnds \/ \E i \in Stages : StageEnds(i)
    BY <1>1, <1>7 DEF ReplayEnds, StageEnds, CmdTypeOK, cmdVars, drainVars
  <1>8. ASSUME NEW how \in {"ok", "ctxErr", "failed"}, RenderReturns(how) PROVE CmdTypeOK'
    BY <1>1, <1>8 DEF RenderReturns, CmdTypeOK, cmdVars, drainVars
  <1>9. ASSUME NEW s \in SUBSET Assets, StartReplay(s)
        PROVE  replay' \in SUBSET Assets /\ replayer' \in {"off", "on", "closed"}
    BY <1>9 DEF StartReplay
  <1>10. CASE CacheHit \/ RenderBuffered
    BY <1>1, <1>9, <1>10
    DEF CacheHit, RenderBuffered, CmdTypeOK, StreamTypeOK, Snapshots, drainVars, streamVars
  <1>11. CASE StartCollect \/ RangeEnds \/ JoinErrs \/ CheckCacheable
    BY <1>1, <1>11
    DEF StartCollect, RangeEnds, JoinErrs, CheckCacheable, CmdTypeOK, pipeVars, drainVars
  <1>12. ASSUME NEW a \in Assets, BufferAsset(a) PROVE CmdTypeOK'
    BY <1>2, <1>12 DEF BufferAsset
  <1>13. CASE WriteCache \/ ReturnUncached
    <2>1. exit' \in {"ok", "hard", "partial"} /\ main' = "returned"
      BY <1>13 DEF WriteCache, ReturnUncached, Return, ExitCode
    <2>2. snapshots' \in SUBSET Snapshots
      BY <1>13 DEF WriteCache, ReturnUncached, CmdTypeOK, StreamTypeOK, Snapshots
    <2>3. UNCHANGED <<pipeVars, drainVars, mode>>
      BY <1>13 DEF WriteCache, ReturnUncached
    <2>. QED
      BY <1>1, <2>1, <2>2, <2>3 DEF CmdTypeOK, pipeVars, drainVars
  <1>. QED
    BY <1>2, <1>3, <1>4, <1>5, <1>6, <1>7, <1>8, <1>10, <1>11, <1>12, <1>13
    DEF CmdNext, Pipeline, Main, Interrupt, CollectionEnds, DrainErr, allVars

LEMMA CmdTypeInit == CmdInit => CmdTypeOK
  BY InventoryAssumption DEF CmdInit, StreamInit, CmdTypeOK, StreamTypeOK, Snapshots

\* Every variable of the command keeps its type.
THEOREM CmdTypeCorrect == CmdSafety => []CmdTypeOK
  BY CmdTypeInit, CmdTypeStep, PTL DEF CmdSafety

-----------------------------------------------------------------------------
(* Where RunE is, and what is settled there.                               *)

Replayed == {"buffer", "maxage"}

Place ==
  /\ main \in {"lookup", "collect", "join"} \/ mode = "stream" => replayer = "off"
  /\ replayer = "off" => replay = {}
  /\ main = "lookup" => /\ got = {} /\ rendered = {} /\ reported = {} /\ provErrs = {}
                        /\ mode # "hit" /\ rend = "recv"
  /\ main = "collect" => mode # "stream"
  /\ main \in {"collect", "join"} /\ mode \in Replayed => rend = "recv"
  /\ main = "join" /\ mode = "stream" => rend # "recv"
  /\ main = "write" => mode \in Replayed /\ rend = "ok"
  /\ mode \in Replayed /\ main \in {"join", "render", "write"} => out # "open"
  /\ mode = "hit" => /\ main \in {"render", "returned"}
                     /\ reported = {} /\ provErrs = {} /\ replayer # "off"
  /\ main = "returned" => /\ rend # "recv" /\ exit = ExitCode
                          /\ mode # "hit" => errsDone
  /\ exit # "none" => main = "returned"
  /\ ctx = "returned" => main = "returned"

LEMMA PlaceStep ==
  ASSUME CmdTypeOK, EndIsAccounted, Sighted, Place, [CmdNext]_allVars
  PROVE  Place'
  <1>. USE DEF Replayed
  <1>1. CASE \E why \in {"deadline", "canceled"} : Interrupt(why)
    BY <1>1
    DEF Interrupt, CtxEnds, Place, ExitCode, pipeVars, cmdVars, drainVars
  <1>2. CASE CollectionEnds
    BY <1>2
    DEF CollectionEnds, CloseAssetChan, CloseErrChan, Place, ExitCode, pipeVars, cmdVars, drainVars
  <1>3. CASE AppendErr \/ DrainEnds
    BY <1>3
    DEF AppendErr, DrainEnds, Sighted, Place, ExitCode, streamVars, pipeVars
  <1>4. ASSUME NEW r \in Reporters, DrainErr(r) PROVE Place'
    BY <1>4 DEF DrainErr, Report, Place, Sighted, ExitCode, pipeVars, cmdVars, drainVars
  <1>5. ASSUME NEW a \in Assets, StreamAsset(a) PROVE Place'
    BY <1>5 DEF StreamAsset, HandOver, Live, Move, ReaderReady, Place, ExitCode, cmdVars, drainVars
  <1>6. ASSUME NEW a \in Assets,
               ReplayAsset(a) \/ \E i \in Stages : StageSend(i, a)
        PROVE  Place'
    BY <1>6
    DEF ReplayAsset, StageSend, Move, ReaderReady, Reading, Live, Place, ExitCode,
        streamVars, cmdVars, drainVars
  <1>7. CASE ReplayEnds \/ (\E i \in Stages : StageEnds(i))
    BY <1>7 DEF ReplayEnds, StageEnds, Place, ExitCode, streamVars, cmdVars, drainVars
  <1>8. ASSUME NEW how \in {"ok", "ctxErr", "failed"}, RenderReturns(how) PROVE Place'
    BY <1>8 DEF RenderReturns, Reading, Live, Place, ExitCode, streamVars, cmdVars, drainVars
  <1>9. CASE CacheHit \/ StartCollect \/ RangeEnds \/ RenderBuffered \/ JoinErrs \/ CheckCacheable
    BY <1>9
    DEF CacheHit, StartCollect, RangeEnds, RenderBuffered, JoinErrs, CheckCacheable, Cacheable,
        StartReplay, Live, Place, Sighted, ExitCode, CmdTypeOK, streamVars, pipeVars, drainVars
  <1>10. ASSUME NEW a \in Assets, BufferAsset(a) PROVE Place'
    BY <1>10 DEF BufferAsset, HandOver, Place, ExitCode, pipeVars, cmdVars, drainVars
  <1>11. CASE WriteCache \/ ReturnUncached
    <2>1. /\ main' = "returned" /\ exit' = ExitCode
          /\ UNCHANGED <<pipeVars, drainVars, mode, got, reported, out>>
      BY <1>11 DEF WriteCache, ReturnUncached, Return, CtxEnds, streamVars
    <2>2. rend # "recv" /\ (mode # "hit" => errsDone) /\ (mode \in Replayed => out # "open")
      BY <1>11 DEF WriteCache, ReturnUncached, Place, Sighted
    <2>3. mode = "stream" \/ mode \in Replayed \/ mode = "hit"
      BY DEF CmdTypeOK
    <2>4. ExitCode' = ExitCode /\ ExitCode # "none"
      BY <2>1 DEF ExitCode, pipeVars, drainVars
    <2>. QED
      BY <2>1, <2>2, <2>3, <2>4 DEF Place, pipeVars, drainVars
  <1>12. CASE UNCHANGED allVars
    BY <1>12 DEF Place, ExitCode, allVars, streamVars, pipeVars, cmdVars, drainVars
  <1>. QED
    BY <1>1, <1>2, <1>3, <1>4, <1>5, <1>6, <1>7, <1>8, <1>9, <1>10, <1>11, <1>12
    DEF CmdNext, Pipeline, Main

-----------------------------------------------------------------------------
(* What flows through the pipeline.                                        *)

\* Which asset is where: a stage holds one at most, only what its filters let
\* through, and nothing that was not collected (or read from the cache).
Passes(i, a) == \A j \in 1..i : stages[j] = "filter" => a \in Matching
Hands(a) == \E i \in 1..Final : a \in item[i]

Flow ==
  /\ \A i \in Stages : st[i] # "send" => item[i] = {}
  /\ \A i \in Stages : \A a, b \in item[i] : a = b
  /\ \A i \in 1..Final : \A a \in item[i] : Passes(i, a)
  /\ rendered \subseteq Selected(Assets)
  /\ mode # "hit" => /\ replay \subseteq got /\ rendered \subseteq got
                     /\ \A i \in Stages : item[i] \subseteq got

\* What a run owes its user.
Source == IF mode = "hit" THEN AllInventory ELSE got

\* While the context lives nothing is dropped on the way, and a stage is done
\* only after everything before it.
NoLoss ==
  ctx = "live" =>
    /\ mode = "stream" \/ replayer # "off" =>
         \A a \in Selected(Source) : a \in rendered \/ a \in replay \/ Hands(a)
    /\ replayer = "closed" => replay = {}
    /\ \A i \in 1..Final : st[i] = "done" => SourceClosed /\ \A j \in 1..i : st[j] = "done"

\* So a renderer that returns well has written it all, and nothing is added to
\* what is owed after that.
Printed ==
  rend = "ok" /\ ctx \in {"live", "returned"} =>
    /\ Selected(Source) \subseteq rendered
    /\ mode = "stream" => out # "open"

Complete ==
  mode # "hit" /\ ctx \in {"live", "returned"} /\ out # "open" =>
    \A p \in Providers : Delivered(p) \/ Failed(p)

LEMMA FinalInStages ==
  ASSUME CmdTypeOK
  PROVE  /\ Final \in Nat /\ MaxStages \in Nat /\ Final <= MaxStages
         /\ 1..Final \subseteq Stages
  BY PipelineIsList, PipelineAssumption DEF CmdTypeOK, Final, Stages

\* One rendezvous: the asset gets one place further or is dropped by a filter,
\* and no other asset moves.
LEMMA MoveCarries ==
  ASSUME CmdTypeOK, Flow, UNCHANGED stages, NEW i \in 0..Final, NEW a \in Assets, Move(i, a),
         i > 0 => st[i] = "send" /\ a \in item[i]
  PROVE  /\ \A b \in rendered : b \in rendered'
         /\ \A b : b # a /\ Hands(b) => Hands(b)'
         /\ a \in Selected({a}) => a \in rendered' \/ Hands(a)'
         /\ rendered' \subseteq rendered \cup {a}
         /\ \A j \in Stages : item'[j] \subseteq item[j] \cup {a}
         /\ \A j \in Stages : st'[j] = "done" <=> st[j] = "done"
         /\ \A j \in Stages : st'[j] # "send" => item'[j] = {}
         /\ \A j \in Stages : \A b, c \in item'[j] : b = c
         /\ \A j \in 1..Final : \A b \in item'[j] : Passes(j, b)
         /\ rendered' \subseteq Selected(Assets)
  <1>1. /\ Final \in Nat /\ MaxStages \in Nat /\ Final <= MaxStages
        /\ 1..Final \subseteq Stages /\ Stages = 1..MaxStages
    BY FinalInStages DEF Stages
  <1>2. i \in Nat /\ i <= Final /\ Final' = Final
    BY <1>1 DEF Final
  <1>3. /\ rendered' = IF i = Final THEN rendered \cup {a} ELSE rendered
        /\ i < Final => st[i + 1] = "recv"
        /\ i > 0 => i \in Stages /\ item[i] = {a}
    BY <1>1, <1>2 DEF Move, ReaderReady, Flow
  <1>4. \A j \in Stages :
          item'[j] = IF j = i THEN {}
                     ELSE IF j = i + 1 /\ i < Final /\ Keeps(j, a) THEN {a} ELSE item[j]
    BY DEF Move
  <1>5. \A j \in Stages :
          st'[j] = IF j = i THEN "recv"
                   ELSE IF j = i + 1 /\ i < Final /\ Keeps(j, a) THEN "send" ELSE st[j]
    BY DEF Move
  <1>6. i < Final => i + 1 \in Stages /\ i + 1 \in 1..Final /\ item[i + 1] = {}
    BY <1>1, <1>2, <1>3 DEF Flow
  <1>7. Passes(i, a)
    BY <1>1, <1>2, <1>3 DEF Flow, Passes
  <1>8. ASSUME NEW b, b # a, Hands(b) PROVE Hands(b)'
    <2>1. PICK j \in 1..Final : b \in item[j]
      BY <1>8 DEF Hands
    <2>2. j # i /\ j \in Stages
      BY <1>1, <1>2, <1>3, <1>8, <2>1
    <2>3. i < Final => j # i + 1
      BY <1>6, <2>1
    <2>4. b \in item'[j]
      BY <1>4, <2>1, <2>2, <2>3
    <2>. QED
      BY <1>2, <2>1, <2>4 DEF Hands
  <1>9. ASSUME a \in Selected({a}) PROVE a \in rendered' \/ Hands(a)'
    <2>1. CASE i = Final
      BY <1>3, <2>1
    <2>2. CASE i < Final
      <3>1. Keeps(i + 1, a)
        BY <1>6, <1>9, <2>2 DEF Keeps, Selected
      <3>2. a \in item'[i + 1]
        BY <1>2, <1>4, <1>6, <2>2, <3>1
      <3>. QED
        BY <1>2, <1>6, <2>2, <3>2 DEF Hands
    <2>. QED
      BY <1>1, <1>2, <2>1, <2>2
  <1>10. ASSUME NEW j \in 1..Final, NEW b \in item'[j] PROVE Passes(j, b)
    <2>1. CASE b \in item[j]
      BY <2>1 DEF Flow
    <2>2. CASE b \notin item[j]
      <3>1. j = i + 1 /\ Keeps(j, a) /\ b = a
        BY <1>1, <1>4, <1>10, <2>2
      <3>2. \A k \in 1..j : k = j \/ k \in 1..i
        BY <1>2, <3>1
      <3>. QED
        BY <1>7, <3>1, <3>2 DEF Passes, Keeps
    <2>. QED
      BY <2>1, <2>2
  <1>11. rendered' \subseteq Selected(Assets)
    BY <1>3, <1>7 DEF Flow, Selected, Passes
  <1>12. \A j \in Stages : st'[j] = "done" <=> st[j] = "done"
    BY <1>1, <1>2, <1>3, <1>5, <1>6
  <1>13. \A j \in Stages : st'[j] # "send" => item'[j] = {}
    BY <1>4, <1>5 DEF Flow
  <1>14. \A j \in Stages : \A b, c \in item'[j] : b = c
    BY <1>4 DEF Flow
  <1>. QED
    BY <1>3, <1>4, <1>8, <1>9, <1>10, <1>11, <1>12, <1>13, <1>14

FlowInv == Flow /\ NoLoss /\ Printed

\* A rendezvous over channel i keeps all of it, if what it moves was owed.
LEMMA MoveKeepsFlow ==
  ASSUME CmdTypeOK, Place, FlowInv, UNCHANGED <<stages, mode, main, rend, ctx, out, replayer>>,
         NEW i \in 0..Final, NEW a \in Assets, Move(i, a),
         i > 0 => st[i] = "send" /\ a \in item[i],
         got \subseteq got', got' \subseteq got \cup {a},
         mode # "hit" => a \in got',
         replay \subseteq replay' \cup {a}, replay' \subseteq replay,
         mode = "stream" => out = "open" \/ got' = got,
         mode # "stream" => got' = got
  PROVE  FlowInv'
  <1>1. /\ Final \in Nat /\ 1..Final \subseteq Stages /\ Final' = Final
        /\ \A set : Selected(set)' = Selected(set)
    BY FinalInStages DEF Final, Selected
  <1>2. /\ \A b \in rendered : b \in rendered'
        /\ \A b : b # a /\ Hands(b) => Hands(b)'
        /\ a \in Selected({a}) => a \in rendered' \/ Hands(a)'
        /\ rendered' \subseteq rendered \cup {a}
        /\ \A j \in Stages : item'[j] \subseteq item[j] \cup {a}
        /\ \A j \in Stages : st'[j] = "done" <=> st[j] = "done"
        /\ \A j \in Stages : st'[j] # "send" => item'[j] = {}
        /\ \A j \in Stages : \A b, c \in item'[j] : b = c
        /\ \A j \in 1..Final : \A b \in item'[j] : Passes(j, b)
        /\ rendered' \subseteq Selected(Assets)
    BY MoveCarries DEF FlowInv
  <1>3. Flow'
    BY <1>1, <1>2 DEF FlowInv, Flow, Passes
  <1>4. SourceClosed' = SourceClosed
    BY DEF SourceClosed, Live
  <1>5. ASSUME ctx = "live", mode = "stream" \/ replayer # "off", NEW b \in Selected(Source')
        PROVE  b \in rendered' \/ b \in replay' \/ Hands(b)'
    <2>1. CASE b = a
      BY <1>2, <1>5, <2>1 DEF Selected
    <2>2. CASE b # a
      <3>1. b \in Selected(Source)
        BY <1>5, <2>2 DEF Source, Selected
      <3>. QED
        BY <1>2, <1>5, <2>2, <3>1 DEF FlowInv, NoLoss
    <2>. QED
      BY <2>1, <2>2
  <1>6. NoLoss'
    BY <1>1, <1>2, <1>4, <1>5 DEF FlowInv, NoLoss
  <1>7. Printed'
    <2>1. rend = "ok" /\ ctx \in {"live", "returned"} => Source' = Source
      BY DEF FlowInv, Printed, Source, AllInventory
    <2>. QED
      BY <1>1, <1>2, <2>1 DEF FlowInv, Printed
  <1>. QED
    BY <1>3, <1>6, <1>7 DEF FlowInv

\* When the renderer sees its input closed, nothing is left on the way.
LEMMA RenderedAll ==
  ASSUME CmdTypeOK, Place, Flow, NoLoss, Reading, rend = "recv", ctx \in {"live", "returned"},
         Closed(Final)
  PROVE  Selected(Source) \subseteq rendered /\ SourceClosed
  <1>1. ctx = "live"
    BY DEF Place
  <1>2. Final \in Nat /\ 1..Final \subseteq Stages
    BY FinalInStages
  <1>3. SourceClosed /\ \A j \in 1..Final : st[j] = "done"
    BY <1>1, <1>2 DEF Closed, NoLoss
  <1>4. \A b : ~Hands(b)
    BY <1>2, <1>3 DEF Hands, Flow
  <1>5. mode = "stream" \/ replayer # "off"
    BY DEF Reading, Live
  <1>6. replay = {}
    BY <1>1, <1>3 DEF SourceClosed, Live, NoLoss, Place
  <1>. QED
    BY <1>1, <1>3, <1>4, <1>5, <1>6 DEF NoLoss

LEMMA FlowStep ==
  ASSUME CmdTypeOK, EndIsAccounted, Sighted, CachedSnapshotIsComplete, Place, Place', FlowInv,
         [CmdNext]_allVars
  PROVE  FlowInv'
  <1>. USE DEF FlowInv
  <1>0. /\ \A set : stages' = stages => Selected(set)' = Selected(set)
        /\ stages' = stages => Final' = Final
    BY DEF Selected, Final
  <1>00. Final \in Nat /\ 1..Final \subseteq Stages /\ 0 \in 0..Final
    BY FinalInStages
  <1>1. ASSUME UNCHANGED <<pipeVars, mode, got, main>>,
               ctx' = ctx \/ (ctx = "live" /\ ctx' # "live"),
               out' = out \/ out' # "open"
        PROVE  FlowInv'
    <2>1. Flow' /\ (\A b : Hands(b)' = Hands(b)) /\ Source' = Source
      BY <1>0, <1>1 DEF Flow, Passes, Hands, Source, AllInventory, pipeVars
    <2>2. NoLoss'
      BY <1>0, <1>1, <2>1 DEF NoLoss, SourceClosed, Live, pipeVars
    <2>3. Printed'
      BY <1>0, <1>1, <2>1 DEF Printed, pipeVars
    <2>. QED
      BY <2>1, <2>2, <2>3
  <1>2. CASE \/ (\E why \in {"deadline", "canceled"} : Interrupt(why)) \/ CollectionEnds
             \/ AppendErr \/ DrainEnds \/ (\E r \in Reporters : DrainErr(r))
             \/ UNCHANGED allVars
    BY <1>1, <1>2
    DEF Interrupt, CtxEnds, CollectionEnds, CloseAssetChan, CloseErrChan, AppendErr, DrainEnds,
        DrainErr, Report, allVars, streamVars, cmdVars
  <1>3. ASSUME NEW a \in Assets, StreamAsset(a) PROVE FlowInv'
    <2>1. mode = "stream" /\ replay = {}
      BY <1>3 DEF StreamAsset, Live, Place
    <2>. QED
      BY <1>00, <1>3, <2>1, MoveKeepsFlow DEF StreamAsset, HandOver, cmdVars
  <1>4. ASSUME NEW a \in Assets, ReplayAsset(a) PROVE FlowInv'
    <2>1. mode # "hit" => a \in got
      BY <1>4 DEF ReplayAsset, Flow
    <2>. QED
      BY <1>00, <1>4, <2>1, MoveKeepsFlow DEF ReplayAsset, streamVars, cmdVars
  <1>5. ASSUME NEW a \in Assets, NEW i \in Stages, StageSend(i, a) PROVE FlowInv'
    <2>1. i \in 0..Final
      BY <1>00, <1>5 DEF StageSend, Stages
    <2>2. mode # "hit" => a \in got
      BY <1>5 DEF StageSend, Flow
    <2>. QED
      BY <1>5, <2>1, <2>2, MoveKeepsFlow DEF StageSend, streamVars, cmdVars
  <1>6. CASE ReplayEnds
    <2>1. /\ replayer = "on" /\ replayer' = "closed" /\ (replay = {} \/ ctx # "live")
          /\ UNCHANGED <<streamVars, stages, st, item, replay, rend, rendered, mode, main>>
      BY <1>6 DEF ReplayEnds, cmdVars
    <2>2. Flow' /\ (\A b : Hands(b)' = Hands(b)) /\ Source' = Source
      BY <1>0, <2>1 DEF Flow, Passes, Hands, Source, AllInventory, streamVars
    <2>3. NoLoss'
      BY <1>0, <2>1, <2>2 DEF NoLoss, SourceClosed, Live, Place, streamVars
    <2>4. Printed'
      BY <1>0, <2>1, <2>2 DEF Printed, streamVars
    <2>. QED
      BY <2>2, <2>3, <2>4
  <1>7. ASSUME NEW i \in Stages, StageEnds(i) PROVE FlowInv'
    <2>1. /\ i <= Final /\ (ctx # "live" \/ (st[i] = "recv" /\ Closed(i - 1)))
          /\ st' = [st EXCEPT ![i] = "done"] /\ item' = [item EXCEPT ![i] = {}]
          /\ UNCHANGED <<streamVars, stages, replay, replayer, rend, rendered, mode, main>>
      BY <1>7 DEF StageEnds, cmdVars
    <2>2. \A j \in Stages : /\ st'[j] = IF j = i THEN "done" ELSE st[j]
                            /\ item'[j] = IF j = i THEN {} ELSE item[j]
      BY <2>1 DEF CmdTypeOK
    <2>3. Source' = Source /\ SourceClosed' = SourceClosed
      BY <2>1 DEF Source, AllInventory, SourceClosed, Live, streamVars
    <2>4. Flow'
      BY <1>0, <1>00, <2>1, <2>2 DEF Flow, Passes, streamVars
    <2>5. ASSUME ctx = "live" PROVE NoLoss'
      <3>1. st[i] = "recv" /\ Closed(i - 1)
        BY <2>1, <2>5
      <3>2. item[i] = {}
        BY <3>1 DEF Flow
      <3>3. \A b : Hands(b)' <=> Hands(b)
        BY <1>0, <1>00, <2>1, <2>2, <3>2 DEF Hands
      <3>4. i \in 1..Final /\ (i = 1 \/ i - 1 \in 1..Final)
        BY <1>00, <2>1 DEF Stages
      <3>5. SourceClosed /\ \A j \in 1..i : j = i \/ st[j] = "done"
        <4>1. CASE i = 1
          BY <3>1, <4>1 DEF Closed
        <4>2. CASE i # 1
          <5>1. SourceClosed /\ \A j \in 1..(i - 1) : st[j] = "done"
            BY <2>5, <3>1, <3>4, <4>2 DEF Closed, NoLoss
          <5>. QED
            BY <1>00, <3>4, <5>1
        <4>. QED
          BY <4>1, <4>2
      <3>. QED
        BY <1>0, <1>00, <2>1, <2>2, <2>3, <3>3, <3>5, <2>5 DEF NoLoss, streamVars
    <2>6. NoLoss'
      BY <2>1, <2>5 DEF NoLoss, streamVars
    <2>7. Printed'
      BY <1>0, <2>1, <2>3 DEF Printed, streamVars
    <2>. QED
      BY <2>4, <2>6, <2>7
  <1>8. ASSUME NEW how \in {"ok", "ctxErr", "failed"}, RenderReturns(how) PROVE FlowInv'
    <2>1. /\ rend' = how /\ rend = "recv" /\ Reading /\ (how = "ok" => Closed(Final))
          /\ UNCHANGED <<streamVars, stages, st, item, replay, replayer, rendered, mode, main>>
      BY <1>8 DEF RenderReturns, cmdVars
    <2>2. Flow' /\ (\A b : Hands(b)' = Hands(b)) /\ Source' = Source
      BY <1>0, <2>1 DEF Flow, Passes, Hands, Source, AllInventory, streamVars
    <2>3. NoLoss'
      BY <1>0, <2>1, <2>2 DEF NoLoss, SourceClosed, Live, streamVars
    <2>4. ASSUME how = "ok", ctx \in {"live", "returned"}
          PROVE  Selected(Source) \subseteq rendered /\ (mode = "stream" => out # "open")
      <3>1. Selected(Source) \subseteq rendered /\ SourceClosed
        BY <2>1, <2>4, RenderedAll
      <3>2. mode = "stream" => main # "lookup"
        BY <2>1 DEF Reading, Live, Place
      <3>. QED
        BY <3>1, <3>2 DEF SourceClosed, Live
    <2>5. Printed'
      BY <1>0, <2>1, <2>2, <2>4 DEF Printed, streamVars
    <2>. QED
      BY <2>2, <2>3, <2>5
  <1>9. CASE CacheHit
    <2>1. PICK s \in snapshots : StartReplay(s)
      BY <1>9 DEF CacheHit
    <2>2. /\ replay' = s /\ replayer' = "on" /\ mode' = "hit" /\ main = "lookup"
          /\ UNCHANGED <<streamVars, stages, st, item, rend, rendered>>
      BY <1>9, <2>1 DEF CacheHit, StartReplay
    <2>3. rend = "recv" /\ replayer = "off" /\ ~SourceClosed
      BY <2>2 DEF Place, SourceClosed, Live
    <2>4. Flow'
      BY <1>0, <2>2 DEF Flow, Passes
    <2>5. Selected(Source') \subseteq replay'
      BY <2>1, <2>2 DEF Source, AllInventory, CachedSnapshotIsComplete, Selected
    <2>6. NoLoss'
      BY <1>0, <2>2, <2>3, <2>5 DEF NoLoss, streamVars
    <2>. QED
      BY <2>2, <2>3, <2>4, <2>6 DEF Printed
  <1>10. CASE StartCollect
    <2>1. /\ main = "lookup" /\ main' \in {"render", "collect"}
          /\ UNCHANGED <<streamVars, pipeVars, mode>>
      BY <1>10 DEF StartCollect
    <2>2. rend = "recv" /\ replayer = "off" /\ ~SourceClosed /\ got = {}
      BY <2>1 DEF Place, SourceClosed, Live
    <2>3. Flow' /\ (\A b : Hands(b)' = Hands(b)) /\ Source' = Source
      BY <1>0, <2>1 DEF Flow, Passes, Hands, Source, AllInventory, streamVars, pipeVars
    <2>4. NoLoss'
      BY <1>0, <2>1, <2>2, <2>3 DEF NoLoss, streamVars, pipeVars
    <2>. QED
      BY <2>1, <2>2, <2>3, <2>4 DEF Printed, pipeVars
  <1>11. ASSUME main # "lookup", main' # "lookup", UNCHANGED <<pipeVars, mode, got, out>>,
                ctx' = ctx \/ (ctx = "live" /\ ctx' = "returned")
         PROVE  FlowInv'
    <2>1. Flow' /\ (\A b : Hands(b)' = Hands(b)) /\ Source' = Source
      BY <1>0, <1>11 DEF Flow, Passes, Hands, Source, AllInventory, pipeVars
    <2>2. NoLoss'
      BY <1>0, <1>11, <2>1 DEF NoLoss, SourceClosed, Live, pipeVars
    <2>3. Printed'
      BY <1>0, <1>11, <2>1 DEF Printed, pipeVars
    <2>. QED
      BY <2>1, <2>2, <2>3
  <1>12. CASE RangeEnds \/ JoinErrs \/ CheckCacheable
    BY <1>11, <1>12 DEF RangeEnds, JoinErrs, CheckCacheable, streamVars
  <1>13. CASE WriteCache \/ ReturnUncached
    BY <1>11, <1>13 DEF WriteCache, ReturnUncached, Return, CtxEnds, streamVars
  <1>14. CASE RenderBuffered
    <2>1. /\ replay' = got /\ replayer' = "on" /\ main = "join" /\ main' = "render" /\ ~Live
          /\ UNCHANGED <<streamVars, stages, st, item, rend, rendered, mode>>
      BY <1>14 DEF RenderBuffered, StartReplay
    <2>2. mode # "stream" /\ mode # "hit" /\ rend = "recv" /\ replayer = "off"
      BY <2>1 DEF Live, Place, Replayed, CmdTypeOK
    <2>3. Flow'
      BY <1>0, <2>1 DEF Flow, Passes, streamVars
    <2>4. NoLoss'
      BY <1>0, <2>1, <2>2
      DEF NoLoss, Source, Selected, SourceClosed, Live, streamVars
    <2>. QED
      BY <2>1, <2>2, <2>3, <2>4 DEF Printed
  <1>15. ASSUME NEW a \in Assets, BufferAsset(a) PROVE FlowInv'
    <2>1. /\ main = "collect" /\ got' = got \cup {a}
          /\ UNCHANGED <<ctx, out, pipeVars, mode, main>>
      BY <1>15 DEF BufferAsset, HandOver, cmdVars
    <2>2. mode # "stream" /\ mode # "hit" /\ rend = "recv" /\ replayer = "off"
      BY <2>1 DEF Place, Replayed, CmdTypeOK
    <2>3. Flow'
      BY <1>0, <2>1, <2>2 DEF Flow, Passes, pipeVars
    <2>4. NoLoss'
      BY <1>0, <2>1, <2>2 DEF NoLoss, SourceClosed, Live, pipeVars
    <2>. QED
      BY <2>1, <2>2, <2>3, <2>4 DEF Printed, pipeVars
  <1>. QED
    BY <1>2, <1>3, <1>4, <1>5, <1>6, <1>7, <1>8, <1>9, <1>10, <1>12, <1>13, <1>14, <1>15
    DEF CmdNext, Pipeline, Main

LEMMA CompleteStep ==
  ASSUME EndIsAccounted, Sighted, Place, Place', Complete, [CmdNext]_allVars
  PROVE  Complete'
  <1>. SUFFICES ASSUME mode' # "hit", ctx' \in {"live", "returned"}, out' # "open",
                       NEW p \in Providers
                PROVE  (Delivered(p) \/ Failed(p))'
    BY DEF Complete
  <1>1. [StreamNext]_streamVars
    BY CmdStepIsStreamStep
  <1>2. EndIsAccounted'
    BY <1>1, AccountedStep
  <1>3. CASE ctx' = "live"
    BY <1>2, <1>3 DEF EndIsAccounted
  <1>4. CASE ctx' = "returned" /\ ctx = "returned"
    <2>1. mode # "hit" /\ out = "closed"
      <3>1. main = "returned"
        BY <1>4 DEF Place
      <3>2. UNCHANGED mode
        BY <3>1
        DEF CmdNext, Pipeline, Main, Interrupt, CollectionEnds, AppendErr, DrainEnds, DrainErr,
            StreamAsset, ReplayAsset, StageSend, ReplayEnds, StageEnds, RenderReturns, CacheHit,
            StartCollect, RangeEnds, RenderBuffered, JoinErrs, CheckCacheable, WriteCache,
            ReturnUncached, BufferAsset, allVars, cmdVars
      <3>. QED
        BY <3>1, <3>2 DEF Place, Sighted
    <2>2. UNCHANGED <<got, reported>>
      BY <1>1, <2>1
      DEF StreamNext, CtxEnds, HandOver, Report, CloseAssetChan, CloseErrChan, streamVars
    <2>3. Delivered(p) \/ Failed(p)
      BY <1>4, <2>1 DEF Complete
    <2>. QED
      BY <2>2, <2>3 DEF Delivered, Failed
  <1>5. CASE ctx' = "returned" /\ ctx # "returned"
    <2>1. ctx = "live" /\ UNCHANGED <<got, reported, out>>
      BY <1>1, <1>5
      DEF StreamNext, CtxEnds, Endings, HandOver, Report, CloseAssetChan, CloseErrChan, streamVars
    <2>2. Delivered(p) \/ Failed(p)
      BY <2>1 DEF EndIsAccounted
    <2>. QED
      BY <2>1, <2>2 DEF Delivered, Failed
  <1>. QED
    BY <1>3, <1>4, <1>5

CmdInv == /\ CmdTypeOK /\ EndIsAccounted /\ Sighted /\ CachedSnapshotIsComplete
          /\ Place /\ FlowInv /\ Complete

LEMMA CmdInvariant == CmdSafety => []CmdInv
  <1>1. CmdInit => CmdInv
    <2>. SUFFICES ASSUME CmdInit PROVE CmdInv
      OBVIOUS
    <2>1. CmdTypeOK /\ EndIsAccounted
      BY CmdTypeInit, AccountedInit DEF CmdInit
    <2>2. Sighted /\ Place
      BY DEF CmdInit, StreamInit, Sighted, Place, Replayed
    <2>3. CachedSnapshotIsComplete
      BY InventoryAssumption DEF CmdInit, CachedSnapshotIsComplete, AllInventory
    <2>4. Final \in Nat /\ 1..Final \subseteq Stages
      BY <2>1, FinalInStages
    <2>5. Flow /\ NoLoss
      BY <2>4 DEF CmdInit, StreamInit, Flow, NoLoss, Source, Selected
    <2>6. Printed /\ Complete
      BY DEF CmdInit, StreamInit, Printed, Complete
    <2>. QED
      BY <2>1, <2>2, <2>3, <2>5, <2>6 DEF CmdInv, FlowInv
  <1>2. CmdInv /\ [CmdNext]_allVars => CmdInv'
    <2>. SUFFICES ASSUME CmdInv, [CmdNext]_allVars PROVE CmdInv'
      OBVIOUS
    <2>1. CmdTypeOK' /\ EndIsAccounted' /\ Sighted'
      BY CmdTypeStep, CmdStepIsStreamStep, AccountedStep, SightedStep DEF CmdInv
    <2>2. CachedSnapshotIsComplete'
      BY CachedStep DEF CmdInv, CacheInv
    <2>3. Place'
      BY PlaceStep DEF CmdInv
    <2>4. FlowInv'
      BY <2>3, FlowStep DEF CmdInv
    <2>5. Complete'
      BY <2>3, CompleteStep DEF CmdInv
    <2>. QED
      BY <2>1, <2>2, <2>3, <2>4, <2>5 DEF CmdInv
  <1>. QED
    BY <1>1, <1>2, PTL DEF CmdSafety

\* An uninterrupted run that exits 0 has printed exactly what the filter selects
\* of what was collected, for any pipeline: no stage loses, adds or invents.
THEOREM CleanRunIsWhole == CmdSafety => []CleanRunPrintsAll
  <1>1. ASSUME CmdInv, exit = "ok", ctx = "returned"
        PROVE  /\ Selected(AllInventory) \subseteq rendered
               /\ rendered \subseteq Selected(Assets)
               /\ mode # "hit" => rendered = Selected(got)
    <2>1. main = "returned" /\ rend = "ok" /\ provErrs = {}
      BY <1>1 DEF CmdInv, Place, ExitCode
    <2>2. Selected(Source) \subseteq rendered
      BY <1>1, <2>1 DEF CmdInv, FlowInv, Printed
    <2>3. ASSUME mode # "hit" PROVE AllInventory \subseteq got
      <3>1. out = "closed" /\ reported = {}
        BY <1>1, <2>1, <2>3 DEF CmdInv, Place, Sighted
      <3>2. \A p \in Providers : Delivered(p)
        BY <1>1, <2>3, <3>1 DEF CmdInv, Complete, Failed
      <3>. QED
        BY <3>2 DEF Delivered, AllInventory
    <2>4. rendered \subseteq Selected(Assets) /\ (mode # "hit" => rendered \subseteq got)
      BY <1>1 DEF CmdInv, FlowInv, Flow
    <2>. QED
      BY <2>2, <2>3, <2>4 DEF Source, Selected
  <1>2. CmdInv => CleanRunPrintsAll
    BY <1>1 DEF CleanRunPrintsAll
  <1>. QED
    BY <1>2, CmdInvariant, PTL

\* An uninterrupted run that exits 2 has still printed the whole selected
\* inventory of every provider that reported no error, and in all exactly what
\* the filter selects of what was collected.
THEOREM PartialRunKeepsTheRest == CmdSafety => []PartialOutputIsValid
  <1>1. ASSUME CmdInv, exit = "partial", ctx = "returned"
        PROVE  PartialOutputIsValid
    <2>1. main = "returned" /\ rend = "ok" /\ provErrs # {}
      BY <1>1 DEF CmdInv, Place, ExitCode
    <2>2. mode # "hit"
      BY <1>1, <2>1 DEF CmdInv, Place
    <2>3. out = "closed"
      BY <1>1, <2>1, <2>2 DEF CmdInv, Place, Sighted
    <2>4. Selected(got) \subseteq rendered
      BY <1>1, <2>1, <2>2 DEF CmdInv, FlowInv, Printed, Source
    <2>5. rendered \subseteq Selected(Assets) /\ rendered \subseteq got
      BY <1>1, <2>2 DEF CmdInv, FlowInv, Flow
    <2>6. rendered = Selected(got)
      BY <2>4, <2>5 DEF Selected
    <2>7. ASSUME NEW p \in Providers, ~Failed(p)
          PROVE  Selected(Inventory[p]) \subseteq rendered
      <3>1. Inventory[p] \subseteq got
        BY <1>1, <2>2, <2>3, <2>7 DEF CmdInv, Complete, Delivered
      <3>. QED
        BY <2>4, <3>1 DEF Selected
    <2>. QED
      BY <2>6, <2>7 DEF PartialOutputIsValid
  <1>2. CmdInv => PartialOutputIsValid
    BY <1>1 DEF PartialOutputIsValid
  <1>. QED
    BY <1>2, CmdInvariant, PTL
==============================================================================
