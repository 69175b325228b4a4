---------------------------- MODULE Callers_proofs ---------------------------
(***************************************************************************)
(* Proofs about two kinds of callers of runProviders, from what its stream *)
(* promises: BufferedAudit (what the answers of the collecting commands    *)
(* and handlers are worth, for every set of providers and every inventory) *)
(* and SseAudit (what the browser receives is framed, ordered and counted, *)
(* and nobody is left holding the writer's mutex, for every number of      *)
(* assets, errors and init errors).                                        *)
(***************************************************************************)
EXTENDS BufferedAudit, SseAudit, MergedStream_proofs, FiniteSetTheorems

-----------------------------------------------------------------------------
(* The callers that collect everything before they answer.                 *)

\* The slice is what the stream handed over; past the join both channels are
\* closed; and only the caller's own return ends the context as "returned",
\* so an answer carrying that context was decided while it was live.
Honest ==
  /\ collected = got
  /\ phase # "collect" => out # "open"
  /\ errsDone => out = "closed" /\ provErrs = reported
  /\ phase \in {"decide", "returned"} => errsDone
  /\ phase # "returned" => answer = "none" /\ ctx # "returned"
  /\ phase = "returned" => answer = Verdict
  /\ ctx = "returned" => \A p \in Providers : Delivered(p) \/ Failed(p)

BufInv == EndIsAccounted /\ Honest

\* The caller takes from the stream only what the stream offers.
LEMMA BufStepIsStreamStep == [BufNext]_vars => [StreamNext]_streamVars
  BY DEF BufNext, Collect, RangeEnds, AwaitErrs, Decide, CollectionEnds, DrainErr, AppendErr,
         ErrsEnd, Interrupt, StreamNext, Endings, vars

\* No step of gatherForGraph, liveSnapshot or a handler makes its answer dishonest.
LEMMA HonestStep == BufInv /\ [BufNext]_vars => Honest'
  <1>. SUFFICES ASSUME BufInv, [BufNext]_vars PROVE Honest'
    OBVIOUS
  <1>. USE DEF BufInv, Honest, Verdict
  <1>0. ASSUME UNCHANGED <<got, reported>>,
               ctx' = "returned" => \A p \in Providers : Delivered(p) \/ Failed(p)
        PROVE  ctx' = "returned" => \A p \in Providers : (Delivered(p) \/ Failed(p))'
    BY <1>0 DEF Delivered, Failed
  <1>1. ASSUME NEW a \in Assets, Collect(a) PROVE Honest'
    BY <1>1 DEF Collect, HandOver, drainVars
  <1>2. ASSUME NEW r \in Reporters, DrainErr(r) PROVE Honest'
    BY <1>2 DEF DrainErr, Report, bufVars, drainVars, Failed, Delivered
  <1>3. ASSUME NEW why \in {"deadline", "canceled"}, Interrupt(why) PROVE Honest'
    BY <1>3 DEF Interrupt, CtxEnds, bufVars, drainVars
  <1>4. CASE RangeEnds \/ AwaitErrs \/ AppendErr \/ ErrsEnd
    BY <1>0, <1>4 DEF RangeEnds, AwaitErrs, AppendErr, ErrsEnd, drainVars, streamVars
  <1>5. CASE CollectionEnds
    BY <1>0, <1>5 DEF CollectionEnds, CloseAssetChan, CloseErrChan, bufVars, drainVars
  <1>6. CASE Decide
    <2>1. UNCHANGED <<got, reported, out, caller, drainVars, collected>>
      BY <1>6 DEF Decide, CtxEnds, streamVars
    <2>2. ctx' = "returned" => \A p \in Providers : Delivered(p) \/ Failed(p)
      BY <1>6 DEF Decide, CtxEnds, streamVars, EndIsAccounted
    <2>. QED
      BY <1>0, <1>6, <2>1, <2>2 DEF Decide, drainVars
  <1>7. CASE UNCHANGED vars
    BY <1>0, <1>7 DEF vars, streamVars, bufVars, drainVars
  <1>. QED
    BY <1>1, <1>2, <1>3, <1>4, <1>5, <1>6, <1>7 DEF BufNext

\* The caller's invariant holds along every behaviour.
LEMMA BufInvariant == BufSpec => []BufInv
  <1>1. BufInit => BufInv
    BY AccountedInit DEF BufInit, BufInv, Honest, StreamInit
  <1>2. BufInv /\ [BufNext]_vars => BufInv'
    BY BufStepIsStreamStep, AccountedStep, HonestStep DEF BufInv
  <1>. QED
    BY <1>1, <1>2, PTL DEF BufSpec

\* Every variable keeps its type, and there is an answer exactly when the
\* command or handler has returned.
THEOREM BufTypeCorrect == BufSpec => []BufTypeOK
  <1>1. BufInit => BufTypeOK
    BY DEF BufInit, StreamInit, BufTypeOK, StreamTypeOK
  <1>2. BufTypeOK /\ [BufNext]_vars => BufTypeOK'
    <2>. SUFFICES ASSUME BufTypeOK, [BufNext]_vars PROVE BufTypeOK'
      OBVIOUS
    <2>. USE DEF BufTypeOK, StreamTypeOK
    <2>1. ASSUME NEW a \in Assets, Collect(a) PROVE BufTypeOK'
      BY <2>1 DEF Collect, HandOver, drainVars
    <2>2. CASE RangeEnds \/ AwaitErrs \/ AppendErr \/ ErrsEnd
      BY <2>2 DEF RangeEnds, AwaitErrs, AppendErr, ErrsEnd, drainVars, streamVars
    <2>3. CASE Decide
      BY <2>3 DEF Decide, Verdict, CtxEnds, drainVars, streamVars
    <2>4. CASE CollectionEnds
      BY <2>4 DEF CollectionEnds, CloseAssetChan, CloseErrChan, bufVars, drainVars
    <2>5. ASSUME NEW r \in Reporters, DrainErr(r) PROVE BufTypeOK'
      BY <2>5 DEF DrainErr, Report, bufVars, drainVars
    <2>6. ASSUME NEW why \in {"deadline", "canceled"}, Interrupt(why) PROVE BufTypeOK'
      BY <2>6 DEF Interrupt, CtxEnds, bufVars, drainVars
    <2>7. CASE UNCHANGED vars
      BY <2>7 DEF vars, bufVars, drainVars, streamVars
    <2>. QED
      BY <2>1, <2>2, <2>3, <2>4, <2>5, <2>6, <2>7 DEF BufNext
  <1>. QED
    BY <1>1, <1>2, PTL DEF BufSpec

\* For any providers and inventories: what a run that was not interrupted
\* calls complete is complete, and what it calls partial lacks nothing but
\* what the failed providers own.
THEOREM AnswersAreHonest == BufSpec => []UninterruptedAnswerIsHonest
  <1>1. BufInv => UninterruptedAnswerIsHonest
    BY DEF BufInv, Honest, Verdict, UninterruptedAnswerIsHonest, Complete, Delivered, Failed
  <1>. QED
    BY <1>1, BufInvariant, PTL

\* For any providers and inventories: whenever the context ends, no reported
\* error is behind a live snapshot that a diff accepted.
THEOREM NoErrorHidden == BufSpec => []LiveNeverHidesAnError
  <1>1. BufInv => LiveNeverHidesAnError
    BY DEF BufInv, Honest, Verdict, LiveNeverHidesAnError
  <1>. QED
    BY <1>1, BufInvariant, PTL

-----------------------------------------------------------------------------
(* The audit event stream.                                                 *)

Pieces == Events \X {"name", "data"}

\* Who may be emitting what, and where.
Control ==
  /\ main \in {"meta", "init", "loop", "emit", "join", "done", "returned"}
  /\ initSent \in 0..InitErrs
  /\ drain \in {"off", "recv", "emit", "ended"}
  /\ mutex \in Writers \cup {"free"}
  /\ cur \in [Writers -> Events \cup {"none"}]
  /\ wire \in Seq(Pieces)
  /\ gone \in BOOLEAN
  /\ assetCount \in Nat /\ errCount \in Nat
  /\ done \in [count : Nat, errors : Nat]

\* The mutex is held exactly while its holder has written half an event.
Holding ==
  /\ \A w \in Writers : mutex = w <=> cur[w] # "none"
  /\ cur["main"] \in CASE main = "meta" -> {"none", "meta"}
                       [] main = "init" -> {"none", "init_error"}
                       [] main = "emit" -> {"none", "asset"}
                       [] main = "done" -> {"none", "done"}
                       [] OTHER -> {"none"}
  /\ cur["drain"] \in IF drain = "emit" THEN {"none", "error"} ELSE {"none"}
  /\ main \in {"meta", "init"} => drain = "off"
  /\ main \in {"done", "returned"} => drain = "ended"
  /\ cur["main"] = "init_error" => initSent < InitErrs

\* The wire of an attached browser is whole frames, and the name line of the
\* event whose writer holds the mutex.
Framed ==
  /\ FramesAreWhole
  /\ ~gone /\ mutex = "free" => Len(wire) = 2 * Frames
  /\ ~gone /\ mutex # "free" => /\ Len(wire) = 2 * Frames + 1
                                /\ wire[Len(wire)] = <<cur[mutex], "name">>

WriterInv == Control /\ Holding /\ Framed

\* Two pieces on the wire make one frame.
LEMMA Halves == \A n \in Nat : /\ n \div 2 \in Nat
                               /\ (2 * n) \div 2 = n
                               /\ (2 * n + 1) \div 2 = n
                               /\ 2 * (n \div 2) <= n
  OBVIOUS

\* Both pieces of a frame lie on the wire.
LEMMA FrameOnWire ==
  ASSUME Control
  PROVE  /\ Len(wire) \in Nat /\ Frames \in Nat
         /\ \A i \in 1..Frames : 2 * i - 1 \in 1..Len(wire) /\ 2 * i \in 1..Len(wire)
  <1>1. Len(wire) \in Nat
    BY DEF Control
  <1>. QED
    BY <1>1, Halves DEF Frames

\* A name line adds no frame.
LEMMA LockAddsNone ==
  ASSUME WriterInv, NEW w \in Writers, NEW e \in Events, Lock(w, e), gone' = gone
  PROVE  /\ Framed'
         /\ Frames' = Frames
         /\ \A i \in 1..Frames : Frame(i)' = Frame(i)
  <1>. USE DEF WriterInv, Control
  <1>1. CASE gone
    <2>1. wire' = wire
      BY <1>1 DEF Lock, Write
    <2>. QED
      BY <1>1, <2>1 DEF Framed, FramesAreWhole, Frames, Frame
  <1>2. CASE ~gone
    <2>1. wire' = Append(wire, <<e, "name">>) /\ mutex = "free" /\ mutex' = w /\ cur'[w] = e
      BY <1>2 DEF Lock, Write
    <2>2. Len(wire) = 2 * Frames /\ Len(wire) \in Nat /\ Frames \in Nat
      BY <1>2, <2>1, FrameOnWire DEF Framed
    <2>3. Len(wire') = 2 * Frames + 1 /\ wire'[Len(wire')] = <<e, "name">>
      BY <2>1, <2>2
    <2>4. Frames' = Frames
      BY <2>2, <2>3, Halves DEF Frames
    <2>5. \A i \in 1..Len(wire) : wire'[i] = wire[i]
      BY <2>1, <2>2
    <2>6. \A i \in 1..Frames : wire'[2 * i - 1] = wire[2 * i - 1] /\ wire'[2 * i] = wire[2 * i]
      BY <2>5, FrameOnWire
    <2>7. FramesAreWhole'
      BY <2>4, <2>6 DEF Framed, FramesAreWhole, Frame
    <2>. QED
      BY <1>2, <2>1, <2>3, <2>4, <2>6, <2>7 DEF Framed, Frame, Writers
  <1>. QED
    BY <1>1, <1>2

\* The data line completes one.
LEMMA UnlockAddsOne ==
  ASSUME WriterInv, NEW w \in Writers, cur[w] # "none", Unlock(w), gone' = gone
  PROVE  /\ Framed'
         /\ Frames' = IF gone THEN Frames ELSE Frames + 1
         /\ ~gone => Frame(Frames)' = cur[w]
         /\ \A i \in 1..Frames : Frame(i)' = Frame(i)
  <1>. USE DEF WriterInv, Control
  <1>1. CASE gone
    <2>1. wire' = wire
      BY <1>1 DEF Unlock, Write
    <2>. QED
      BY <1>1, <2>1 DEF Framed, FramesAreWhole, Frames, Frame
  <1>2. CASE ~gone
    <2>1. wire' = Append(wire, <<cur[w], "data">>) /\ mutex = w /\ mutex' = "free"
      BY <1>2 DEF Unlock, Write, Holding
    <2>2. /\ Len(wire) = 2 * Frames + 1 /\ Len(wire) \in Nat /\ Frames \in Nat
          /\ wire[Len(wire)] = <<cur[w], "name">>
      BY <1>2, <2>1, FrameOnWire DEF Framed, Writers
    <2>3. Len(wire') = 2 * (Frames + 1) /\ wire'[Len(wire')] = <<cur[w], "data">>
      BY <2>1, <2>2
    <2>4. Frames' = Frames + 1
      BY <2>2, <2>3, Halves DEF Frames
    <2>5. \A i \in 1..Len(wire) : wire'[i] = wire[i]
      BY <2>1, <2>2
    <2>6. \A i \in 1..Frames : wire'[2 * i - 1] = wire[2 * i - 1] /\ wire'[2 * i] = wire[2 * i]
      BY <2>5, FrameOnWire
    <2>7. wire'[2 * (Frames + 1) - 1] = <<cur[w], "name">> /\ wire'[2 * (Frames + 1)] = <<cur[w], "data">>
      BY <2>2, <2>3, <2>5
    <2>8. FramesAreWhole'
      <3>. SUFFICES ASSUME NEW i \in 1..(Frames + 1)
                    PROVE  /\ wire'[2 * i - 1] = <<wire'[2 * i - 1][1], "name">>
                           /\ wire'[2 * i] = <<wire'[2 * i - 1][1], "data">>
        BY <2>4 DEF FramesAreWhole, Frame
      <3>1. CASE i \in 1..Frames
        BY <2>6, <3>1 DEF Framed, FramesAreWhole, Frame
      <3>2. CASE i = Frames + 1
        BY <2>7, <3>2
      <3>. QED
        BY <2>2, <3>1, <3>2
    <2>9. Framed'
      BY <2>1, <2>3, <2>4, <2>8 DEF Framed
    <2>10. Frame(Frames)' = cur[w]
      BY <2>4, <2>7 DEF Frame
    <2>. QED
      BY <1>2, <2>4, <2>6, <2>9, <2>10 DEF Frame
  <1>. QED
    BY <1>1, <1>2

\* The steps that write nothing.
Silent ==
  \/ StartReading \/ LoopEnds \/ Join \/ DeferredCancel \/ DrainEnds
  \/ StreamCloses \/ Timeout
  \/ \E a \in Assets : RecvAsset(a)
  \/ \E r \in Reporters : DrainRecv(r)

\* The steps of handleAuditSSE by what they do to the wire.
LEMMA SseCases ==
  ASSUME [SseNext]_allVars
  PROVE  \/ EmitMeta \/ EmitInitErr \/ EmitAsset \/ EmitDone \/ DrainEmit
         \/ (\E ok \in BOOLEAN : MainEmitted(ok)) \/ DrainEmitted
         \/ Silent \/ Disconnect \/ UNCHANGED allVars
  BY DEF SseNext, Handler, Drain, Silent

\* What the handler does to the audit's stream is a step of the stream.
LEMMA SseStepIsStreamStep == [SseNext]_allVars => [StreamNext]_streamVars
  <1>. SUFFICES ASSUME [SseNext]_allVars PROVE [StreamNext]_streamVars
    OBVIOUS
  <1>1. CASE EmitMeta \/ EmitInitErr \/ EmitAsset \/ EmitDone \/ DrainEmit \/ DrainEmitted
    BY <1>1 DEF EmitMeta, EmitInitErr, EmitAsset, EmitDone, DrainEmit, DrainEmitted
  <1>2. ASSUME NEW ok \in BOOLEAN, MainEmitted(ok) PROVE [StreamNext]_streamVars
    BY <1>2 DEF MainEmitted, AssetEmitted, OtherEmitted, StreamNext, Endings
  <1>3. CASE Silent
    BY <1>3 DEF Silent, StartReading, LoopEnds, Join, DeferredCancel, DrainEnds, StreamCloses,
                Timeout, RecvAsset, DrainRecv, StreamNext, Endings
  <1>4. CASE Disconnect
    BY <1>4 DEF Disconnect, StreamNext, Endings
  <1>5. CASE UNCHANGED allVars
    BY <1>5 DEF allVars
  <1>. QED
    BY <1>1, <1>2, <1>3, <1>4, <1>5, SseCases

\* An event line is begun only by a goroutine that has none open.
LEMMA LockStep ==
  ASSUME WriterInv, NEW w \in Writers, NEW e \in Events, Lock(w, e), gone' = gone
  PROVE  /\ mutex = "free" /\ mutex' = w /\ cur[w] = "none"
         /\ cur' = [cur EXCEPT ![w] = e]
         /\ wire' \in Seq(Pieces)
         /\ \A v \in Writers : mutex' = v <=> cur'[v] # "none"
  BY DEF Lock, Write, WriterInv, Control, Holding, Pieces, Writers, Events

\* The writer that frees the mutex is the one that held it.
LEMMA UnlockStep ==
  ASSUME WriterInv, NEW w \in Writers, cur[w] # "none", Unlock(w), gone' = gone
  PROVE  /\ mutex = w /\ mutex' = "free"
         /\ cur' = [cur EXCEPT ![w] = "none"]
         /\ wire' \in Seq(Pieces)
         /\ \A v \in Writers : mutex' = v <=> cur'[v] # "none"
  BY DEF Unlock, Write, WriterInv, Control, Holding, Pieces, Writers, Events

\* No step lets two goroutines write, or tears a frame.
LEMMA WriterStep == WriterInv /\ [SseNext]_allVars => WriterInv'
  <1>. SUFFICES ASSUME WriterInv, [SseNext]_allVars PROVE WriterInv'
    OBVIOUS
  <1>. USE InitErrsAssumption
  <1>1. CASE EmitMeta \/ EmitInitErr \/ EmitAsset \/ EmitDone \/ DrainEmit
    <2>1. PICK w \in Writers, e \in Events :
            /\ Lock(w, e)
            /\ w = "drain" => e = "error" /\ drain = "emit"
            /\ w = "main" => /\ e = CASE main = "meta" -> "meta" [] main = "init" -> "init_error"
                                      [] main = "emit" -> "asset" [] main = "done" -> "done"
                             /\ main \in {"meta", "init", "emit", "done"}
                             /\ main = "init" => initSent < InitErrs
      BY <1>1 DEF EmitMeta, EmitInitErr, EmitAsset, EmitDone, DrainEmit, Writers, Events
    <2>2. UNCHANGED <<main, initSent, drain, gone, assetCount, errCount>>
      BY <1>1 DEF EmitMeta, EmitInitErr, EmitAsset, EmitDone, DrainEmit
    <2>3. done' \in [count : Nat, errors : Nat]
      BY <1>1 DEF EmitMeta, EmitInitErr, EmitAsset, EmitDone, DrainEmit, WriterInv, Control
    <2>4. Control'
      BY <2>1, <2>2, <2>3, LockStep DEF WriterInv, Control
    <2>5. Holding'
      BY <2>1, <2>2, LockStep DEF WriterInv, Holding, Control, Writers, Events
    <2>. QED
      BY <2>1, <2>2, <2>4, <2>5, LockAddsNone DEF WriterInv
  <1>2. ASSUME NEW ok \in BOOLEAN, MainEmitted(ok) PROVE WriterInv'
    <2>1. Unlock("main") /\ cur["main"] # "none" /\ "main" \in Writers
      BY <1>2 DEF MainEmitted, Writers
    <2>2. UNCHANGED <<drain, gone, errCount, done>>
      BY <1>2 DEF MainEmitted
    <2>3. Control'
      BY <1>2, <2>1, <2>2, UnlockStep
      DEF MainEmitted, AssetEmitted, OtherEmitted, WriterInv, Control, Holding, Writers
    <2>4. Holding'
      BY <1>2, <2>1, <2>2, UnlockStep
      DEF MainEmitted, AssetEmitted, OtherEmitted, WriterInv, Control, Holding, Writers
    <2>. QED
      BY <2>1, <2>2, <2>3, <2>4, UnlockAddsOne DEF WriterInv
  <1>3. CASE DrainEmitted
    <2>1. Unlock("drain") /\ cur["drain"] # "none" /\ "drain" \in Writers
      BY <1>3 DEF DrainEmitted, Writers
    <2>2. UNCHANGED <<main, initSent, gone, assetCount, errCount, done>> /\ drain' = "recv"
      BY <1>3 DEF DrainEmitted
    <2>3. Control'
      BY <2>1, <2>2, UnlockStep DEF WriterInv, Control
    <2>4. Holding'
      BY <2>1, <2>2, UnlockStep DEF WriterInv, Control, Holding, Writers
    <2>. QED
      BY <2>1, <2>2, <2>3, <2>4, UnlockAddsOne DEF WriterInv
  <1>4. CASE Silent
    <2>1. UNCHANGED <<emitVars, gone, initSent, assetCount, done>>
      BY <1>4 DEF Silent, StartReading, LoopEnds, Join, DeferredCancel, DrainEnds, StreamCloses,
                  Timeout, RecvAsset, DrainRecv, sseVars, emitVars
    <2>2. Framed'
      BY <2>1 DEF emitVars, WriterInv, Framed, FramesAreWhole, Frames, Frame
    <2>3. Control'
      BY <1>4, <2>1
      DEF Silent, StartReading, LoopEnds, Join, DeferredCancel, DrainEnds, StreamCloses,
          Timeout, RecvAsset, DrainRecv, sseVars, emitVars, WriterInv, Control
    <2>4. Holding'
      BY <1>4, <2>1
      DEF Silent, StartReading, LoopEnds, Join, DeferredCancel, DrainEnds, StreamCloses,
          Timeout, RecvAsset, DrainRecv, sseVars, emitVars, WriterInv, Holding, Control
    <2>. QED
      BY <2>2, <2>3, <2>4 DEF WriterInv
  <1>5. CASE Disconnect
    <2>1. UNCHANGED <<main, initSent, drain, emitVars, assetCount, errCount, done>> /\ gone'
      BY <1>5 DEF Disconnect
    <2>2. Framed'
      BY <2>1 DEF emitVars, WriterInv, Framed, FramesAreWhole, Frames, Frame
    <2>. QED
      BY <2>1, <2>2, <1>5 DEF emitVars, WriterInv, Holding, Control, Disconnect
  <1>6. CASE UNCHANGED allVars
    BY <1>6 DEF allVars, sseVars, WriterInv, Holding, Control, Framed, FramesAreWhole, Frames, Frame
  <1>. QED
    BY <1>1, <1>2, <1>3, <1>4, <1>5, <1>6, SseCases

\* What one step does to the frames of the wire.
SameFrames == Frames' = Frames /\ \A i \in 1..Frames : Frame(i)' = Frame(i)
OneMore(e) ==
  /\ Frames' = Frames + 1 /\ Frame(Frames)' = e
  /\ \A i \in 1..Frames : Frame(i)' = Frame(i)

\* What a step can do to the frames: nothing, or the one frame of the writer that ends.
LEMMA FramesStep ==
  ASSUME WriterInv, [SseNext]_allVars
  PROVE  \/ SameFrames /\ main' = main /\ gone' = gone
         \/ SameFrames /\ (Silent \/ Disconnect \/ UNCHANGED allVars)
         \/ /\ \E ok \in BOOLEAN : MainEmitted(ok)
            /\ IF gone THEN SameFrames ELSE OneMore(cur["main"])
         \/ /\ DrainEmitted
            /\ IF gone THEN SameFrames ELSE OneMore(cur["drain"])
  <1>. USE DEF SameFrames, OneMore
  <1>1. CASE EmitMeta \/ EmitInitErr \/ EmitAsset \/ EmitDone \/ DrainEmit
    <2>1. PICK w \in Writers, e \in Events : Lock(w, e)
      BY <1>1 DEF EmitMeta, EmitInitErr, EmitAsset, EmitDone, DrainEmit, Writers, Events
    <2>2. main' = main /\ gone' = gone
      BY <1>1 DEF EmitMeta, EmitInitErr, EmitAsset, EmitDone, DrainEmit
    <2>. QED
      BY <2>1, <2>2, LockAddsNone
  <1>2. ASSUME NEW ok \in BOOLEAN, MainEmitted(ok)
        PROVE  IF gone THEN SameFrames ELSE OneMore(cur["main"])
    BY <1>2, UnlockAddsOne DEF MainEmitted, Writers
  <1>3. CASE DrainEmitted
    BY <1>3, UnlockAddsOne DEF DrainEmitted, Writers
  <1>4. ASSUME UNCHANGED wire PROVE SameFrames
    BY <1>4 DEF Frames, Frame
  <1>5. CASE Silent \/ Disconnect \/ UNCHANGED allVars
    <2>1. UNCHANGED wire
      BY <1>5 DEF Silent, StartReading, LoopEnds, Join, DeferredCancel, DrainEnds, StreamCloses,
                  Timeout, RecvAsset, DrainRecv, Disconnect, sseVars, emitVars, allVars
    <2>. QED
      BY <1>4, <1>5, <2>1
  <1>. QED
    BY <1>1, <1>2, <1>3, <1>5, SseCases

\* Where the handler is tells what an attached browser has seen so far.
Order ==
  /\ StreamContract
  /\ \A i \in 1..Frames : i = 1 <=> Frame(i) = "meta"
  /\ main = "meta" => Frames = 0
  /\ ~gone /\ main # "meta" => Frames >= 1
  /\ main \in {"meta", "init"} => \A i \in 1..Frames : Frame(i) \in {"meta", "init_error"}
  /\ main # "returned" => \A i \in 1..Frames : Frame(i) # "done"

\* No step puts meta, init_error or done out of its place.
LEMMA OrderStep == WriterInv /\ Order /\ [SseNext]_allVars => Order'
  <1>. SUFFICES ASSUME WriterInv, Order, [SseNext]_allVars PROVE Order'
    OBVIOUS
  <1>0. Frames \in Nat
    BY FrameOnWire DEF WriterInv
  <1>1. ASSUME SameFrames, gone => gone',
               main' = main \/ {main, main'} \cap {"meta", "returned"} = {},
               main' = "init" => main = "init"
        PROVE  Order'
    <2>1. StreamContract'
      BY <1>1 DEF SameFrames, Order, StreamContract
    <2>. QED
      BY <1>0, <1>1, <2>1 DEF SameFrames, Order
  <1>2. ASSUME NEW ok \in BOOLEAN, MainEmitted(ok), ~gone, OneMore(cur["main"]) PROVE Order'
    <2>1. gone' = gone
      BY <1>2 DEF MainEmitted
    <2>2. \/ main = "meta" /\ main' = "init" /\ cur["main"] = "meta"
          \/ main = "init" /\ main' = "init" /\ cur["main"] = "init_error"
          \/ main = "emit" /\ main' = "loop" /\ cur["main"] = "asset"
          \/ main = "done" /\ main' = "returned" /\ cur["main"] = "done"
      BY <1>2 DEF MainEmitted, AssetEmitted, OtherEmitted, WriterInv, Holding
    <2>3. StreamContract'
      BY <1>0, <1>2, <2>2 DEF OneMore, Order, StreamContract
    <2>. QED
      BY <1>0, <1>2, <2>1, <2>2, <2>3 DEF OneMore, Order
  <1>3. ASSUME DrainEmitted, ~gone, OneMore(cur["drain"]) PROVE Order'
    <2>1. main' = main /\ gone' = gone /\ main \notin {"meta", "init", "returned"} /\ cur["drain"] = "error"
      BY <1>3 DEF DrainEmitted, WriterInv, Holding
    <2>2. StreamContract'
      BY <1>0, <1>3, <2>1 DEF OneMore, Order, StreamContract
    <2>. QED
      BY <1>0, <1>3, <2>1, <2>2 DEF OneMore, Order
  <1>4. CASE SameFrames /\ (Silent \/ Disconnect \/ UNCHANGED allVars)
    BY <1>1, <1>4
    DEF Silent, StartReading, LoopEnds, Join, DeferredCancel, DrainEnds, StreamCloses,
        Timeout, RecvAsset, DrainRecv, Disconnect, sseVars, allVars
  <1>5. CASE SameFrames /\ main' = main /\ gone' = gone
    BY <1>1, <1>5
  <1>6. ASSUME NEW ok \in BOOLEAN, MainEmitted(ok), gone, SameFrames PROVE Order'
    <2>1. gone' = gone
      BY <1>6 DEF MainEmitted
    <2>2. \/ main = "meta" /\ main' = "init"
          \/ main = "init" /\ main' = "init"
          \/ main = "emit" /\ main' \in {"loop", "join"}
          \/ main = "done" /\ main' = "returned"
      BY <1>6 DEF MainEmitted, AssetEmitted, OtherEmitted, WriterInv, Holding
    <2>3. StreamContract'
      BY <1>6 DEF SameFrames, Order, StreamContract
    <2>. QED
      BY <1>0, <1>6, <2>1, <2>2, <2>3 DEF SameFrames, Order
  <1>7. CASE DrainEmitted /\ gone /\ SameFrames
    BY <1>1, <1>7 DEF DrainEmitted
  <1>. QED
    BY <1>2, <1>3, <1>4, <1>5, <1>6, <1>7, FramesStep

One(b) == IF b THEN 1 ELSE 0

\* An event is sent a natural number of times.
LEMMA CountType == ASSUME WriterInv, NEW e PROVE CountOf(e) \in Nat
  <1>1. Frames \in Nat
    BY FrameOnWire DEF WriterInv
  <1>2. IsFiniteSet(1..Frames)
    BY <1>1, FS_Interval
  <1>3. IsFiniteSet({i \in 1..Frames : Frame(i) = e})
    BY <1>2, FS_Subset
  <1>. QED
    BY <1>3, FS_CardinalityType DEF CountOf

\* The same frames hold the same number of each event.
LEMMA CountSame == ASSUME SameFrames, NEW e PROVE CountOf(e)' = CountOf(e)
  <1>1. {i \in 1..Frames : Frame(i) = e}' = {i \in 1..Frames : Frame(i) = e}
    BY DEF SameFrames
  <1>. QED
    BY <1>1 DEF CountOf

\* One frame more counts for its own event only.
LEMMA CountMore ==
  ASSUME WriterInv, NEW f, OneMore(f), NEW e
  PROVE  CountOf(e)' = CountOf(e) + One(e = f)
  <1>. DEFINE S == {i \in 1..Frames : Frame(i) = e}
  <1>1. Frames \in Nat
    BY FrameOnWire DEF WriterInv
  <1>2. IsFiniteSet(S)
    <2>1. IsFiniteSet(1..Frames)
      BY <1>1, FS_Interval
    <2>. QED
      BY <2>1, FS_Subset
  <1>3. S' = IF e = f THEN S \cup {Frames + 1} ELSE S
    BY <1>1 DEF OneMore
  <1>4. Frames + 1 \notin S
    BY <1>1
  <1>5. Cardinality(S) \in Nat /\ Cardinality(S \cup {Frames + 1}) = Cardinality(S) + 1
    BY <1>2, <1>4, FS_AddElement, FS_CardinalityType
  <1>6. Cardinality(S)' = Cardinality(S) + One(e = f)
    BY <1>3, <1>5 DEF One
  <1>. QED
    BY <1>6 DEF CountOf

\* The counters against what was handed over and, for an attached browser,
\* against what is on the wire.  An asset whose emit failed is not counted.
Counted ==
  /\ assetCount + One(main = "emit") <= Cardinality(got)
  /\ ~gone => assetCount + One(main = "emit") = Cardinality(got)
  /\ errCount = Cardinality(reported)
  /\ main \notin {"meta", "init"} => initSent = InitErrs
  /\ ~gone => /\ CountOf("asset") = assetCount
              /\ CountOf("error") + One(drain = "emit") = errCount
              /\ CountOf("init_error") = initSent
  /\ main = "meta" => initSent = 0
  /\ drain = "ended" => out = "closed"
  /\ main = "returned" \/ cur["main"] = "done" =>
       done = [count |-> assetCount, errors |-> errCount + InitErrs]

SseInv == EndIsAccounted /\ WriterInv /\ Order /\ Counted

\* What the audit handed over is finite, and within what the clouds hold.
LEMMA HandedOver ==
  ASSUME EndIsAccounted
  PROVE  /\ IsFiniteSet(got) /\ Cardinality(got) \in Nat
         /\ Cardinality(got) <= Cardinality(Assets)
         /\ IsFiniteSet(reported) /\ Cardinality(reported) \in Nat
         /\ Cardinality(reported) <= Cardinality(Reporters)
  BY FiniteAssumption, FS_Subset, FS_CardinalityType DEF EndIsAccounted, StreamTypeOK

\* No step separates what done says from what was sent.
LEMMA CountedStep == SseInv /\ [SseNext]_allVars => Counted'
  <1>. SUFFICES ASSUME SseInv, [SseNext]_allVars PROVE Counted'
    OBVIOUS
  <1>. USE DEF SseInv
  <1>0. /\ Cardinality(got) \in Nat /\ Cardinality(reported) \in Nat
        /\ assetCount \in Nat /\ errCount \in Nat /\ initSent \in Nat
        /\ \A e : CountOf(e) \in Nat
    BY HandedOver, CountType, InitErrsAssumption DEF WriterInv, Control
  <1>1. CASE EmitMeta \/ EmitInitErr \/ EmitAsset \/ EmitDone \/ DrainEmit
    <2>1. UNCHANGED <<streamVars, main, initSent, drain, gone, assetCount, errCount>>
      BY <1>1 DEF EmitMeta, EmitInitErr, EmitAsset, EmitDone, DrainEmit
    <2>2. SameFrames
      BY <1>1, FramesStep, SseCases
      DEF EmitMeta, EmitInitErr, EmitAsset, EmitDone, DrainEmit, Lock, MainEmitted, DrainEmitted,
          Unlock, WriterInv, Control, Writers, Events
    <2>3. main' = "returned" \/ cur'["main"] = "done" =>
            done' = [count |-> assetCount, errors |-> errCount + InitErrs]
      BY <1>1, <2>1
      DEF EmitMeta, EmitInitErr, EmitAsset, EmitDone, DrainEmit, Lock, Counted, WriterInv, Control,
          Writers
    <2>. QED
      BY <2>1, <2>2, <2>3, CountSame DEF Counted, streamVars
  <1>2. ASSUME NEW ok \in BOOLEAN, MainEmitted(ok) PROVE Counted'
    <2>1. UNCHANGED <<drain, gone, errCount, done, got, reported, out>>
      BY <1>2 DEF MainEmitted, AssetEmitted, OtherEmitted, CtxEnds, streamVars
    <2>2. /\ cur["main"] # "none" /\ cur'["main"] = "none"
          /\ ~ok => gone
          /\ \/ main = "meta" /\ main' = "init" /\ cur["main"] = "meta"
                /\ initSent' = initSent /\ assetCount' = assetCount
             \/ main = "init" /\ main' = "init" /\ cur["main"] = "init_error"
                /\ initSent' = initSent + 1 /\ assetCount' = assetCount
             \/ main = "done" /\ main' = "returned" /\ cur["main"] = "done"
                /\ initSent' = initSent /\ assetCount' = assetCount
             \/ main = "emit" /\ cur["main"] = "asset" /\ initSent' = initSent
                /\ IF ok THEN main' = "loop" /\ assetCount' = assetCount + 1
                         ELSE main' = "join" /\ assetCount' = assetCount
      BY <1>2
      DEF MainEmitted, AssetEmitted, OtherEmitted, WriterInv, Control, Holding, Unlock, Writers
    <2>3. ~gone => OneMore(cur["main"])
      BY <1>2, UnlockAddsOne DEF MainEmitted, Writers, OneMore
    <2>4. ~gone => \A e : CountOf(e)' = CountOf(e) + One(e = cur["main"])
      BY <2>3, CountMore
    <2>. QED
      BY <1>0, <2>1, <2>2, <2>4 DEF Counted, One
  <1>3. CASE DrainEmitted
    <2>1. UNCHANGED <<streamVars, main, initSent, gone, assetCount, errCount, done>>
          /\ drain' = "recv" /\ drain = "emit" /\ cur["drain"] = "error"
          /\ cur'["main"] = cur["main"]
      BY <1>3 DEF DrainEmitted, WriterInv, Control, Holding, Unlock, Writers
    <2>2. ~gone => \A e : CountOf(e)' = CountOf(e) + One(e = "error")
      BY <1>3, <2>1, UnlockAddsOne, CountMore DEF DrainEmitted, Writers, OneMore
    <2>. QED
      BY <1>0, <2>1, <2>2 DEF Counted, One, streamVars
  <1>4. CASE Silent \/ Disconnect \/ UNCHANGED allVars
    <2>1. UNCHANGED <<initSent, assetCount, done, cur, wire>>
      BY <1>4 DEF Silent, StartReading, LoopEnds, Join, DeferredCancel, DrainEnds, StreamCloses,
                  Timeout, RecvAsset, DrainRecv, Disconnect, sseVars, emitVars, allVars
    <2>2. \A e : CountOf(e)' = CountOf(e)
      BY <2>1 DEF CountOf, Frames, Frame
    <2>3. ASSUME NEW a \in Assets, RecvAsset(a) PROVE Counted'
      <3>1. Cardinality(got') = Cardinality(got) + 1
        BY <2>3, HandedOver, FS_AddElement DEF RecvAsset, HandOver
      <3>. QED
        BY <1>0, <2>1, <2>2, <2>3, <3>1
        DEF RecvAsset, HandOver, Counted, One, WriterInv, Holding, emitVars
    <2>4. ASSUME NEW r \in Reporters, DrainRecv(r) PROVE Counted'
      <3>1. Cardinality(reported') = Cardinality(reported) + 1
        BY <2>4, HandedOver, FS_AddElement DEF DrainRecv, Report
      <3>2. main \notin {"done", "returned"}
        BY <2>4 DEF DrainRecv, WriterInv, Holding
      <3>3. cur["main"] # "done"
        BY <3>2 DEF WriterInv, Holding
      <3>. QED
        BY <1>0, <2>1, <2>2, <2>4, <3>1, <3>2, <3>3 DEF DrainRecv, Report, Counted, One, emitVars
    <2>5. CASE \/ StartReading \/ LoopEnds \/ Join \/ DeferredCancel \/ DrainEnds \/ StreamCloses
               \/ Timeout \/ Disconnect \/ UNCHANGED allVars
      <3>1. UNCHANGED <<got, reported, errCount>>
        BY <2>5
        DEF StartReading, LoopEnds, Join, DeferredCancel, DrainEnds, StreamCloses, Timeout,
            Disconnect, CtxEnds, CloseAssetChan, CloseErrChan, allVars, sseVars, streamVars
      <3>2. /\ drain' = "ended" => out' = "closed"
            /\ main' = main \/ {main, main'} \cap {"meta", "emit", "returned"} = {}
            /\ main' \notin {"meta", "init"} => initSent = InitErrs
            /\ drain' = "emit" <=> drain = "emit"
            /\ gone => gone'
        <4>1. CASE StartReading \/ LoopEnds \/ Join \/ DrainEnds \/ DeferredCancel
          BY <4>1
          DEF StartReading, LoopEnds, Join, DrainEnds, DeferredCancel, CtxEnds, sseVars, streamVars,
              Counted, WriterInv, Holding
        <4>2. CASE StreamCloses
          BY <4>2 DEF StreamCloses, CloseAssetChan, CloseErrChan, sseVars, Counted
        <4>3. CASE Timeout \/ Disconnect \/ UNCHANGED allVars
          BY <4>3 DEF Timeout, Disconnect, CtxEnds, allVars, sseVars, streamVars, Counted
        <4>. QED
          BY <2>5, <4>1, <4>2, <4>3
      <3>. QED
        BY <1>0, <2>1, <2>2, <3>1, <3>2 DEF Counted, One
    <2>. QED
      BY <1>4, <2>3, <2>4, <2>5 DEF Silent
  <1>. QED
    BY <1>1, <1>2, <1>3, <1>4, SseCases

\* The handler's invariant holds along every behaviour.
LEMMA SseInvariant == SseSpec => []SseInv
  <1>1. SseInit => SseInv
    <2>. SUFFICES ASSUME SseInit PROVE SseInv
      OBVIOUS
    <2>1. EndIsAccounted /\ got = {} /\ reported = {}
      BY AccountedInit DEF SseInit, StreamInit
    <2>2. Frames = 0
      BY Halves DEF SseInit, Frames
    <2>3. WriterInv
      <3>1. Control
        <4>1. wire \in Seq(Pieces)
          BY DEF SseInit
        <4>2. done \in [count : Nat, errors : Nat]
          BY DEF SseInit, NoDone
        <4>3. cur \in [Writers -> Events \cup {"none"}]
          BY DEF SseInit
        <4>4. gone \in BOOLEAN
          BY DEF SseInit
        <4>6. initSent \in 0..InitErrs
          <5>1. initSent = 0
            BY DEF SseInit
          <5>. QED
            BY <5>1, InitErrsAssumption
        <4>5. main = "meta" /\ drain = "off" /\ mutex = "free" /\ assetCount = 0 /\ errCount = 0
          BY DEF SseInit
        <4>. QED
          BY <4>1, <4>2, <4>3, <4>4, <4>5, <4>6 DEF Control
      <3>2. Holding
        BY InitErrsAssumption DEF SseInit, Holding, Writers
      <3>3. Framed
        <4>1. mutex = "free" /\ Len(wire) = 0
          BY DEF SseInit
        <4>2. FramesAreWhole
          BY <2>2 DEF FramesAreWhole
        <4>. QED
          BY <2>2, <4>1, <4>2 DEF Framed
      <3>. QED
        BY <3>1, <3>2, <3>3 DEF WriterInv
    <2>4. Order
      BY <2>2 DEF SseInit, Order, StreamContract
    <2>5. \A e : {i \in 1..Frames : Frame(i) = e} = {}
      BY <2>2
    <2>6. \A e : CountOf(e) = 0
      BY <2>5, FS_EmptySet DEF CountOf
    <2>7. Counted
      <3>1. Cardinality(got) = 0 /\ Cardinality(reported) = 0
        BY <2>1, FS_EmptySet
      <3>2. cur["main"] = "none"
        BY DEF SseInit, Writers
      <3>. QED
        BY <2>6, <3>1, <3>2 DEF SseInit, Counted, One
    <2>. QED
      BY <2>1, <2>3, <2>4, <2>7 DEF SseInv
  <1>2. SseInv /\ [SseNext]_allVars => SseInv'
    BY SseStepIsStreamStep, AccountedStep, WriterStep, OrderStep, CountedStep DEF SseInv
  <1>. QED
    BY <1>1, <1>2, PTL DEF SseSpec

\* For any inventory: the types, and counters that never run past what the
\* clouds hold.
THEOREM SseTypeCorrect == SseSpec => []SseTypeOK
  <1>1. SseInv => SseTypeOK
    <2>. SUFFICES ASSUME SseInv PROVE SseTypeOK
      OBVIOUS
    <2>1. StreamTypeOK /\ Control
      BY DEF SseInv, EndIsAccounted, WriterInv
    <2>2. assetCount <= Cardinality(got) /\ errCount = Cardinality(reported)
      BY <2>1, HandedOver DEF SseInv, Control, Counted, One
    <2>3. assetCount \in 0..Cardinality(Assets) /\ errCount \in 0..Cardinality(Reporters)
      BY <2>1, <2>2, HandedOver, FiniteAssumption, FS_CardinalityType DEF SseInv, Control
    <2>. QED
      BY <2>1, <2>3 DEF Control, SseTypeOK, Pieces
  <1>. QED
    BY <1>1, SseInvariant, PTL

\* However the two goroutines interleave and whenever the browser leaves,
\* every name line is followed by its own data.
THEOREM FramesStayWhole == SseSpec => []FramesAreWhole
  <1>1. SseInv => FramesAreWhole
    BY DEF SseInv, WriterInv, Framed
  <1>. QED
    BY <1>1, SseInvariant, PTL

\* For any number of assets, errors and init errors: meta once and first,
\* init_error before the rest, done once and last.
THEOREM ContractHolds == SseSpec => []StreamContract
  <1>1. SseInv => StreamContract
    BY DEF SseInv, Order
  <1>. QED
    BY <1>1, SseInvariant, PTL

\* For any number of assets, errors and init errors: the counts in done are
\* those of the frames sent to a browser that stayed.
THEOREM CountsMatch == SseSpec => []DoneCountsMatch
  <1>1. SseInv => DoneCountsMatch
    <2>. SUFFICES ASSUME SseInv, main = "returned", ~gone
                  PROVE  /\ done.count = CountOf("asset") /\ done.count = Cardinality(got)
                         /\ done.errors = CountOf("error") + CountOf("init_error")
                         /\ CountOf("error") = Cardinality(reported)
      BY DEF DoneCountsMatch
    <2>1. drain = "ended"
      BY DEF SseInv, WriterInv, Holding
    <2>2. \A e : CountOf(e) \in Nat
      BY CountType DEF SseInv
    <2>3. assetCount \in Nat
      BY DEF SseInv, WriterInv, Control
    <2>. QED
      BY <2>1, <2>2, <2>3 DEF SseInv, Counted, One
  <1>. QED
    BY <1>1, SseInvariant, PTL
==============================================================================
