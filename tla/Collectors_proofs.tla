-------------------------- MODULE Collectors_proofs --------------------------
(***************************************************************************)
(* Proofs about the collection and about what one of its collectors does.   *)
(*                                                                         *)
(* Collection, for every set of providers and collectors, every limit and  *)
(* every capacity of the error channels: its types, the safety properties  *)
(* its run checks, and that it implements MergedStream.  The inductive      *)
(* invariant IInv adds to the properties what the goroutines know of one    *)
(* another: where a provider is when its lead runs, what forward has seen   *)
(* when it ends, and where an asset or an error may be.                     *)
(*                                                                         *)
(* Listing, for every setting, page size and number of zones: what a        *)
(* collector may keep quiet (RealFailureSurfaces, SilenceIsJustified and    *)
(* NoAccountsIsExplained), that the list of accounts is whole, the types.   *)
(***************************************************************************)
EXTENDS Collection, Listing, Lists_proofs

-----------------------------------------------------------------------------
(* Collection.                                                             *)

Finished == {"done", "skipped"}
AtMostOne(S) == \A x, y \in S : x = y

\* Where a provider is, and what its collectors do then.
RunInv ==
  \A p \in Providers :
    /\ run[p] = "lead" =>
         /\ cs[Lead[p]] \in {"listing", "failed"}
         /\ \A c \in Fan(p) : cs[c] = "idle"
    /\ run[p] # "lead" => cs[Lead[p]] = "done"
    /\ run[p] \in {"errsClosed", "closed"} => \A c \in Of(p) : cs[c] \in Finished

\* What forward has seen of its two sources.
FwdInv ==
  /\ \A p \in Providers :
       /\ "errs" \notin src[p] => run[p] \in {"errsClosed", "closed"} /\ errbuf[p] = {}
       /\ "assets" \notin src[p] => run[p] = "closed"
       /\ fwd[p] = "done" => held[p] = {} /\ heldErr[p] = {}
       /\ fwd[p] = "done" /\ ctx = "live" => src[p] = {}
  /\ out # "open" => \A p \in Providers : fwd[p] = "done"

\* An asset is in one place.
AssetInv ==
  /\ \A c \in Collectors : left[c] \subseteq Items[c]
  /\ \A p \in Providers : AtMostOne(held[p])
  /\ \A p, q \in Providers : p # q => held[p] \cap held[q] = {}
  /\ \A c \in Collectors, p \in Providers : left[c] \cap held[p] = {}
  /\ \A c \in Collectors : left[c] \cap got = {}
  /\ \A p \in Providers : held[p] \cap got = {}
  /\ ctx = "live" =>
       \A a \in Assets : \/ a \in got
                         \/ \E c \in Collectors : a \in left[c]
                         \/ \E p \in Providers : a \in held[p]

\* So is an error, and only a collector that has returned left one.
ErrInv ==
  /\ \A p \in Providers :
       /\ errbuf[p] \subseteq {c \in Of(p) : cs[c] = "done"}
       /\ heldErr[p] \subseteq {c \in Of(p) : cs[c] = "done"}
       /\ AtMostOne(heldErr[p])
       /\ errbuf[p] \cap heldErr[p] = {}
       /\ errbuf[p] \cap reported = {}
       /\ heldErr[p] \cap reported = {}
  /\ \A c \in reported : cs[c] = "done"

\* The steps with which a collector returns.
Returning(c) ==
  \/ AbandonSend(c) \/ SwallowCanceled(c) \/ GiveUpSilently(c)
  \/ Finish(c) \/ EmitErr(c) \/ DropErr(c)

IInv == TypeOK /\ RunInv /\ FwdInv /\ AssetInv /\ ErrInv /\ FailureIsReported

-----------------------------------------------------------------------------
(* The two ways a collector returns.                                       *)

\* A collector that returns ends "done"; what its return takes down ends
\* "skipped"; no other collector moves, and a provider moves only with its
\* lead.
LEMMA ReturnsEffect ==
  ASSUME Types, NEW c \in Collectors, NEW skip \in SUBSET Fan(Owner[c]),
         cs[c] \in {"listing", "failed"}, Returns(c, skip)
  PROVE  /\ cs' \in [Collectors -> {"idle", "listing", "failed", "done", "skipped"}]
         /\ run' \in [Providers -> {"lead", "fan", "errsClosed", "closed"}]
         /\ cs'[c] = "done"
         /\ c # Lead[Owner[c]] =>
              run' = run /\ \A d \in Collectors \ {c} : cs'[d] = cs[d]
         /\ c = Lead[Owner[c]] =>
              /\ run'[Owner[c]] = "fan"
              /\ \A p \in Providers \ {Owner[c]} : run'[p] = run[p]
              /\ \A d \in skip : cs'[d] = "skipped"
              /\ \A d \in Collectors \ (skip \cup {c}) : cs'[d] = cs[d]
  <1>1. Owner[c] \in Providers /\ skip \subseteq Collectors \ {Lead[Owner[c]]}
    BY CollectorsAssumption DEF Fan, Of
  <1>2. CASE c # Lead[Owner[c]]
    BY <1>1, <1>2 DEF Returns, Types
  <1>3. CASE c = Lead[Owner[c]]
    <2>1. run' = [run EXCEPT ![Owner[c]] = "fan"]
      BY <1>3 DEF Returns, LeadReturns
    <2>2. cs' = [d \in Collectors |->
                   CASE d = c -> "done"
                     [] d \in skip -> "skipped"
                     [] OTHER -> cs[d]]
      BY <1>3 DEF Returns, LeadReturns
    <2>3. \A d \in Collectors :
            cs'[d] = IF d = c THEN "done" ELSE IF d \in skip THEN "skipped" ELSE cs[d]
      BY <1>1, <1>3, <2>2
    <2>4. cs' \in [Collectors -> {"idle", "listing", "failed", "done", "skipped"}]
      BY <2>2, <2>3 DEF Types
    <2>. QED
      BY <1>1, <1>3, <2>1, <2>3, <2>4 DEF Types
  <1>. QED
    BY <1>2, <1>3

\* Whoever returns, the collectors g.Go counts are no more than before.
LEMMA RunningShrinks ==
  ASSUME NEW p \in Providers, Cardinality(Running(p)) <= Limit,
         \A d \in Collectors :
           cs'[d] \in {"listing", "failed"} => cs[d] \in {"listing", "failed"}
  PROVE  Cardinality(Running(p)') <= Limit
  <1>1. Running(p)' \subseteq Running(p)
    BY DEF Running, Of
  <1>2. IsFiniteSet(Running(p))
    BY CollectorsAssumption, FS_Subset DEF Running, Of
  <1>3. /\ Cardinality(Running(p)') <= Cardinality(Running(p))
        /\ Cardinality(Running(p)) \in Nat /\ Cardinality(Running(p)') \in Nat
    BY <1>1, <1>2, FS_Subset, FS_CardinalityType
  <1>. QED
    BY <1>3, BoundsAssumption

\* Every way a collector returns is a Returns with some part of the fan-out.
LEMMA ReturningSteps ==
  ASSUME Types, NEW c \in Collectors, Returning(c)
  PROVE  \E skip \in SUBSET Fan(Owner[c]) :
           /\ cs[c] \in {"listing", "failed"}
           /\ Returns(c, skip)
  <1>1. NeedsLead \cap Of(Owner[c]) \in SUBSET Fan(Owner[c])
    BY CollectorsAssumption DEF Fan, Of
  <1>2. {} \in SUBSET Fan(Owner[c]) /\ Fan(Owner[c]) \in SUBSET Fan(Owner[c])
    OBVIOUS
  <1>. QED
    BY <1>1, <1>2
    DEF Returning, AbandonSend, SwallowCanceled, GiveUpSilently, Finish, EmitErr, DropErr

-----------------------------------------------------------------------------
(* Types and bounds.                                                       *)

LEMMA TypesStep == Types /\ [Next]_vars => Types'
  <1>. SUFFICES ASSUME Types, [Next]_vars PROVE Types'
    OBVIOUS
  <1>. USE CollectorsAssumption
  <1>1. ASSUME NEW why \in {"deadline", "canceled"}, CtxEnd(why) PROVE Types'
    BY <1>1 DEF CtxEnd, Types, provVars, fwdVars, sinkVars
  <1>2. ASSUME NEW c \in Collectors, Launch(c) \/ Fail(c) PROVE Types'
    BY <1>2 DEF Launch, Fail, Types, fwdVars, sinkVars
  <1>3. ASSUME NEW c \in Collectors, Returning(c)
        PROVE  Types'
    <2>1. PICK skip \in SUBSET Fan(Owner[c]) :
            cs[c] \in {"listing", "failed"} /\ Returns(c, skip)
      BY <1>3, ReturningSteps
    <2>2. /\ cs' \in [Collectors -> {"idle", "listing", "failed", "done", "skipped"}]
          /\ run' \in [Providers -> {"lead", "fan", "errsClosed", "closed"}]
      BY <2>1, ReturnsEffect
    <2>. QED
      BY <1>3, <2>2
      DEF Returning, AbandonSend, SwallowCanceled, GiveUpSilently, Finish, EmitErr, DropErr,
          Types, fwdVars, sinkVars
  <1>4. ASSUME NEW c \in Collectors, NEW a \in Assets, SendAsset(c, a) PROVE Types'
    BY <1>4 DEF SendAsset, Types, sinkVars
  <1>5. ASSUME NEW p \in Providers, CloseErrs(p) \/ CloseAssets(p) PROVE Types'
    BY <1>5 DEF CloseErrs, CloseAssets, Types, fwdVars, sinkVars
  <1>6. ASSUME NEW p \in Providers, NEW c \in Collectors, RecvErr(p, c) \/ DeliverErr(p, c)
        PROVE  Types'
    BY <1>6 DEF RecvErr, DeliverErr, Types, provVars, sinkVars
  <1>7. ASSUME NEW p \in Providers, NEW ch \in {"assets", "errs"}, SeeClosed(p, ch)
        PROVE  Types'
    BY <1>7 DEF SeeClosed, Types, provVars, sinkVars
  <1>8. ASSUME NEW p \in Providers, FwdCancel(p) PROVE Types'
    BY <1>8 DEF FwdCancel, Types, provVars, sinkVars
  <1>9. ASSUME NEW p \in Providers, NEW a \in Assets, DeliverAsset(p, a) PROVE Types'
    BY <1>9 DEF DeliverAsset, Types, provVars
  <1>10. CASE CloseMerged
    BY <1>10 DEF CloseMerged, Types, provVars, fwdVars, sinkVars
  <1>11. CASE UNCHANGED vars
    BY <1>11 DEF Types, vars
  <1>. QED
    BY <1>1, <1>2, <1>3, <1>4, <1>5, <1>6, <1>7, <1>8, <1>9, <1>10, <1>11
    DEF Next, Fabric, Collector, Returning, Provider, Forward

LEMMA LimitStep ==
  TypeOK /\ [Next]_vars => \A p \in Providers : Cardinality(Running(p)') <= Limit
  <1>. SUFFICES ASSUME TypeOK, [Next]_vars, NEW p \in Providers
                PROVE  Cardinality(Running(p)') <= Limit
    OBVIOUS
  <1>. USE CollectorsAssumption DEF TypeOK
  \* Only Launch makes a collector count.
  <1>1. SUFFICES ASSUME ~\E c \in Collectors : Launch(c)
                 PROVE  \A d \in Collectors :
                          cs'[d] \in {"listing", "failed"} => cs[d] \in {"listing", "failed"}
    <2>1. ASSUME NEW c \in Collectors, Launch(c) PROVE Cardinality(Running(p)') <= Limit
      <3>1. CASE p = Owner[c]
        <4>1. Running(p)' = Running(p) \cup {c} /\ c \notin Running(p)
          BY <2>1, <3>1 DEF Launch, Running, Of, Types
        <4>2. IsFiniteSet(Running(p))
          BY FS_Subset DEF Running, Of
        <4>3. Cardinality(Running(p)') = Cardinality(Running(p)) + 1
          BY <4>1, <4>2, FS_AddElement
        <4>4. Cardinality(Running(p)) < Limit /\ Cardinality(Running(p)) \in Nat
          BY <2>1, <3>1, <4>2, FS_CardinalityType DEF Launch
        <4>. QED
          BY <4>3, <4>4, BoundsAssumption
      <3>2. CASE p # Owner[c]
        <4>1. Running(p)' = Running(p)
          BY <2>1, <3>2 DEF Launch, Running, Of, Types
        <4>. QED
          BY <4>1
      <3>. QED
        BY <3>1, <3>2
    <2>. QED
      BY <2>1, RunningShrinks
  <1>2. ASSUME NEW c \in Collectors, Fail(c)
        PROVE  \A d \in Collectors :
                 cs'[d] \in {"listing", "failed"} => cs[d] \in {"listing", "failed"}
    BY <1>2 DEF Fail, Types
  <1>3. ASSUME NEW c \in Collectors, Returning(c)
        PROVE  \A d \in Collectors :
                 cs'[d] \in {"listing", "failed"} => cs[d] \in {"listing", "failed"}
    <2>1. PICK skip \in SUBSET Fan(Owner[c]) :
            cs[c] \in {"listing", "failed"} /\ Returns(c, skip)
      BY <1>3, ReturningSteps
    <2>2. /\ cs'[c] = "done"
          /\ \A d \in Collectors \ {c} : cs'[d] = "skipped" \/ cs'[d] = cs[d]
      BY <2>1, ReturnsEffect
    <2>. QED
      BY <2>2
  <1>4. ASSUME UNCHANGED cs
        PROVE  \A d \in Collectors :
                 cs'[d] \in {"listing", "failed"} => cs[d] \in {"listing", "failed"}
    BY <1>4
  <1>5. \/ UNCHANGED cs
        \/ \E c \in Collectors : Fail(c)
        \/ \E c \in Collectors :
             Returning(c)
    BY <1>1
    DEF Next, Fabric, Collector, Returning, Provider, Forward, CtxEnd, SendAsset, CloseErrs,
        CloseAssets, RecvErr, DeliverErr, SeeClosed, FwdCancel, DeliverAsset,
        CloseMerged, vars, provVars
  <1>. QED
    BY <1>2, <1>3, <1>4, <1>5

LEMMA ErrCapStep ==
  TypeOK /\ [Next]_vars => \A p \in Providers : Cardinality(errbuf'[p]) <= ErrCap[p]
  <1>. SUFFICES ASSUME TypeOK, [Next]_vars, NEW p \in Providers
                PROVE  Cardinality(errbuf'[p]) <= ErrCap[p]
    OBVIOUS
  <1>. USE CollectorsAssumption DEF TypeOK
  <1>1. IsFiniteSet(errbuf[p]) /\ Cardinality(errbuf[p]) \in Nat
    BY FS_Subset, FS_CardinalityType DEF Types
  <1>2. ASSUME NEW c \in Collectors, EmitErr(c) PROVE Cardinality(errbuf'[p]) <= ErrCap[p]
    <2>1. CASE p = Owner[c]
      <3>1. errbuf'[p] = errbuf[p] \cup {c} /\ Cardinality(errbuf[p]) < ErrCap[p]
        BY <1>2, <2>1 DEF EmitErr, Types
      <3>2. Cardinality(errbuf[p] \cup {c}) =
              IF c \in errbuf[p] THEN Cardinality(errbuf[p]) ELSE Cardinality(errbuf[p]) + 1
        BY <1>1, FS_AddElement
      <3>3. Cardinality(errbuf'[p]) <= Cardinality(errbuf[p]) + 1
        BY <1>1, <3>1, <3>2
      <3>4. Cardinality(errbuf'[p]) \in Nat
        BY <1>1, <3>1, <3>2
      <3>. QED
        BY <1>1, <3>1, <3>3, <3>4, BoundsAssumption
    <2>2. CASE p # Owner[c]
      BY <1>2, <2>2 DEF EmitErr, Types
    <2>. QED
      BY <2>1, <2>2
  <1>3. ASSUME NEW q \in Providers, NEW c \in Collectors, RecvErr(q, c)
        PROVE  Cardinality(errbuf'[p]) <= ErrCap[p]
    <2>1. errbuf'[p] \subseteq errbuf[p]
      BY <1>3 DEF RecvErr, Types
    <2>2. /\ Cardinality(errbuf'[p]) <= Cardinality(errbuf[p])
          /\ Cardinality(errbuf'[p]) \in Nat
      BY <1>1, <2>1, FS_Subset, FS_CardinalityType
    <2>. QED
      BY <1>1, <2>2, BoundsAssumption
  <1>4. \/ UNCHANGED errbuf
        \/ \E c \in Collectors : EmitErr(c)
        \/ \E q \in Providers, c \in Collectors : RecvErr(q, c)
    BY DEF Next, Fabric, Collector, Provider, Forward, CtxEnd, Launch, SendAsset,
           AbandonSend, Fail, SwallowCanceled, GiveUpSilently, Finish, DropErr,
           CloseErrs, CloseAssets, DeliverErr, SeeClosed, FwdCancel, DeliverAsset,
           CloseMerged, vars, provVars
  <1>. QED
    BY <1>2, <1>3, <1>4

LEMMA TypeStep == TypeOK /\ [Next]_vars => TypeOK'
  BY TypesStep, LimitStep, ErrCapStep DEF TypeOK

\* At the start a provider's lead is the only collector that counts, and the
\* error channels are empty.
LEMMA TypeInit == Init => TypeOK
  <1>. SUFFICES ASSUME Init PROVE TypeOK
    OBVIOUS
  <1>. USE CollectorsAssumption, ItemsAssumption, BoundsAssumption
  <1>1. Types
    BY DEF Init, Types
  <1>2. ASSUME NEW p \in Providers PROVE Cardinality(Running(p)) <= Limit
    <2>1. Running(p) = {Lead[p]}
      BY DEF Init, Running, Of
    <2>2. Cardinality(Running(p)) = 1
      BY <2>1, FS_Singleton
    <2>. QED
      BY <2>2
  <1>3. ASSUME NEW p \in Providers PROVE Cardinality(errbuf[p]) <= ErrCap[p]
    BY FS_EmptySet DEF Init
  <1>. QED
    BY <1>1, <1>2, <1>3 DEF TypeOK

\* At every step no more than --max-concurrency collectors of a provider are
\* running, and its error channel holds no more than it can.
THEOREM TypeCorrect == Spec => []TypeOK
  <1>1. Init => TypeOK
    BY TypeInit
  <1>2. TypeOK /\ [Next]_vars => TypeOK'
    BY TypeStep
  <1>. QED
    BY <1>1, <1>2, PTL DEF Spec

-----------------------------------------------------------------------------
(* The rest of the inductive invariant.                                    *)

\* What a returning collector changes, given where its provider is: its own
\* state, that of collectors that never ran, and its provider if it is a lead.
LEMMA ReturningEffect ==
  ASSUME Types, RunInv, NEW c \in Collectors, Returning(c)
  PROVE  /\ cs[c] \in {"listing", "failed"} /\ cs'[c] = "done"
         /\ run[Owner[c]] \in {"lead", "fan"} /\ run'[Owner[c]] = "fan"
         /\ cs'[Lead[Owner[c]]] = "done"
         /\ \A p \in Providers \ {Owner[c]} :
              run'[p] = run[p] /\ \A d \in Of(p) : cs'[d] = cs[d]
         /\ \A d \in Collectors :
              cs[d] \in Finished \/ cs'[d] = "done" => d = c \/ cs'[d] = cs[d]
         /\ UNCHANGED <<ctx, left, fwdVars, out, sinkVars>>
  <1>. USE CollectorsAssumption
  <1>1. PICK skip \in SUBSET Fan(Owner[c]) :
          cs[c] \in {"listing", "failed"} /\ Returns(c, skip)
    BY ReturningSteps
  <1>2. /\ cs'[c] = "done"
        /\ c # Lead[Owner[c]] => run' = run /\ \A d \in Collectors \ {c} : cs'[d] = cs[d]
        /\ c = Lead[Owner[c]] =>
             /\ run'[Owner[c]] = "fan"
             /\ \A p \in Providers \ {Owner[c]} : run'[p] = run[p]
             /\ \A d \in skip : cs'[d] = "skipped"
             /\ \A d \in Collectors \ (skip \cup {c}) : cs'[d] = cs[d]
    BY <1>1, ReturnsEffect
  <1>3. UNCHANGED <<ctx, left, fwdVars, out, sinkVars>>
    BY DEF Returning, AbandonSend, SwallowCanceled, GiveUpSilently, Finish, EmitErr, DropErr
  <1>4. CASE c = Lead[Owner[c]]
    <2>1. run[Owner[c]] = "lead"
      BY <1>1, <1>4 DEF RunInv
    <2>2. \A d \in Fan(Owner[c]) : cs[d] = "idle"
      BY <2>1 DEF RunInv
    <2>. QED
      BY <1>1, <1>2, <1>3, <1>4, <2>1, <2>2 DEF Fan, Of, Finished
  <1>5. CASE c # Lead[Owner[c]]
    <2>1. c \in Fan(Owner[c]) /\ c \in Of(Owner[c])
      BY <1>5 DEF Fan, Of
    <2>2. run[Owner[c]] = "fan"
      BY <1>1, <2>1 DEF RunInv, Finished, Types
    <2>. QED
      BY <1>1, <1>2, <1>3, <1>5, <2>2 DEF Of, RunInv
  <1>. QED
    BY <1>4, <1>5

LEMMA RunStep == Types /\ RunInv /\ [Next]_vars => RunInv'
  <1>. SUFFICES ASSUME Types, RunInv, [Next]_vars PROVE RunInv'
    OBVIOUS
  <1>. USE CollectorsAssumption
  <1>1. ASSUME NEW c \in Collectors, Launch(c) \/ Fail(c) PROVE RunInv'
    <2>1. /\ cs' = [cs EXCEPT ![c] = cs'[c]] /\ cs'[c] \in {"listing", "failed"}
          /\ UNCHANGED run
      BY <1>1 DEF Launch, Fail, Types
    <2>2. \/ run[Owner[c]] = "fan" /\ c # Lead[Owner[c]]
          \/ run[Owner[c]] \in {"lead", "fan"} /\ cs[c] = "listing"
      BY <1>1 DEF Launch, Fail, RunInv, Types, Of, Finished
    <2>3. run[Owner[c]] = "lead" => c = Lead[Owner[c]]
      BY <2>2 DEF RunInv, Fan, Of
    <2>. QED
      BY <2>1, <2>2, <2>3 DEF RunInv, Fan, Of, Types
  <1>2. ASSUME NEW c \in Collectors, Returning(c) PROVE RunInv'
    <2>1. ASSUME NEW p \in Providers, p # Owner[c]
          PROVE  run'[p] = run[p] /\ \A d \in Of(p) : cs'[d] = cs[d]
      BY <1>2, <2>1, ReturningEffect
    <2>2. run'[Owner[c]] = "fan" /\ cs'[Lead[Owner[c]]] = "done"
      BY <1>2, ReturningEffect
    <2>. QED
      BY <2>1, <2>2 DEF RunInv, Fan, Of
  <1>3. ASSUME NEW p \in Providers, CloseErrs(p) \/ CloseAssets(p) PROVE RunInv'
    BY <1>3 DEF CloseErrs, CloseAssets, RunInv, Types, Fan, Of, Finished
  <1>4. CASE UNCHANGED <<cs, run>>
    BY <1>4 DEF RunInv, Fan, Of
  <1>. QED
    BY <1>1, <1>2, <1>3, <1>4
    DEF Next, Fabric, Collector, Returning, Provider, Forward, CtxEnd, SendAsset, RecvErr,
        DeliverErr, SeeClosed, FwdCancel, DeliverAsset, CloseMerged, vars, provVars

\* A forwarder sees a source closed only after its provider closed it, so what
\* it saw stays so: nothing reopens a channel, and no collector is left to
\* put an error into a closed one.
LEMMA FwdStep == Types /\ RunInv /\ FwdInv /\ [Next]_vars => FwdInv'
  <1>. SUFFICES ASSUME Types, RunInv, FwdInv, [Next]_vars PROVE FwdInv'
    OBVIOUS
  <1>. USE CollectorsAssumption
  <1>1. ASSUME NEW c \in Collectors, Returning(c) PROVE FwdInv'
    <2>1. /\ run[Owner[c]] \in {"lead", "fan"}
          /\ \A p \in Providers \ {Owner[c]} : run'[p] = run[p]
          /\ UNCHANGED <<ctx, fwdVars, out>>
      BY <1>1, ReturningEffect
    <2>2. \A p \in Providers \ {Owner[c]} : errbuf'[p] = errbuf[p]
      BY <1>1 DEF Returning, AbandonSend, SwallowCanceled, GiveUpSilently, Finish, EmitErr,
                  DropErr, Types
    <2>3. src[Owner[c]] = {"assets", "errs"}
      BY <2>1 DEF FwdInv, Types
    <2>. QED
      BY <2>1, <2>2, <2>3 DEF FwdInv, fwdVars
  <1>2. ASSUME NEW p \in Providers, NEW c \in Collectors, RecvErr(p, c) PROVE FwdInv'
    BY <1>2 DEF RecvErr, AtSelect, FwdInv, Types
  <1>3. ASSUME NEW p \in Providers, NEW ch \in {"assets", "errs"}, SeeClosed(p, ch)
        PROVE  FwdInv'
    BY <1>3 DEF SeeClosed, AtSelect, FwdInv, Types, provVars
  <1>4. ASSUME NEW c \in Collectors, NEW a \in Assets, SendAsset(c, a) PROVE FwdInv'
    BY <1>4 DEF SendAsset, AtSelect, FwdInv, Types
  <1>5. ASSUME NEW p \in Providers, CloseErrs(p) \/ CloseAssets(p) PROVE FwdInv'
    BY <1>5 DEF CloseErrs, CloseAssets, FwdInv, Types, fwdVars
  <1>6. ASSUME NEW p \in Providers, FwdCancel(p) PROVE FwdInv'
    BY <1>6 DEF FwdCancel, FwdInv, Types, provVars
  <1>7. ASSUME NEW p \in Providers, NEW a \in Assets, DeliverAsset(p, a) PROVE FwdInv'
    BY <1>7 DEF DeliverAsset, FwdInv, Types, provVars
  <1>8. ASSUME NEW p \in Providers, NEW c \in Collectors, DeliverErr(p, c) PROVE FwdInv'
    BY <1>8 DEF DeliverErr, FwdInv, Types, provVars
  <1>9. ASSUME NEW why \in {"deadline", "canceled"}, CtxEnd(why) PROVE FwdInv'
    BY <1>9 DEF CtxEnd, FwdInv, Types, provVars, fwdVars
  <1>10. CASE CloseMerged
    BY <1>10 DEF CloseMerged, FwdInv, Types, provVars, fwdVars
  <1>11. CASE UNCHANGED <<ctx, run, errbuf, fwdVars, out>>
    BY <1>11 DEF FwdInv, fwdVars
  <1>. QED
    BY <1>1, <1>2, <1>3, <1>4, <1>5, <1>6, <1>7, <1>8, <1>9, <1>10, <1>11
    DEF Next, Fabric, Collector, Returning, Provider, Forward, Launch, Fail, vars, provVars,
        fwdVars

\* An asset moves from its collector to a forwarder that has none in hand, and
\* from there to the consumer.
LEMMA AssetStep == Types /\ RunInv /\ FwdInv /\ AssetInv /\ [Next]_vars => AssetInv'
  <1>. SUFFICES ASSUME Types, RunInv, FwdInv, AssetInv, [Next]_vars PROVE AssetInv'
    OBVIOUS
  <1>. USE CollectorsAssumption, ItemsAssumption
  <1>1. ASSUME NEW c \in Collectors, NEW a \in Assets, SendAsset(c, a) PROVE AssetInv'
    <2>1. /\ Owner[c] \in Providers /\ a \in left[c] /\ held[Owner[c]] = {}
          /\ left' = [left EXCEPT ![c] = @ \ {a}]
          /\ held' = [held EXCEPT ![Owner[c]] = {a}]
          /\ UNCHANGED <<ctx, got>>
      BY <1>1 DEF SendAsset, AtSelect, sinkVars
    <2>2. /\ \A d \in Collectors : left'[d] = IF d = c THEN left[c] \ {a} ELSE left[d]
          /\ \A p \in Providers : held'[p] = IF p = Owner[c] THEN {a} ELSE held[p]
      BY <2>1 DEF Types
    <2>3. a \in Items[c] /\ \A d \in Collectors \ {c} : a \notin left[d]
      BY <2>1 DEF AssetInv
    <2>4. \A p \in Providers : a \notin held[p]
      BY <2>1 DEF AssetInv
    <2>5. a \notin got
      BY <2>1 DEF AssetInv
    <2>. QED
      BY <2>1, <2>2, <2>3, <2>4, <2>5 DEF AssetInv, AtMostOne
  <1>2. ASSUME NEW p \in Providers, NEW a \in Assets, DeliverAsset(p, a) PROVE AssetInv'
    <2>1. /\ a \in held[p] /\ got' = got \cup {a} /\ UNCHANGED <<ctx, left>>
          /\ held' = [held EXCEPT ![p] = {}]
      BY <1>2 DEF DeliverAsset, provVars
    <2>2. \A q \in Providers : held'[q] = IF q = p THEN {} ELSE held[q]
      BY <2>1 DEF Types
    <2>3. held[p] = {a} /\ (\A q \in Providers \ {p} : a \notin held[q])
      BY <2>1 DEF AssetInv, AtMostOne
    <2>4. \A c \in Collectors : a \notin left[c]
      BY <2>1 DEF AssetInv
    <2>. QED
      BY <2>1, <2>2, <2>3, <2>4 DEF AssetInv, AtMostOne
  <1>3. ASSUME NEW p \in Providers, FwdCancel(p) PROVE AssetInv'
    <2>1. /\ ctx # "live" /\ UNCHANGED <<ctx, left, got>>
          /\ \A q \in Providers : held'[q] = IF q = p THEN {} ELSE held[q]
      BY <1>3 DEF FwdCancel, provVars, sinkVars, Types
    <2>. QED
      BY <2>1 DEF AssetInv, AtMostOne
  <1>4. ASSUME NEW why \in {"deadline", "canceled"}, CtxEnd(why) PROVE AssetInv'
    BY <1>4 DEF CtxEnd, AssetInv, AtMostOne, provVars, fwdVars, sinkVars
  <1>5. ASSUME NEW c \in Collectors, Returning(c) PROVE AssetInv'
    <2>1. UNCHANGED <<ctx, left, held, got>>
      BY <1>5, ReturningEffect DEF fwdVars, sinkVars
    <2>. QED
      BY <2>1 DEF AssetInv, AtMostOne
  <1>6. CASE UNCHANGED <<ctx, left, held, got>>
    BY <1>6 DEF AssetInv, AtMostOne
  <1>. QED
    BY <1>1, <1>2, <1>3, <1>4, <1>5, <1>6
    DEF Next, Fabric, Collector, Returning, Provider, Forward, Launch, Fail, CloseErrs,
        CloseAssets, RecvErr, DeliverErr, SeeClosed, CloseMerged, vars, provVars, fwdVars,
        sinkVars

\* An error moves from a collector that returns to its provider's channel, to
\* a forwarder that has nothing in hand, and to the consumer.
LEMMA ErrStep == Types /\ RunInv /\ ErrInv /\ [Next]_vars => ErrInv'
  <1>. SUFFICES ASSUME Types, RunInv, ErrInv, [Next]_vars PROVE ErrInv'
    OBVIOUS
  <1>. USE CollectorsAssumption
  <1>1. ASSUME NEW c \in Collectors, Returning(c) PROVE ErrInv'
    <2>1. /\ cs[c] # "done" /\ cs'[c] = "done"
          /\ \A d \in Collectors : cs[d] = "done" => cs'[d] = "done"
          /\ UNCHANGED <<heldErr, reported>>
      BY <1>1, ReturningEffect DEF Finished, fwdVars, sinkVars
    <2>2. \/ errbuf' = errbuf
          \/ errbuf' = [errbuf EXCEPT ![Owner[c]] = @ \cup {c}]
      BY <1>1 DEF Returning, AbandonSend, SwallowCanceled, GiveUpSilently, Finish, EmitErr,
                  DropErr
    <2>3. c \in Of(Owner[c]) /\ Owner[c] \in Providers
      BY DEF Of
    <2>4. \A p \in Providers : c \notin heldErr[p]
      BY <2>1 DEF ErrInv
    <2>5. c \notin reported
      BY <2>1 DEF ErrInv
    <2>6. reported \subseteq Collectors
      BY DEF Types
    <2>7. \A p \in Providers :
            \/ errbuf'[p] = errbuf[p]
            \/ errbuf'[p] = errbuf[p] \cup {c} /\ p = Owner[c]
      BY <2>2 DEF Types
    <2>. QED
      BY <2>1, <2>3, <2>4, <2>5, <2>6, <2>7 DEF ErrInv, AtMostOne, Of
  <1>2. ASSUME NEW p \in Providers, NEW c \in Collectors, RecvErr(p, c) PROVE ErrInv'
    <2>1. /\ \A q \in Providers : /\ errbuf'[q] = IF q = p THEN errbuf[p] \ {c} ELSE errbuf[q]
                                  /\ heldErr'[q] = IF q = p THEN {c} ELSE heldErr[q]
          /\ c \in errbuf[p] /\ UNCHANGED <<cs, reported>>
      BY <1>2 DEF RecvErr, Types, sinkVars
    <2>. QED
      BY <2>1 DEF ErrInv, AtMostOne
  <1>3. ASSUME NEW p \in Providers, NEW c \in Collectors, DeliverErr(p, c) PROVE ErrInv'
    <2>1. /\ \A q \in Providers : heldErr'[q] = IF q = p THEN {} ELSE heldErr[q]
          /\ c \in heldErr[p] /\ reported' = reported \cup {c} /\ UNCHANGED <<cs, errbuf>>
      BY <1>3 DEF DeliverErr, Types, provVars
    <2>2. Owner[c] = p
      BY <2>1 DEF ErrInv, Of
    <2>3. \A q \in Providers : q # p => c \notin errbuf[q] /\ c \notin heldErr[q]
      BY <2>2 DEF ErrInv, Of
    <2>4. cs[c] = "done" /\ c \notin errbuf[p]
      BY <2>1 DEF ErrInv
    <2>. QED
      BY <2>1, <2>3, <2>4 DEF ErrInv, AtMostOne
  <1>4. ASSUME NEW p \in Providers, FwdCancel(p) PROVE ErrInv'
    <2>1. /\ \A q \in Providers : heldErr'[q] = IF q = p THEN {} ELSE heldErr[q]
          /\ UNCHANGED <<cs, errbuf, reported>>
      BY <1>4 DEF FwdCancel, Types, provVars, sinkVars
    <2>. QED
      BY <2>1 DEF ErrInv, AtMostOne
  <1>5. ASSUME NEW c \in Collectors, Launch(c) \/ Fail(c) PROVE ErrInv'
    <2>1. /\ \A d \in Collectors : cs[d] = "done" => cs'[d] = "done"
          /\ UNCHANGED <<errbuf, heldErr, reported>>
      BY <1>5 DEF Launch, Fail, Types, fwdVars, sinkVars
    <2>. QED
      BY <2>1 DEF ErrInv, AtMostOne, Of, Types
  <1>6. CASE UNCHANGED <<cs, errbuf, heldErr, reported>>
    BY <1>6 DEF ErrInv, AtMostOne, Of
  <1>. QED
    BY <1>1, <1>2, <1>3, <1>4, <1>5, <1>6
    DEF Next, Fabric, Collector, Returning, Provider, Forward, CtxEnd, SendAsset, CloseErrs,
        CloseAssets, SeeClosed, DeliverAsset, CloseMerged, vars, provVars, fwdVars, sinkVars

\* While the context is live a collector that stops short either is Optional,
\* or is taken down by its lead's error, or has put its own on its way.
LEMMA ReportStep ==
  Types /\ RunInv /\ ErrInv /\ FailureIsReported /\ [Next]_vars => FailureIsReported'
  <1>. SUFFICES ASSUME Types, RunInv, ErrInv, FailureIsReported, [Next]_vars, ctx' = "live",
                       NEW d \in Collectors \ Optional,
                       cs'[d] \in {"done", "skipped"}, left'[d] # {}
                PROVE  {d, Lead[Owner[d]]} \cap InFlight(Owner[d])' # {}
    BY DEF FailureIsReported
  <1>. USE CollectorsAssumption
  <1>. Owner[d] \in Providers
    OBVIOUS
  <1>. DEFINE Accounted == {d, Lead[Owner[d]]} \cap InFlight(Owner[d]) # {}
  <1>0. ctx = "live" /\ cs[d] \in {"done", "skipped"} /\ left[d] # {} => Accounted
    BY DEF FailureIsReported
  \* An error in flight stays in flight.
  <1>1. ctx = "live" /\ InFlight(Owner[d]) \subseteq InFlight(Owner[d])'
    <2>1. ASSUME NEW p \in Providers, NEW c \in Collectors, RecvErr(p, c)
          PROVE  ctx = "live" /\ InFlight(Owner[d]) \subseteq InFlight(Owner[d])'
      BY <2>1 DEF RecvErr, AtSelect, InFlight, Types, sinkVars
    <2>2. ASSUME NEW p \in Providers, NEW c \in Collectors, DeliverErr(p, c)
          PROVE  ctx = "live" /\ InFlight(Owner[d]) \subseteq InFlight(Owner[d])'
      BY <2>2 DEF DeliverErr, InFlight, Types, ErrInv, AtMostOne, provVars
    <2>3. ASSUME NEW c \in Collectors, Returning(c)
          PROVE  ctx = "live" /\ InFlight(Owner[d]) \subseteq InFlight(Owner[d])'
      <3>1. UNCHANGED <<ctx, heldErr, reported>>
        BY <2>3, ReturningEffect DEF fwdVars, sinkVars
      <3>2. \A p \in Providers : errbuf[p] \subseteq errbuf'[p]
        BY <2>3 DEF Returning, AbandonSend, SwallowCanceled, GiveUpSilently, Finish, EmitErr,
                    DropErr, Types
      <3>. QED
        BY <3>1, <3>2 DEF InFlight
    <2>4. CASE UNCHANGED <<ctx, errbuf, heldErr, reported>>
      BY <2>4 DEF InFlight
    <2>. QED
      BY <2>1, <2>2, <2>3, <2>4
      DEF Next, Fabric, Collector, Returning, Provider, Forward, CtxEnd, Launch, Fail,
          SendAsset, CloseErrs, CloseAssets, SeeClosed, FwdCancel, DeliverAsset, CloseMerged,
          vars, provVars, fwdVars, sinkVars
  <1>2. CASE cs[d] \in {"done", "skipped"} /\ left[d] # {}
    BY <1>0, <1>1, <1>2
  <1>3. left'[d] \subseteq left[d]
    <2>1. ASSUME NEW c \in Collectors, NEW a \in Assets, SendAsset(c, a)
          PROVE  left'[d] \subseteq left[d]
      BY <2>1 DEF SendAsset, Types
    <2>2. ASSUME NEW c \in Collectors, Returning(c) PROVE left'[d] \subseteq left[d]
      BY <2>2, ReturningEffect
    <2>3. CASE UNCHANGED left
      BY <2>3
    <2>. QED
      BY <2>1, <2>2, <2>3
      DEF Next, Fabric, Collector, Returning, Provider, Forward, CtxEnd, Launch, Fail,
          RecvErr, DeliverErr, CloseErrs, CloseAssets, SeeClosed, FwdCancel, DeliverAsset,
          CloseMerged, vars, provVars
  \* Otherwise d stops with this step, and some collector c returns.
  <1>4. CASE cs[d] \notin {"done", "skipped"}
    <2>1. PICK c \in Collectors : Returning(c)
      <3>1. cs'[d] # cs[d]
        BY <1>4
      <3>2. \A c \in Collectors : ~Launch(c) /\ ~Fail(c)
        BY <1>4 DEF Launch, Fail, Types
      <3>. QED
        BY <3>1, <3>2
        DEF Next, Fabric, Collector, Returning, Provider, Forward, CtxEnd, SendAsset,
            RecvErr, DeliverErr, CloseErrs, CloseAssets, SeeClosed, FwdCancel, DeliverAsset,
            CloseMerged, vars, provVars
    <2>2. c \in Fan(Owner[c]) \/ c = Lead[Owner[c]]
      BY DEF Fan, Of
    <2>3. CASE EmitErr(c)
      <3>1. c \in InFlight(Owner[c])'
        BY <2>3 DEF EmitErr, InFlight, Types
      <3>2. d = c \/ (c = Lead[Owner[c]] /\ d \in Of(Owner[c]))
        BY <1>4, <2>3 DEF EmitErr, Returns, LeadReturns, Types
      <3>. QED
        BY <3>1, <3>2 DEF Of
    <2>4. CASE GiveUpSilently(c) \/ Finish(c)
      <3>1. d = c
        BY <1>4, <2>4 DEF GiveUpSilently, Finish, Returns, LeadReturns, Types
      <3>. QED
        BY <1>3, <2>4, <3>1 DEF GiveUpSilently, Finish
    <2>5. ~(AbandonSend(c) \/ SwallowCanceled(c) \/ DropErr(c))
      BY <1>1 DEF AbandonSend, SwallowCanceled, DropErr
    <2>. QED
      BY <2>1, <2>3, <2>4, <2>5 DEF Returning
  <1>. QED
    BY <1>2, <1>3, <1>4

LEMMA InvInit == Init => IInv
  <1>. SUFFICES ASSUME Init PROVE IInv
    OBVIOUS
  <1>. USE CollectorsAssumption, ItemsAssumption
  <1>1. TypeOK /\ Types
    BY TypeInit DEF TypeOK
  <1>2. RunInv
    BY DEF Init, RunInv, Fan, Of
  <1>3. FwdInv
    BY DEF Init, FwdInv
  <1>4. AssetInv
    BY DEF Init, AssetInv, AtMostOne
  <1>5. ErrInv
    BY DEF Init, ErrInv, AtMostOne
  <1>6. FailureIsReported
    BY DEF Init, FailureIsReported
  <1>. QED
    BY <1>1, <1>2, <1>3, <1>4, <1>5, <1>6 DEF IInv

LEMMA InvStep == IInv /\ [Next]_vars => IInv'
  BY TypeStep, RunStep, FwdStep, AssetStep, ErrStep, ReportStep DEF IInv, TypeOK

LEMMA Invariant == Spec => []IInv
  BY InvInit, InvStep, PTL DEF Spec

-----------------------------------------------------------------------------
(* The safety properties.                                                  *)

\* For any providers and collectors: with a live context no asset is lost
\* between its collector and the consumer, and under any none is in two places.
THEOREM NothingIsLost == Spec => []NothingLost
  <1>1. IInv => NothingLost
    <2>. SUFFICES ASSUME IInv PROVE NothingLost
      OBVIOUS
    <2>1. ctx = "live" => Assets = Left \cup Held \cup got
      BY DEF IInv, TypeOK, Types, AssetInv, Left, Held
    <2>2. Left \cap Held = {} /\ Left \cap got = {} /\ Held \cap got = {}
      BY DEF IInv, AssetInv, Left, Held
    <2>. QED
      BY <2>1, <2>2 DEF NothingLost
  <1>. QED
    BY <1>1, Invariant, PTL

\* For any providers and collectors: while the context is live, whatever a
\* collector that is not Optional did not send is accounted for by an error.
THEOREM EveryFailureReported == Spec => []FailureIsReported
  BY Invariant, PTL DEF IInv

\* For any providers and collectors: no goroutine is left to send on a channel
\* that has been closed.
THEOREM NoSendOnClosed == Spec => []ClosedHasNoSender
  <1>1. IInv => ClosedHasNoSender
    BY DEF IInv, RunInv, FwdInv, ClosedHasNoSender, Finished, Held
  <1>. QED
    BY <1>1, Invariant, PTL

-----------------------------------------------------------------------------
(* The implementation of the abstract stream.                              *)

\* The merged pair may be closed: with a live context, every provider has
\* delivered its inventory or had an error reported.
LEMMA CloseIsJustified ==
  ASSUME IInv, \A p \in Providers : fwd[p] = "done"
  PROVE  ctx # "live" \/ \A p \in Providers : Promise!Delivered(p) \/ Promise!Failed(p)
  <1>. SUFFICES ASSUME ctx = "live", NEW p \in Providers, ~Promise!Failed(p)
                PROVE  Inventory[p] \subseteq got
    BY DEF Promise!Delivered
  <1>. USE CollectorsAssumption, ItemsAssumption DEF IInv
  <1>1. /\ run[p] = "closed" /\ errbuf[p] = {} /\ heldErr[p] = {}
        /\ \A q \in Providers : held[q] = {}
    BY DEF FwdInv
  <1>2. \A c \in Of(p) : cs[c] \in Finished
    BY <1>1 DEF RunInv
  <1>3. InFlight(p) = reported /\ \A c \in Of(p) : c \notin reported
    BY <1>1 DEF InFlight, Promise!Failed, Of
  <1>4. \A c \in Of(p) \ Optional : left[c] = {}
    BY <1>2, <1>3 DEF FailureIsReported, Finished, Of
  <1>5. \A c \in Of(p) \ Optional : Items[c] \subseteq got
    BY <1>1, <1>4 DEF AssetInv, Of
  <1>. QED
    BY <1>5 DEF Inventory

\* Every step of the detailed collection is a step of the stream or leaves the
\* merged pair, and what was taken from it, alone.
LEMMA StreamStep == IInv /\ [Next]_vars => [Promise!StreamNext]_(Promise!streamVars)
  <1>. SUFFICES ASSUME IInv, [Next]_vars PROVE [Promise!StreamNext]_(Promise!streamVars)
    OBVIOUS
  <1>. USE CollectorsAssumption DEF Promise!streamVars
  <1>1. ASSUME NEW why \in {"deadline", "canceled"}, CtxEnd(why) PROVE Promise!StreamNext
    BY <1>1 DEF CtxEnd, sinkVars, Promise!StreamNext, Promise!CtxEnds, Promise!Endings
  <1>2. ASSUME NEW p \in Providers, NEW a \in Assets, DeliverAsset(p, a)
        PROVE  Promise!StreamNext
    <2>1. out = "open" /\ a \notin got
      BY <1>2 DEF DeliverAsset, IInv, TypeOK, Types, FwdInv, AssetInv
    <2>2. Promise!HandOver(a)
      BY <1>2, <2>1 DEF DeliverAsset, Promise!HandOver
    <2>. QED
      BY <2>2 DEF Promise!StreamNext
  <1>3. ASSUME NEW p \in Providers, NEW c \in Collectors, DeliverErr(p, c)
        PROVE  Promise!StreamNext
    <2>1. out = "open" /\ c \notin reported
      BY <1>3 DEF DeliverErr, IInv, TypeOK, Types, FwdInv, ErrInv
    <2>2. Promise!Report(c)
      BY <1>3, <2>1 DEF DeliverErr, Promise!Report
    <2>. QED
      BY <2>2 DEF Promise!StreamNext
  <1>4. ASSUME CloseMerged PROVE Promise!StreamNext
    BY <1>4, CloseIsJustified
    DEF CloseMerged, sinkVars, Promise!StreamNext, Promise!CloseAssetChan, Promise!CloseErrChan
  <1>5. ASSUME NEW c \in Collectors, Returning(c) PROVE UNCHANGED Promise!streamVars
    BY <1>5 DEF Returning, AbandonSend, SwallowCanceled, GiveUpSilently, Finish, EmitErr,
                DropErr, sinkVars
  <1>. QED
    BY <1>1, <1>2, <1>3, <1>4, <1>5
    DEF Next, Fabric, Collector, Returning, Provider, Forward, Launch, Fail, SendAsset,
        CloseErrs, CloseAssets, RecvErr, SeeClosed, FwdCancel, vars, sinkVars

\* For any providers and collectors, the collection keeps the promise the
\* commands and handlers build on: nothing handed over twice, and the pair
\* closed with a live context only when every provider delivered or failed.
THEOREM CollectionImplementsStream == Spec => ImplementsMergedStream
  <1>1. Init => Promise!StreamInit
    BY DEF Init, Promise!StreamInit
  <1>. QED
    BY <1>1, StreamStep, Invariant, PTL
    DEF Spec, ImplementsMergedStream, Promise!StreamSpec

-----------------------------------------------------------------------------
(* Listing.                                                                *)

\* Under a live context no request has failed with the context's own error,
\* so the wrapper never mistakes a failure for a cancellation; and a collector
\* that returned without an error met only failures it keeps quiet.
QuietInv ==
  /\ DOMAIN pc = C /\ DOMAIN causes = C
  /\ \A c \in C : "canceled" \notin mix[c].silent
  /\ runCtx = "live" =>
       /\ once \notin {"canceled", "expired"}
       /\ \A c \in C : \A x \in causes[c] : x[2] # "canceled"
  /\ RealFailureSurfaces

-----------------------------------------------------------------------------
(* What the steps of one collector leave alone.                            *)

\* Moving on changes the state of this collector only, and ends in a state
\* from which it still has to pass the wrapper.
LEMMA MovingOn ==
  ASSUME NEW c \in C, DOMAIN pc = C, pc[c] # "done",
         Return(c) \/ NextPhase(c) \/ NextPlace(c)
                   \/ (pc' = [pc EXCEPT ![c] = "list"])
                   \/ (pc' = pc)
  PROVE  /\ DOMAIN pc' = C
         /\ pc'[c] # "done"
         /\ \A d \in C : d # c => pc'[d] = pc[d]
<1>1. CASE Return(c)
  BY <1>1 DEF Return
<1>2. ASSUME NextPhase(c)
      PROVE  /\ DOMAIN pc' = C
             /\ pc'[c] # "done"
             /\ \A d \in C : d # c => pc'[d] = pc[d]
  <2>1. Return(c) \/ pc' = [pc EXCEPT ![c] = "enter"]
    BY <1>2 DEF NextPhase
  <2> QED  BY <2>1 DEF Return
<1>3. CASE NextPlace(c)
  <2>1. NextPhase(c) \/ pc' = pc
    BY <1>3 DEF NextPlace
  <2> QED  BY <2>1, <1>2
<1> QED  BY <1>1, <1>2, <1>3

\* Recording a failure adds it to this collector's, or drops it.
LEMMA Recording ==
  ASSUME NEW c \in C, NEW answer, DOMAIN causes = C, Record(c, answer)
  PROVE  /\ DOMAIN causes' = C
         /\ \A d \in C : d # c => causes'[d] = causes[d]
         /\ \A x \in causes'[c] : x \in causes[c] \/ x[2] = answer
<1>1. CASE causes' = causes
  BY <1>1
<1>2. CASE causes' = [causes EXCEPT ![c] = @ \cup {<<Place(c), answer>>}]
  BY <1>2
<1> QED  BY <1>1, <1>2 DEF Record

\* What a collector that is not yet done does before the wrapper preserves the
\* invariant, if the failure it may record is not the context's.
LEMMA BeforeTheWrapper ==
  ASSUME QuietInv, NEW c \in C, pc[c] # "done",
         UNCHANGED <<config, runCtx, once, shown>>,
         DOMAIN pc' = C, pc'[c] # "done",
         \A d \in C : d # c => pc'[d] = pc[d],
         DOMAIN causes' = C,
         \A d \in C : d # c => causes'[d] = causes[d],
         runCtx = "live" => \A x \in causes'[c] : x \in causes[c] \/ x[2] # "canceled"
  PROVE  QuietInv'
<1> USE DEF QuietInv, C, config
<1>1. C' = C
  OBVIOUS
<1>2. runCtx' = "live" => \A d \in C : \A x \in causes'[d] : x[2] # "canceled"
  OBVIOUS
<1>3. RealFailureSurfaces'
  <2> SUFFICES ASSUME NEW d \in C, Silent(d)', NEW x \in causes'[d]
               PROVE  x[2] \in mix'[d].silent
    BY <1>1 DEF RealFailureSurfaces
  <2>1. d # c
    BY DEF Silent
  <2>2. Silent(d)
    BY <2>1 DEF Silent
  <2> QED  BY <2>1, <2>2 DEF RealFailureSurfaces
<1> QED  BY <1>1, <1>2, <1>3

-----------------------------------------------------------------------------
\* Before its first request a collector has met nothing.
LEMMA QuietStart == ListingInit => QuietInv
<1> SUFFICES ASSUME ListingInit
             PROVE  QuietInv
  OBVIOUS
<1>1. \A c \in C : "canceled" \notin mix[c].silent
  BY ListingAssumption DEF ListingInit, C
<1> QED  BY <1>1 DEF ListingInit, QuietInv, RealFailureSurfaces, Silent, C

\* No step returns without an error from a failure that is to be reported.
LEMMA QuietStep == QuietInv /\ [ListingNext]_listingVars => QuietInv'
<1> SUFFICES ASSUME QuietInv, [ListingNext]_listingVars
             PROVE  QuietInv'
  OBVIOUS
<1> USE DEF config, shared, own
<1>1. CASE UNCHANGED listingVars
  BY <1>1 DEF listingVars, QuietInv, RealFailureSurfaces, Silent, C
<1>2. ASSUME NEW why \in {"canceled", "expired"}, CtxEnds(why)
      PROVE  QuietInv'
  BY <1>2 DEF CtxEnds, QuietInv, RealFailureSurfaces, Silent, C
<1>3. CASE TakeAccountsPage
  BY <1>3 DEF TakeAccountsPage, QuietInv, RealFailureSurfaces, Silent, C
<1>4. ASSUME NEW a, FailAccounts(a)
      PROVE  QuietInv'
  BY <1>4 DEF FailAccounts, CtxAnswers, QuietInv, RealFailureSurfaces, Silent, C
<1>5. ASSUME NEW c \in C, Collect(c)
      PROVE  QuietInv'
  <2>0. DOMAIN pc = C /\ DOMAIN causes = C
    BY DEF QuietInv
  <2>1. CASE BeginAccounts(c)
    BY <2>1 DEF BeginAccounts, QuietInv, RealFailureSurfaces, Silent, C
  \* No failure is recorded.
  <2>2. CASE \/ StartAccounts(c) \/ PrintAccounts(c) \/ UseNamespace(c)
             \/ StartPlaces(c) \/ Answer(c) \/ StopSending(c)
    <3>1. pc[c] # "done" /\ UNCHANGED <<config, runCtx, once, shown, causes>>
      BY <2>2 DEF StartAccounts, PrintAccounts, UseNamespace, StartPlaces,
                  Answer, StopSending, AccountsReady, NeedsAccounts
    <3>2. Return(c) \/ NextPhase(c) \/ NextPlace(c)
                    \/ (pc' = [pc EXCEPT ![c] = "list"]) \/ (pc' = pc)
      BY <2>2 DEF StartAccounts, PrintAccounts, UseNamespace, StartPlaces,
                  Answer, StopSending
    <3> QED  BY <2>0, <3>1, <3>2, MovingOn, BeforeTheWrapper
  \* A failure is recorded: whose answer it is.
  <2>3. CASE Diagnose(c)
    <3>1. pc[c] # "done" /\ UNCHANGED <<config, runCtx, once, shown>> /\ Return(c)
      BY <2>3 DEF Diagnose, AccountsReady, NeedsAccounts
    <3>2. Record(c, "none") \/ UNCHANGED causes
      BY <2>3 DEF Diagnose
    <3>3. DOMAIN causes' = C /\ (\A d \in C : d # c => causes'[d] = causes[d])
            /\ \A x \in causes'[c] : x \in causes[c] \/ x[2] = "none"
      BY <2>0, <3>2, Recording
    <3> QED  BY <2>0, <3>1, <3>3, MovingOn, BeforeTheWrapper
  <2>4. CASE LoseAccounts(c)
    <3>1. pc[c] # "done" /\ UNCHANGED <<config, runCtx, once, shown>> /\ Return(c)
      BY <2>4 DEF LoseAccounts, AccountsLost, NeedsAccounts
    <3>2. Record(c, once)
      BY <2>4 DEF LoseAccounts
    <3>3. runCtx = "live" => once # "canceled"
      BY DEF QuietInv
    <3>4. DOMAIN causes' = C /\ (\A d \in C : d # c => causes'[d] = causes[d])
            /\ \A x \in causes'[c] : x \in causes[c] \/ x[2] = once
      BY <2>0, <3>2, Recording
    <3> QED  BY <2>0, <3>1, <3>3, <3>4, MovingOn, BeforeTheWrapper
  <2>5. CASE ListZones(c)
    <3>1. pc[c] # "done" /\ UNCHANGED <<config, runCtx, once, shown>> /\ NextPhase(c)
      BY <2>5 DEF ListZones
    <3>2. UNCHANGED causes \/ \E answer \in {"failed"} \cup CtxAnswers : Record(c, answer)
      BY <2>5 DEF ListZones
    <3>3. DOMAIN causes' = C /\ (\A d \in C : d # c => causes'[d] = causes[d])
            /\ \A x \in causes'[c] : x \in causes[c] \/ x[2] \in {"failed"} \cup CtxAnswers
      BY <2>0, <3>2, Recording
    <3>4. runCtx = "live" => "canceled" \notin {"failed"} \cup CtxAnswers
      BY DEF CtxAnswers
    <3> QED  BY <2>0, <3>1, <3>3, <3>4, MovingOn, BeforeTheWrapper
  <2>6. CASE MissNamespace(c) \/ FailCall(c)
    <3>1. pc[c] # "done" /\ UNCHANGED <<config, runCtx, once, shown>>
      BY <2>6 DEF MissNamespace, FailCall
    <3>2. Return(c) \/ NextPlace(c)
      BY <2>6 DEF MissNamespace, FailCall
    <3>3. PICK answer \in BadAnswers(c) : Record(c, answer)
      BY <2>6 DEF MissNamespace, FailCall
    <3>4. DOMAIN causes' = C /\ (\A d \in C : d # c => causes'[d] = causes[d])
            /\ \A x \in causes'[c] : x \in causes[c] \/ x[2] = answer
      BY <2>0, <3>3, Recording
    <3>5. runCtx = "live" => answer # "canceled"
      BY DEF BadAnswers, CtxAnswers, QuietInv
    <3> QED  BY <2>0, <3>1, <3>2, <3>4, <3>5, MovingOn, BeforeTheWrapper
  <2>7. CASE AnswerStuck(c)
    <3>1. pc[c] # "done" /\ UNCHANGED <<config, runCtx, once, shown>>
      BY <2>7 DEF AnswerStuck
    <3>2. Return(c) /\ Record(c, "stuck")
      BY <2>7 DEF AnswerStuck
    <3>3. DOMAIN causes' = C /\ (\A d \in C : d # c => causes'[d] = causes[d])
            /\ \A x \in causes'[c] : x \in causes[c] \/ x[2] = "stuck"
      BY <2>0, <3>2, Recording
    <3> QED  BY <2>0, <3>1, <3>2, <3>3, MovingOn, BeforeTheWrapper
  <2>8. CASE Settle(c)
    <3> USE DEF C
    <3>1. UNCHANGED <<config, runCtx, once, causes>> /\ pc' = [pc EXCEPT ![c] = "done"]
      BY <2>8 DEF Settle
    <3>2. SUFFICES ASSUME NEW d \in C, Silent(d)', NEW x \in causes[d]
                   PROVE  x[2] \in mix[d].silent
      BY <3>1 DEF QuietInv, RealFailureSurfaces
    <3>3. CASE d # c
      <4>1. Silent(d)
        BY <2>0, <2>8, <3>1, <3>2, <3>3 DEF Silent, Settle
      <4> QED  BY <4>1 DEF QuietInv, RealFailureSurfaces
    <3>4. CASE d = c
      <4>1. runCtx = "live" /\ Surfacing(c) = {}
        BY <2>8, <3>1, <3>2, <3>4 DEF Silent, Settle
      <4>2. x[2] # "canceled" /\ \A y \in causes[c] : y[2] # "canceled"
        BY <4>1, <3>4 DEF QuietInv
      <4>3. {y[2] : y \in causes[c]} \ mix[c].silent = {}
        BY <4>1, <4>2 DEF Surfacing
      <4> QED  BY <4>3, <3>4
    <3> QED  BY <3>3, <3>4
  <2> QED  BY <1>5, <2>1, <2>2, <2>3, <2>4, <2>5, <2>6, <2>7, <2>8 DEF Collect
<1> QED  BY <1>1, <1>2, <1>3, <1>4, <1>5 DEF ListingNext, FetchAccounts

-----------------------------------------------------------------------------
\* Whatever the services answer, in every order of all collectors of a
\* provider: while the context is live, a collector that returns without an
\* error met no failure but those it is meant to keep quiet about (the wrapper
\* in Provider.run, filterServiceDisabled, listResource, collectACL).
THEOREM QuietOnlyAboutQuietCauses == ListingSpec => []RealFailureSurfaces
<1>1. QuietInv => RealFailureSurfaces
  BY DEF QuietInv
<1> QED  BY QuietStart, QuietStep, <1>1, PTL DEF ListingSpec

-----------------------------------------------------------------------------
(* What a silent collector has covered.                                    *)

\* A failure that must surface; RealFailureSurfaces is about these.
Real(c) == \E x \in causes[c] : x[2] \notin mix[c].silent

\* The number of places collector c owes in phase i.
Places(c, i) ==
  CASE mix[c].phases[i] = "accounts" -> Len(visible)
    [] mix[c].phases[i] = "zones" -> Len(Zones)
    [] mix[c].phases[i] = "target" -> 1
    [] OTHER -> 0

Covered(c, p) ==
  \/ Whole(c, p)
  \/ \E x \in causes[c] : x[1] = p \/ (mix[c].failing = "return" /\ Before(x[1], p))

\* A row of the table, as the assumptions describe it.
Rows ==
  /\ Len(Zones) \in Nat /\ Len(visible) \in Nat /\ MaxCalls \in Nat \ {0}
  /\ \A c \in C :
       /\ mix[c].silent \subseteq {"disabled", "refused", "absent", "stuck"}
       /\ Len(mix[c].phases) \in Nat \ {0}
       /\ DOMAIN mix[c].phases = 1..Len(mix[c].phases)
       /\ \A i \in DOMAIN mix[c].phases : mix[c].phases[i] = "zones" => mix[c].phases[1] = "zonelist"
       /\ \A i \in DOMAIN mix[c].phases :
            mix[c].phases[i] \in {"accounts", "diagnosis"} => i = Len(mix[c].phases)
       /\ ~mix[c].asks => Len(mix[c].phases) = 1
       /\ "stuck" \in mix[c].silent => mix[c].failing = "return"
       /\ \A i \in DOMAIN mix[c].phases :
            mix[c].phases[i] = "namespace" => mix[c].failing = "return"

Walking ==
  /\ DOMAIN pc = C /\ DOMAIN causes = C /\ DOMAIN read = C /\ DOMAIN zs = C
  /\ DOMAIN pos = C
  /\ \A c \in C : pos[c] \in (DOMAIN mix[c].phases) \X (Nat \ {0}) \X (Nat \ {0})

\* Where collector c is tells what it has covered.
Progress(c) ==
  runCtx = "live" /\ ~Real(c) =>
    /\ pc[c] \in {"enter", "list", "return", "done"}
    /\ pc[c] \in {"enter", "list"} => \A p \in Owed(c) : Before(p, Place(c)) => Covered(c, p)
    /\ pc[c] = "enter" => pos[c][2] = 1 /\ pos[c][3] = 1
    /\ pc[c] = "list" => /\ Phase(c) \in {"accounts", "zones", "target"}
                         /\ Phase(c) = "accounts" => once = "ok"
                         /\ pos[c][3] <= Calls(c)
                         /\ \A k \in 1..(pos[c][3] - 1) : <<pos[c][1], pos[c][2], k>> \in read[c]
    /\ pc[c] \in {"return", "done"} => \A p \in Owed(c) : Covered(c, p)
    /\ (pos[c][1] > 1 \/ pc[c] \in {"return", "done"}) /\ mix[c].phases[1] = "zonelist" =>
         zs[c] = Zones

\* What a collector owes are elements of its phases.
LEMMA OwedPlaces ==
  ASSUME Rows, NEW c \in C
  PROVE  /\ \A p \in Owed(c) : \E i \in DOMAIN mix[c].phases : \E j \in 1..Places(c, i) : p = <<i, j>>
         /\ \A i \in DOMAIN mix[c].phases : Places(c, i) \in Nat
  BY DEF Owed, Places, Rows

\* The elements of the phase a collector is listing are those it owes.
LEMMA ElementsAreOwed ==
  ASSUME Rows, Walking, AccountListIsWhole, NEW c \in C, Progress(c), runCtx = "live", ~Real(c),
         \/ pc[c] = "list"
         \/ pc[c] = "enter" /\ (Phase(c) \in {"zones", "target"}
                                \/ (Phase(c) = "accounts" /\ once = "ok"))
  PROVE  Len(Elements(c)) = Places(c, pos[c][1]) /\ (Elements(c) = <<>> => Len(Elements(c)) = 0)
  <1>1. pos[c][1] \in DOMAIN mix[c].phases
    BY DEF Walking
  <1>2. CASE Phase(c) = "accounts"
    BY <1>2 DEF Progress, AccountListIsWhole, Elements, Places, Phase
  <1>3. CASE Phase(c) = "zones"
    <2>1. mix[c].phases[1] = "zonelist"
      BY <1>1, <1>3 DEF Rows, Phase
    <2>2. pos[c][1] > 1
      BY <1>1, <1>3, <2>1 DEF Phase, Rows
    <2>. QED
      BY <1>3, <2>1, <2>2 DEF Progress, Elements, Places, Phase
  <1>4. CASE Phase(c) = "target"
    BY <1>4 DEF Elements, Places, Phase
  <1>. QED
    BY <1>2, <1>3, <1>4 DEF Progress

-----------------------------------------------------------------------------
(* Moving on keeps what is covered.                                        *)

\* Coverage never shrinks.
LEMMA CoveredStays ==
  ASSUME NEW c \in C, UNCHANGED config, read[c] \subseteq read'[c], causes[c] \subseteq causes'[c]
  PROVE  /\ \A p : Covered(c, p) => Covered(c, p)'
         /\ Real(c) => Real(c)'
         /\ Owed(c)' = Owed(c)
  BY DEF Covered, Whole, Calls, Real, Owed, config

\* A collector that has covered all it owes may return.
LEMMA ReturnKeeps ==
  ASSUME Rows, Walking, NEW c \in C, UNCHANGED config, Return(c),
         \A p \in Owed(c) : Covered(c, p)',
         mix[c].phases[1] = "zonelist" => zs'[c] = Zones
  PROVE  Progress(c)'
  <1>1. pc'[c] = "return" /\ Owed(c)' = Owed(c) /\ mix' = mix
    BY DEF Return, Walking, Owed, config
  <1>. QED
    BY <1>1 DEF Progress

\* A collector that has covered its phase may go on to the next one.
LEMMA LeavingPhase ==
  ASSUME Rows, Walking, NEW c \in C, UNCHANGED config, NextPhase(c),
         \A p \in Owed(c) : p[1] <= pos[c][1] => Covered(c, p)',
         mix[c].phases[1] = "zonelist" => zs'[c] = Zones
  PROVE  Progress(c)'
  <1>1. pos[c][1] \in 1..Len(mix[c].phases) /\ Len(mix[c].phases) \in Nat
    BY DEF Walking, Rows
  <1>2. \A p \in Owed(c) : p[1] \in 1..Len(mix[c].phases) /\ p[2] \in Nat /\ p[2] >= 1
    BY OwedPlaces DEF Rows
  <1>3. CASE pos[c][1] = Len(mix[c].phases)
    <2>1. Return(c)
      BY <1>3 DEF NextPhase
    <2>2. \A p \in Owed(c) : p[1] <= pos[c][1]
      BY <1>2, <1>3
    <2>. QED
      BY <2>1, <2>2, ReturnKeeps
  <1>4. CASE pos[c][1] # Len(mix[c].phases)
    <2>1. /\ pos' = [pos EXCEPT ![c] = <<pos[c][1] + 1, 1, 1>>]
          /\ pc' = [pc EXCEPT ![c] = "enter"]
      BY <1>4 DEF NextPhase
    <2>2. pos'[c] = <<pos[c][1] + 1, 1, 1>> /\ pc'[c] = "enter"
      BY <2>1 DEF Walking
    <2>3. \A p \in Owed(c) : Before(p, <<pos[c][1] + 1, 1>>) => p[1] <= pos[c][1]
      BY <1>1, <1>2 DEF Before
    <2>4. Owed(c)' = Owed(c) /\ mix' = mix
      BY DEF Owed, config
    <2>5. Place(c)' = <<pos[c][1] + 1, 1>>
      BY <2>2 DEF Place
    <2>6. \A p \in Owed(c) : Before(p, <<pos[c][1] + 1, 1>>) => Covered(c, p)'
      BY <2>3
    <2>7. \A p \in Owed(c)' : Before(p, Place(c))' => Covered(c, p)'
      BY <2>4, <2>5, <2>6 DEF Before
    <2>. QED
      BY <2>2, <2>4, <2>7 DEF Progress
  <1>. QED
    BY <1>3, <1>4

\* Past a place that is covered to the next one, or out of the phase.
LEMMA LeavingPlace ==
  ASSUME Rows, Walking, NEW c \in C, UNCHANGED <<config, once>>, NextPlace(c),
         runCtx = "live", ~Real(c), Progress(c), pc[c] = "list",
         Len(Elements(c)) = Places(c, pos[c][1]),
         \A p \in Owed(c) : Before(p, Place(c)) \/ p = Place(c) => Covered(c, p)',
         zs'[c] = zs[c]
  PROVE  Progress(c)'
  <1>1. pos[c][1] \in 1..Len(mix[c].phases) /\ pos[c][2] \in Nat \ {0}
    BY DEF Walking, Rows
  <1>2. \A p \in Owed(c) : \E i \in DOMAIN mix[c].phases : \E j \in 1..Places(c, i) : p = <<i, j>>
    BY OwedPlaces
  <1>3. ~GivesUp(c)
    BY DEF GivesUp
  <1>4. Places(c, pos[c][1]) \in Nat
    BY <1>1, OwedPlaces DEF Rows
  <1>5. mix[c].phases[1] = "zonelist" => zs[c] = Zones
    <2>1. mix[c].phases[1] = "zonelist" => pos[c][1] # 1
      BY DEF Progress, Phase
    <2>. QED
      BY <1>1, <2>1 DEF Progress
  <1>6. CASE pos[c][2] < Len(Elements(c))
    <2>1. pos' = [pos EXCEPT ![c] = <<pos[c][1], pos[c][2] + 1, 1>>] /\ pc' = pc
      BY <1>3, <1>6 DEF NextPlace
    <2>2. pos'[c] = <<pos[c][1], pos[c][2] + 1, 1>>
      BY <2>1 DEF Walking
    <2>3. Place(c)' = <<pos[c][1], pos[c][2] + 1>> /\ Phase(c)' = Phase(c) /\ Owed(c)' = Owed(c)
          /\ mix' = mix /\ Calls(c)' = Calls(c)
      BY <2>2 DEF Place, Phase, Owed, Calls, config
    <2>4. \A p \in Owed(c) : Before(p, <<pos[c][1], pos[c][2] + 1>>)
                               => Before(p, Place(c)) \/ p = Place(c)
      BY <1>1, <1>2 DEF Before, Place, Rows
    <2>5. \A p \in Owed(c)' : Before(p, Place(c))' => Covered(c, p)'
      BY <2>3, <2>4 DEF Before
    <2>6. Calls(c) >= 1
      BY DEF Calls, Rows
    <2>. QED
      BY <1>1, <1>5, <2>1, <2>2, <2>3, <2>5, <2>6 DEF Progress
  <1>7. CASE ~(pos[c][2] < Len(Elements(c)))
    <2>1. NextPhase(c)
      BY <1>7 DEF NextPlace
    <2>2. \A p \in Owed(c) : p[1] <= pos[c][1] => Before(p, Place(c)) \/ p = Place(c)
      BY <1>1, <1>2, <1>4, <1>7, SMTT(30) DEF Before, Place, Rows
    <2>. QED
      BY <1>5, <2>1, <2>2, LeavingPhase
  <1>. QED
    BY <1>6, <1>7

\* An answer is recorded at the place it was asked for, and nothing is forgotten.
LEMMA Recorded ==
  ASSUME Walking, NEW c \in C, NEW answer, Record(c, answer), answer # "canceled"
  PROVE  /\ causes' = [causes EXCEPT ![c] = causes[c] \cup {<<Place(c), answer>>}]
         /\ causes[c] \subseteq causes'[c]
         /\ <<Place(c), answer>> \in causes'[c]
  BY DEF Record, Walking

\* A place comes before the current one, is it, or comes after it.
LEMMA PlacesAreOrdered ==
  ASSUME Rows, Walking, NEW c \in C, NEW p \in Owed(c)
  PROVE  /\ Before(p, Place(c)) \/ p = Place(c) \/ Before(Place(c), p)
         /\ pos[c][2] = 1 /\ Places(c, pos[c][1]) = 0 =>
              p # Place(c) /\ (p[1] <= pos[c][1] => Before(p, Place(c)))
  <1>0. PICK i \in DOMAIN mix[c].phases : \E j \in 1..Places(c, i) : p = <<i, j>>
    BY OwedPlaces
  <1>1. PICK j \in 1..Places(c, i) : p = <<i, j>>
    BY <1>0
  <1>2. i \in Nat /\ Places(c, i) \in Nat
    BY OwedPlaces DEF Rows
  <1>3. pos[c][1] \in Nat /\ pos[c][2] \in Nat \ {0} /\ Place(c) = <<pos[c][1], pos[c][2]>>
    BY DEF Walking, Rows, Place
  <1>. QED
    BY <1>1, <1>2, <1>3 DEF Before

\* Into the places of a phase, or past a phase that has none.
LEMMA Starting ==
  ASSUME Rows, Walking, AccountListIsWhole, NEW c \in C, Progress(c),
         runCtx = "live", ~Real(c), pc[c] = "enter",
         Phase(c) \in {"zones", "target"} \/ (Phase(c) = "accounts" /\ once = "ok"),
         UNCHANGED <<config, once, zs, read, causes>>,
         IF Elements(c) = <<>> THEN NextPhase(c)
         ELSE pc' = [pc EXCEPT ![c] = "list"] /\ UNCHANGED pos
  PROVE  Progress(c)'
  <1>1. Len(Elements(c)) = Places(c, pos[c][1]) /\ (Elements(c) = <<>> => Len(Elements(c)) = 0)
    BY ElementsAreOwed
  <1>2. \A p : Covered(c, p) => Covered(c, p)'
    BY CoveredStays
  <1>3. pos[c][1] \in Nat \ {0} /\ (mix[c].phases[1] = "zonelist" => pos[c][1] # 1)
    BY DEF Walking, Rows, Phase
  <1>4. CASE Elements(c) = <<>>
    <2>1. \A p \in Owed(c) : p[1] <= pos[c][1] => Covered(c, p)'
      BY <1>1, <1>2, <1>4, PlacesAreOrdered DEF Progress
    <2>2. mix[c].phases[1] = "zonelist" => zs'[c] = Zones
      BY <1>3 DEF Progress
    <2>. QED
      BY <1>4, <2>1, <2>2, LeavingPhase
  <1>5. CASE Elements(c) # <<>>
    <2>1. pc'[c] = "list" /\ pos' = pos
      BY <1>5 DEF Walking
    <2>2. /\ Place(c)' = Place(c) /\ Phase(c)' = Phase(c) /\ Owed(c)' = Owed(c)
          /\ mix' = mix /\ Calls(c)' = Calls(c)
      BY <2>1 DEF Place, Phase, Owed, Calls, config
    <2>3. \A p \in Owed(c)' : Before(p, Place(c))' => Covered(c, p)'
      BY <1>2, <2>2 DEF Progress, Before
    <2>4. pos[c][3] = 1 /\ Calls(c) >= 1
      BY DEF Progress, Calls, Rows
    <2>. QED
      BY <1>3, <2>1, <2>2, <2>3, <2>4 DEF Progress
  <1>. QED
    BY <1>4, <1>5

\* A recorded failure covers its place, and what comes after it where it ends
\* the listing.
LEMMA FailureCovers ==
  ASSUME Rows, Walking, NEW c \in C, Progress(c), runCtx = "live", ~Real(c),
         pc[c] \in {"enter", "list"}, UNCHANGED config, NEW answer,
         read[c] \subseteq read'[c], Record(c, answer), answer # "canceled"
  PROVE  /\ \A p \in Owed(c) : Before(p, Place(c)) \/ p = Place(c) => Covered(c, p)'
         /\ mix[c].failing = "return" => \A p \in Owed(c) : Covered(c, p)'
  <1>1. causes[c] \subseteq causes'[c] /\ <<Place(c), answer>> \in causes'[c]
    BY Recorded
  <1>2. \A p : Covered(c, p) => Covered(c, p)'
    BY <1>1, CoveredStays
  <1>4. \A p \in Owed(c) : p = Place(c) => Covered(c, p)'
    BY <1>1 DEF Covered
  <1>5. \A p \in Owed(c) : Before(p, Place(c)) => Covered(c, p)'
    BY <1>2 DEF Progress
  <1>6. mix'[c].failing = mix[c].failing
    BY DEF config
  <1>7. \A p \in Owed(c) : mix[c].failing = "return" /\ Before(Place(c), p) => Covered(c, p)'
    <2>. SUFFICES ASSUME NEW p \in Owed(c), mix[c].failing = "return", Before(Place(c), p)
                  PROVE  Covered(c, p)'
      OBVIOUS
    <2>. DEFINE x == <<Place(c), answer>>
    <2>1. x \in causes'[c] /\ Before(x[1], p) /\ mix'[c].failing = "return"
      BY <1>1, <1>6
    <2>. QED
      BY <2>1 DEF Covered, Before
  <1>. QED
    BY <1>4, <1>5, <1>7, PlacesAreOrdered

\* A quiet collector past its zone listing knows every zone.
LEMMA ZonesAreKnown ==
  ASSUME Rows, Walking, NEW c \in C, Progress(c), runCtx = "live", ~Real(c),
         Phase(c) # "zonelist"
  PROVE  mix[c].phases[1] = "zonelist" => zs[c] = Zones
  BY DEF Progress, Walking, Rows, Phase

\* A step of a collector keeps its own account: what it owes and has passed is covered.
LEMMA ProgressOfOne ==
  ASSUME Rows, Walking, QuietInv, AccountListIsWhole, NEW c \in C, Progress(c), Collect(c),
         once \in {"no", "busy", "ok", "failed", "canceled", "expired"}
  PROVE  Progress(c)'
  <1>. SUFFICES ASSUME runCtx' = "live", ~Real(c)' PROVE Progress(c)'
    BY DEF Progress
  <1>0. /\ UNCHANGED <<config, runCtx>> /\ runCtx = "live" /\ CtxAnswers = {}
        /\ BadAnswers(c) = (mix[c].silent \ {"stuck"}) \cup {"failed"}
        /\ "failed" \notin mix[c].silent /\ "none" \notin mix[c].silent
        /\ "canceled" \notin BadAnswers(c)
    BY DEF Collect, BeginAccounts, StartAccounts, PrintAccounts, Diagnose, LoseAccounts, ListZones,
           UseNamespace, MissNamespace, StartPlaces, Answer, AnswerStuck, FailCall, StopSending,
           Settle, CtxAnswers, BadAnswers, Rows
  <1>00. ~Real(c)
    <2>1. causes[c] \subseteq causes'[c]
      <3>1. ASSUME NEW answer, Record(c, answer) PROVE causes[c] \subseteq causes'[c]
        BY <3>1 DEF Record, Walking
      <3>. QED
        BY <3>1
        DEF Collect, BeginAccounts, StartAccounts, PrintAccounts, Diagnose, LoseAccounts,
            ListZones, UseNamespace, MissNamespace, StartPlaces, Answer, AnswerStuck, FailCall,
            StopSending, Settle, own
    <2>. QED
      BY <1>0, <2>1 DEF Real, config
  <1>1. ASSUME NEW answer, Record(c, answer), answer # "canceled", answer \notin mix[c].silent
        PROVE  FALSE
    <2>. DEFINE x == <<Place(c), answer>>
    <2>1. x \in causes'[c] /\ x[2] \notin mix'[c].silent
      BY <1>0, <1>1, Recorded DEF config
    <2>. QED
      BY <2>1 DEF Real
  <1>2. ~GivesUp(c)
    BY <1>0 DEF GivesUp
  <1>3. CASE BeginAccounts(c)
    <2>1. UNCHANGED <<mix, visible, own>> /\ once = "no" /\ NeedsAccounts(c)
      BY <1>3 DEF BeginAccounts, config
    <2>. QED
      BY <1>0, <1>00, <2>1
      DEF Progress, NeedsAccounts, own, Phase, Place, Calls, Owed, Covered, Whole
  <1>4. CASE StartAccounts(c)
    <2>1. pc[c] = "enter" /\ Phase(c) = "accounts" /\ once = "ok" /\ UNCHANGED <<once, zs, read, causes>>
      BY <1>4 DEF StartAccounts, AccountsReady, NeedsAccounts, shared
    <2>2. Elements(c) = accounts
      BY <2>1 DEF Elements
    <2>. QED
      BY <1>0, <1>00, <1>2, <1>4, <2>1, <2>2, Starting DEF StartAccounts
  <1>5. CASE StartPlaces(c)
    <2>1. pc[c] = "enter" /\ Phase(c) \in {"zones", "target"} /\ UNCHANGED <<once, zs, read, causes>>
      BY <1>5 DEF StartPlaces, shared
    <2>. QED
      BY <1>0, <1>00, <1>2, <1>5, <2>1, Starting DEF StartPlaces
  <1>6. CASE PrintAccounts(c)
    <2>1. /\ pc[c] = "enter" /\ Phase(c) = "accounts" /\ once = "ok" /\ ~mix[c].asks
          /\ Return(c) /\ UNCHANGED <<zs, causes>>
      BY <1>6 DEF PrintAccounts, AccountsReady, NeedsAccounts
    <2>0. PICK n \in 0..Len(accounts) :
            /\ runCtx = "live" => n = Len(accounts)
            /\ read' = [read EXCEPT ![c] = FirstAccounts(c, n)]
      BY <1>6 DEF PrintAccounts
    <2>2. mix[c].phases[1] = "accounts" /\ DOMAIN mix[c].phases = {1}
      BY <2>1 DEF Rows, Walking, Phase
    <2>3. Places(c, 1) = Len(accounts)
      BY <2>1, <2>2 DEF Places, AccountListIsWhole
    <2>4. read'[c] = FirstAccounts(c, Len(accounts))
      BY <1>0, <2>0 DEF Walking
    <2>5. ASSUME NEW p \in Owed(c) PROVE Covered(c, p)'
      <3>1. PICK j \in 1..Len(accounts) : p = <<1, j>>
        BY <2>2, <2>3, OwedPlaces
      <3>2. \A k \in 1..Calls(c) : <<p[1], p[2], k>> \in read'[c]
        BY <2>4, <3>1 DEF FirstAccounts
      <3>3. Calls(c)' = Calls(c)
        BY <1>0 DEF Calls, config
      <3>. QED
        BY <3>2, <3>3 DEF Covered, Whole
    <2>. QED
      BY <1>0, <2>1, <2>2, <2>5, ReturnKeeps
  <1>7. CASE Diagnose(c)
    <2>1. /\ pc[c] = "enter" /\ Phase(c) = "diagnosis" /\ Return(c) /\ UNCHANGED <<zs, read>>
          /\ UNCHANGED causes
      BY <1>0, <1>1, <1>7 DEF Diagnose, AccountsReady, NeedsAccounts
    <2>2. pos[c][1] = Len(mix[c].phases) /\ Places(c, pos[c][1]) = 0
      BY <2>1 DEF Rows, Walking, Phase, Places
    <2>3. \A p \in Owed(c) : p[1] <= pos[c][1]
      BY <2>2, OwedPlaces DEF Rows
    <2>4. \A p \in Owed(c) : Covered(c, p)'
      BY <1>0, <1>00, <2>1, <2>2, <2>3, PlacesAreOrdered, CoveredStays DEF Progress
    <2>. QED
      BY <1>0, <1>00, <2>1, <2>4, ReturnKeeps, ZonesAreKnown
  <1>8. CASE LoseAccounts(c)
    <2>1. Record(c, once) /\ once = "failed"
      BY <1>0, <1>8 DEF LoseAccounts, AccountsLost, QuietInv
    <2>. QED
      BY <1>0, <1>1, <2>1
  <1>9. CASE ListZones(c)
    <2>1. /\ pc[c] = "enter" /\ Phase(c) = "zonelist" /\ NextPhase(c) /\ UNCHANGED <<read, causes>>
          /\ zs' = [zs EXCEPT ![c] = Zones]
      BY <1>0, <1>1, <1>9 DEF ListZones
    <2>2. Places(c, pos[c][1]) = 0 /\ zs'[c] = Zones
      BY <2>1 DEF Places, Phase, Walking
    <2>3. \A p \in Owed(c) : p[1] <= pos[c][1] => Covered(c, p)'
      BY <1>0, <1>00, <2>1, <2>2, PlacesAreOrdered, CoveredStays DEF Progress
    <2>. QED
      BY <1>0, <2>1, <2>2, <2>3, LeavingPhase
  <1>10. CASE UseNamespace(c)
    <2>1. pc[c] = "enter" /\ Phase(c) = "namespace" /\ NextPhase(c) /\ UNCHANGED <<zs, read, causes>>
      BY <1>10 DEF UseNamespace
    <2>2. Places(c, pos[c][1]) = 0
      BY <2>1 DEF Places, Phase
    <2>3. \A p \in Owed(c) : p[1] <= pos[c][1] => Covered(c, p)'
      BY <1>0, <1>00, <2>1, <2>2, PlacesAreOrdered, CoveredStays DEF Progress
    <2>. QED
      BY <1>0, <1>00, <2>1, <2>3, LeavingPhase, ZonesAreKnown
  <1>11. CASE MissNamespace(c)
    <2>1. pc[c] = "enter" /\ Phase(c) = "namespace" /\ Return(c) /\ UNCHANGED <<zs, read>>
      BY <1>11 DEF MissNamespace
    <2>2. PICK answer \in BadAnswers(c) : Record(c, answer)
      BY <1>11 DEF MissNamespace
    <2>3. mix[c].failing = "return"
      BY <2>1 DEF Rows, Walking, Phase
    <2>4. \A p \in Owed(c) : Covered(c, p)'
      BY <1>0, <1>00, <2>1, <2>2, <2>3, FailureCovers
    <2>. QED
      BY <1>0, <1>00, <2>1, <2>4, ReturnKeeps, ZonesAreKnown
  <1>12. CASE Answer(c)
    <2>1. /\ pc[c] = "list" /\ UNCHANGED <<once, zs, causes>>
          /\ read'[c] = read[c] \cup {pos[c]}
      BY <1>12 DEF Answer, Walking, shared
    <2>2. Len(Elements(c)) = Places(c, pos[c][1])
      BY <1>0, <1>00, <2>1, ElementsAreOwed
    <2>3. pos[c] = <<pos[c][1], pos[c][2], pos[c][3]>> /\ pos[c][3] \in Nat \ {0}
      BY DEF Walking
    <2>4. Calls(c)' = Calls(c) /\ Calls(c) \in Nat
      BY <1>0 DEF Calls, Rows, config
    <2>5. \A k \in 1..pos[c][3] : <<pos[c][1], pos[c][2], k>> \in read'[c]
      BY <1>0, <1>00, <2>1, <2>3 DEF Progress
    <2>6. \A p \in Owed(c) : Before(p, Place(c)) => Covered(c, p)'
      BY <1>0, <1>00, <2>1, CoveredStays DEF Progress
    <2>7. CASE pos[c][3] < Calls(c)
      <3>1. pos' = [pos EXCEPT ![c][3] = pos[c][3] + 1] /\ pc' = pc
        BY <1>12, <2>7 DEF Answer
      <3>2. pos'[c] = <<pos[c][1], pos[c][2], pos[c][3] + 1>>
        BY <2>3, <3>1 DEF Walking
      <3>3. /\ Place(c)' = Place(c) /\ Phase(c)' = Phase(c) /\ Owed(c)' = Owed(c) /\ mix' = mix
        BY <1>0, <3>2 DEF Place, Phase, Owed, config
      <3>4. \A p \in Owed(c)' : Before(p, Place(c))' => Covered(c, p)'
        BY <2>6, <3>3 DEF Before
      <3>. QED
        BY <1>0, <1>00, <2>1, <2>3, <2>4, <2>5, <2>7, <3>1, <3>2, <3>3, <3>4 DEF Progress
    <2>8. CASE ~(pos[c][3] < Calls(c))
      <3>1. NextPlace(c) /\ pos[c][3] = Calls(c)
        BY <1>0, <1>00, <1>12, <2>1, <2>3, <2>4, <2>8 DEF Answer, Progress
      <3>2. \A p \in Owed(c) : p = Place(c) => Covered(c, p)'
        BY <2>4, <2>5, <3>1 DEF Covered, Whole, Place
      <3>. QED
        BY <1>0, <1>00, <2>1, <2>2, <2>6, <3>1, <3>2, LeavingPlace
    <2>. QED
      BY <2>7, <2>8
  <1>13. CASE AnswerStuck(c)
    <2>1. /\ pc[c] = "list" /\ "stuck" \in mix[c].silent /\ Record(c, "stuck") /\ Return(c)
          /\ read[c] \subseteq read'[c] /\ UNCHANGED zs
      BY <1>13 DEF AnswerStuck, Walking
    <2>2. mix[c].failing = "return" /\ Phase(c) # "zonelist"
      BY <1>0, <1>00, <2>1 DEF Rows, Progress
    <2>3. \A p \in Owed(c) : Covered(c, p)'
      BY <1>0, <1>00, <2>1, <2>2, FailureCovers
    <2>. QED
      BY <1>0, <1>00, <2>1, <2>2, <2>3, ReturnKeeps, ZonesAreKnown
  <1>14. CASE FailCall(c)
    <2>1. pc[c] = "list" /\ UNCHANGED <<zs, read, once>>
      BY <1>14 DEF FailCall, shared
    <2>2. PICK answer \in BadAnswers(c) : Record(c, answer)
      BY <1>14 DEF FailCall
    <2>3. Len(Elements(c)) = Places(c, pos[c][1]) /\ Phase(c) # "zonelist"
      BY <1>0, <1>00, <2>1, ElementsAreOwed DEF Progress
    <2>4. /\ \A p \in Owed(c) : Before(p, Place(c)) \/ p = Place(c) => Covered(c, p)'
          /\ mix[c].failing = "return" => \A p \in Owed(c) : Covered(c, p)'
      BY <1>0, <1>00, <2>1, <2>2, FailureCovers
    <2>5. CASE mix[c].failing = "return"
      <3>1. Return(c)
        BY <1>14, <2>5 DEF FailCall
      <3>. QED
        BY <1>0, <1>00, <2>1, <2>3, <2>4, <2>5, <3>1, ReturnKeeps, ZonesAreKnown
    <2>6. CASE mix[c].failing # "return"
      <3>1. NextPlace(c)
        BY <1>14, <2>6 DEF FailCall
      <3>. QED
        BY <1>0, <1>00, <2>1, <2>3, <2>4, <3>1, LeavingPlace
    <2>. QED
      BY <2>5, <2>6
  <1>15. CASE StopSending(c)
    BY <1>0, <1>15 DEF StopSending
  <1>16. CASE Settle(c)
    <2>1. /\ pc[c] = "return" /\ pc'[c] = "done"
          /\ UNCHANGED <<zs, pos, read, causes>>
      BY <1>16 DEF Settle, Walking
    <2>2. Owed(c)' = Owed(c) /\ mix' = mix /\ (\A p : Covered(c, p) => Covered(c, p)')
      BY <1>0, <2>1, CoveredStays DEF config
    <2>. QED
      BY <1>0, <1>00, <2>1, <2>2 DEF Progress
  <1>. QED
    BY <1>3, <1>4, <1>5, <1>6, <1>7, <1>8, <1>9, <1>10, <1>11, <1>12, <1>13, <1>14, <1>15, <1>16
    DEF Collect

-----------------------------------------------------------------------------
(* All collectors together.                                                *)

OnceValues == {"no", "busy", "ok", "failed", "canceled", "expired"}

Walk ==
  /\ Walking
  /\ once \in OnceValues
  /\ \A c \in C : pc[c] = "list" => Phase(c) \in {"accounts", "zones", "target"}

\* Every row of the table is one the walk is defined for.
LEMMA RowsHold == ListingInit => Rows
  <1>. SUFFICES ASSUME ListingInit PROVE Rows
    OBVIOUS
  <1>1. PICK s \in Settings : mix = s.mix /\ visible = s.visible
    BY DEF ListingInit
  <1>2. Len(Zones) \in Nat /\ Len(visible) \in Nat /\ MaxCalls \in Nat \ {0}
    BY <1>1, RowAssumption, ListingAssumption
  <1>3. ASSUME NEW c \in C PROVE
          /\ mix[c].silent \subseteq {"disabled", "refused", "absent", "stuck"}
          /\ mix[c].phases \in Seq(ToSet(mix[c].phases)) /\ mix[c].phases # <<>>
          /\ "zones" \in ToSet(mix[c].phases) => mix[c].phases[1] = "zonelist"
          /\ \A i \in DOMAIN mix[c].phases :
               mix[c].phases[i] \in {"accounts", "diagnosis"} => i = Len(mix[c].phases)
          /\ ~mix[c].asks => Len(mix[c].phases) = 1
          /\ "stuck" \in mix[c].silent \/ "namespace" \in ToSet(mix[c].phases)
               => mix[c].failing = "return"
    BY <1>1, <1>3, RowAssumption, ListingAssumption DEF C
  <1>4. ASSUME NEW c \in C
        PROVE  /\ Len(mix[c].phases) \in Nat \ {0}
               /\ DOMAIN mix[c].phases = 1..Len(mix[c].phases)
               /\ \A i \in DOMAIN mix[c].phases : mix[c].phases[i] \in ToSet(mix[c].phases)
    <2>1. mix[c].phases \in Seq(ToSet(mix[c].phases)) /\ mix[c].phases # <<>>
      BY <1>3
    <2>2. \A i \in DOMAIN mix[c].phases : mix[c].phases[i] \in ToSet(mix[c].phases)
      BY DEF ToSet
    <2>. QED
      BY <2>1, <2>2
  <1>. QED
    BY <1>2, <1>3, <1>4 DEF Rows

\* A move of one collector: where it stands afterwards.
LEMMA MoveLands ==
  ASSUME Rows, Walk, NEW c \in C, UNCHANGED config,
         \/ Return(c) \/ NextPhase(c) \/ NextPlace(c)
         \/ pc' = [pc EXCEPT ![c] = "list"] /\ UNCHANGED pos /\ Phase(c) \in {"accounts", "zones", "target"}
         \/ UNCHANGED <<pc, pos>>
         \/ pos' = [pos EXCEPT ![c][3] = @ + 1] /\ UNCHANGED pc
         \/ pc' = [pc EXCEPT ![c] = "done"] /\ UNCHANGED pos
  PROVE  /\ DOMAIN pc' = C /\ DOMAIN pos' = C
         /\ pos'[c] \in (DOMAIN mix[c].phases) \X (Nat \ {0}) \X (Nat \ {0})
         /\ \A d \in C : d # c => pc'[d] = pc[d] /\ pos'[d] = pos[d]
         /\ pc'[c] = "list" => Phase(c)' \in {"accounts", "zones", "target"}
         /\ pc'[c] = "enter" \/ pos'[c][1] = pos[c][1]
  <1>0. /\ DOMAIN pc = C /\ DOMAIN pos = C
        /\ pos[c] \in (DOMAIN mix[c].phases) \X (Nat \ {0}) \X (Nat \ {0})
        /\ pc[c] = "list" => Phase(c) \in {"accounts", "zones", "target"}
        /\ DOMAIN mix[c].phases = 1..Len(mix[c].phases) /\ Len(mix[c].phases) \in Nat
    BY DEF Walk, Walking, Rows
  <1>. DEFINE Lands == /\ DOMAIN pc' = C /\ DOMAIN pos' = C
                       /\ pos'[c] \in (DOMAIN mix[c].phases) \X (Nat \ {0}) \X (Nat \ {0})
                       /\ \A d \in C : d # c => pc'[d] = pc[d] /\ pos'[d] = pos[d]
                       /\ pc'[c] = "list" => Phase(c)' \in {"accounts", "zones", "target"}
                       /\ pc'[c] = "enter" \/ pos'[c][1] = pos[c][1]
  <1>1. ASSUME Return(c) PROVE Lands
    BY <1>0, <1>1 DEF Return
  <1>2. ASSUME NextPhase(c) PROVE Lands
    <2>1. CASE Return(c)
      BY <1>1, <2>1
    <2>2. CASE /\ pos[c][1] # Len(mix[c].phases)
               /\ pos' = [pos EXCEPT ![c] = <<pos[c][1] + 1, 1, 1>>]
               /\ pc' = [pc EXCEPT ![c] = "enter"]
      BY <1>0, <2>2
    <2>. QED
      BY <1>2, <2>1, <2>2 DEF NextPhase
  <1>3. ASSUME NextPlace(c) PROVE Lands
    <2>1. CASE NextPhase(c)
      BY <1>2, <2>1
    <2>2. CASE pos' = [pos EXCEPT ![c] = <<pos[c][1], pos[c][2] + 1, 1>>] /\ UNCHANGED pc
      BY <1>0, <2>2 DEF Phase, config
    <2>. QED
      BY <1>3, <2>1, <2>2 DEF NextPlace
  <1>4. ASSUME pc' = [pc EXCEPT ![c] = "list"], UNCHANGED pos, Phase(c) \in {"accounts", "zones", "target"}
        PROVE  Lands
    BY <1>0, <1>4 DEF Phase, config
  <1>5. ASSUME UNCHANGED <<pc, pos>> PROVE Lands
    BY <1>0, <1>5 DEF Phase, config
  <1>6. ASSUME pos' = [pos EXCEPT ![c][3] = @ + 1], UNCHANGED pc PROVE Lands
    <2>1. pos'[c] = <<pos[c][1], pos[c][2], pos[c][3] + 1>>
      BY <1>0, <1>6
    <2>. QED
      BY <1>0, <1>6, <2>1 DEF Phase, config
  <1>7. ASSUME pc' = [pc EXCEPT ![c] = "done"], UNCHANGED pos PROVE Lands
    BY <1>0, <1>7
  <1>. QED
    BY <1>1, <1>2, <1>3, <1>4, <1>5, <1>6, <1>7

\* What a step of one collector touches.
Touches(c) ==
  /\ UNCHANGED <<config, runCtx, accounts>>
  /\ once' = once \/ (once = "no" /\ once' = "busy")
  /\ DOMAIN causes' = C /\ DOMAIN read' = C /\ DOMAIN zs' = C /\ DOMAIN pc' = C /\ DOMAIN pos' = C
  /\ \A d \in C : d # c => /\ pc'[d] = pc[d] /\ pos'[d] = pos[d] /\ causes'[d] = causes[d]
                           /\ read'[d] = read[d] /\ zs'[d] = zs[d]
  /\ causes[c] \subseteq causes'[c]
  /\ pos'[c] \in (DOMAIN mix[c].phases) \X (Nat \ {0}) \X (Nat \ {0})
  /\ pc'[c] = "list" => Phase(c)' \in {"accounts", "zones", "target"}
  /\ pc'[c] = "enter" \/ pos'[c][1] = pos[c][1]

\* A collector's step writes its own state, and of the shared state only its own part.
LEMMA CollectTouches ==
  ASSUME Rows, Walk, NEW c \in C, Collect(c)
  PROVE  Touches(c)
  <1>0. DOMAIN causes = C /\ DOMAIN read = C /\ DOMAIN zs = C
    BY DEF Walk, Walking
  <1>1. /\ UNCHANGED <<config, runCtx, accounts>>
        /\ once' = once \/ (once = "no" /\ once' = "busy")
    BY DEF Collect, BeginAccounts, StartAccounts, PrintAccounts, Diagnose, LoseAccounts, ListZones,
           UseNamespace, MissNamespace, StartPlaces, Answer, AnswerStuck, FailCall, StopSending,
           Settle, shared
  <1>2. /\ DOMAIN causes' = C /\ causes[c] \subseteq causes'[c]
        /\ \A d \in C : d # c => causes'[d] = causes[d]
    <2>1. ASSUME NEW answer, Record(c, answer)
          PROVE  /\ DOMAIN causes' = C /\ causes[c] \subseteq causes'[c]
                 /\ \A d \in C : d # c => causes'[d] = causes[d]
      BY <1>0, <2>1 DEF Record
    <2>. QED
      BY <1>0, <2>1
      DEF Collect, BeginAccounts, StartAccounts, PrintAccounts, Diagnose, LoseAccounts, ListZones,
          UseNamespace, MissNamespace, StartPlaces, Answer, AnswerStuck, FailCall, StopSending,
          Settle, own
  <1>3. DOMAIN read' = C /\ \A d \in C : d # c => read'[d] = read[d]
    BY <1>0
    DEF Collect, BeginAccounts, StartAccounts, PrintAccounts, Diagnose, LoseAccounts, ListZones,
        UseNamespace, MissNamespace, StartPlaces, Answer, AnswerStuck, FailCall, StopSending,
        Settle, own
  <1>4. DOMAIN zs' = C /\ \A d \in C : d # c => zs'[d] = zs[d]
    BY <1>0
    DEF Collect, BeginAccounts, StartAccounts, PrintAccounts, Diagnose, LoseAccounts, ListZones,
        UseNamespace, MissNamespace, StartPlaces, Answer, AnswerStuck, FailCall, StopSending,
        Settle, own
  <1>5. \/ Return(c) \/ NextPhase(c) \/ NextPlace(c)
        \/ pc' = [pc EXCEPT ![c] = "list"] /\ UNCHANGED pos /\ Phase(c) \in {"accounts", "zones", "target"}
        \/ UNCHANGED <<pc, pos>>
        \/ pos' = [pos EXCEPT ![c][3] = @ + 1] /\ UNCHANGED pc
        \/ pc' = [pc EXCEPT ![c] = "done"] /\ UNCHANGED pos
    BY DEF Collect, BeginAccounts, StartAccounts, PrintAccounts, Diagnose, LoseAccounts, ListZones,
           UseNamespace, MissNamespace, StartPlaces, Answer, AnswerStuck, FailCall, StopSending,
           Settle, own
  <1>. QED
    BY <1>1, <1>2, <1>3, <1>4, <1>5, MoveLands DEF Touches

\* Every step leaves each collector at a place of its row.
LEMMA WalkStep ==
  ASSUME Rows, Walk, [ListingNext]_listingVars
  PROVE  Walk' /\ Rows'
  <1>. USE DEF OnceValues
  <1>1. CASE \/ UNCHANGED listingVars \/ FetchAccounts
             \/ \E why \in {"canceled", "expired"} : CtxEnds(why)
    BY <1>1, ZenonT(30)
    DEF FetchAccounts, TakeAccountsPage, FailAccounts, CtxEnds, listingVars, shared, own, config,
        Walk, Walking, Rows, Phase, C
  <1>2. ASSUME NEW c \in C, Collect(c) PROVE Walk' /\ Rows'
    <2>1. Touches(c)
      BY <1>2, CollectTouches
    <2>2. C' = C /\ mix' = mix /\ visible' = visible
      BY <2>1 DEF Touches, config, C
    <2>3. \A d \in C : d # c => Phase(d)' = Phase(d)
      BY <2>1, <2>2 DEF Touches, Phase
    <2>4. Walking'
      BY <2>1, <2>2 DEF Touches, Walk, Walking
    <2>5. once' \in OnceValues
      BY <2>1 DEF Touches, Walk
    <2>6. \A d \in C : pc'[d] = "list" => Phase(d)' \in {"accounts", "zones", "target"}
      BY <2>1, <2>3 DEF Touches, Walk
    <2>7. Rows'
      BY <2>2 DEF Rows, C
    <2>. QED
      BY <2>2, <2>4, <2>5, <2>6, <2>7 DEF Walk
  <1>. QED
    BY <1>1, <1>2 DEF ListingNext

\* A collector that does nothing keeps its coverage.
LEMMA ProgressStays ==
  ASSUME NEW d \in C, Progress(d), UNCHANGED config,
         UNCHANGED <<pc[d], pos[d], causes[d], read[d], zs[d]>>,
         runCtx' = runCtx \/ runCtx' # "live", once = "ok" => once' = "ok"
  PROVE  Progress(d)'
  <1>1. /\ Real(d)' = Real(d) /\ Place(d)' = Place(d) /\ Phase(d)' = Phase(d)
        /\ Calls(d)' = Calls(d) /\ Owed(d)' = Owed(d)
        /\ \A p : Covered(d, p)' = Covered(d, p)
    BY DEF Real, Place, Phase, Calls, Owed, Covered, Whole, config
  <1>2. mix' = mix
    BY DEF config
  <1>. QED
    BY <1>1, <1>2 DEF Progress, Before

AllProgress == \A c \in C : Progress(c)

\* Every step keeps the account of every collector, the one that moved and the others.
LEMMA AllProgressStep ==
  ASSUME Rows, Walk, QuietInv, AccountListIsWhole, AllProgress, [ListingNext]_listingVars
  PROVE  AllProgress'
  <1>1. CASE \/ UNCHANGED listingVars \/ FetchAccounts
             \/ \E why \in {"canceled", "expired"} : CtxEnds(why)
    <2>1. /\ UNCHANGED <<config, pc, pos, causes, read, zs>>
          /\ runCtx' = runCtx \/ runCtx' # "live"
          /\ once = "ok" => once' = "ok"
      BY <1>1
      DEF FetchAccounts, TakeAccountsPage, FailAccounts, CtxEnds, listingVars, shared, own
    <2>. QED
      BY <2>1, ProgressStays DEF AllProgress, C, config
  <1>2. ASSUME NEW c \in C, Collect(c) PROVE AllProgress'
    <2>1. Touches(c) /\ C' = C
      BY <1>2, CollectTouches DEF Touches, config, C
    <2>2. Progress(c)'
      BY <1>2, ProgressOfOne DEF Walk, OnceValues, AllProgress
    <2>3. \A d \in C : d # c => Progress(d)'
      BY <2>1, ProgressStays DEF Touches, AllProgress
    <2>. QED
      BY <2>1, <2>2, <2>3 DEF AllProgress
  <1>. QED
    BY <1>1, <1>2 DEF ListingNext

\* The diagnostic has returned only after it knew of an account or had a
\* failure that must surface.
Diagnosed ==
  \A c \in C : runCtx = "live" /\ pc[c] # "enter" /\ Phase(c) = "diagnosis" =>
    /\ once \notin {"no", "busy"}
    /\ accounts # <<>> \/ Real(c)

\* The diagnostic still accounts for an empty account list.
LEMMA DiagnosedStep ==
  ASSUME Rows, Walk, QuietInv, Diagnosed, [ListingNext]_listingVars
  PROVE  Diagnosed'
  <1>1. CASE UNCHANGED listingVars
    BY <1>1 DEF Diagnosed, listingVars, config, shared, own, Phase, Real, C
  <1>2. CASE FetchAccounts
    BY <1>2
    DEF FetchAccounts, TakeAccountsPage, FailAccounts, Diagnosed, config, own, Phase, Real, C
  <1>3. ASSUME NEW why \in {"canceled", "expired"}, CtxEnds(why) PROVE Diagnosed'
    BY <1>3 DEF CtxEnds, Diagnosed
  <1>4. ASSUME NEW c \in C, Collect(c) PROVE Diagnosed'
    <2>1. Touches(c) /\ C' = C /\ mix' = mix /\ UNCHANGED <<runCtx, accounts>>
      BY <1>4, CollectTouches DEF Touches, config, C
    <2>2. Real(c) => Real(c)'
      BY <2>1 DEF Touches, Real
    <2>3. \A d \in C : d # c => Real(d)' = Real(d) /\ Phase(d)' = Phase(d)
      BY <2>1 DEF Touches, Real, Phase
    <2>4. ASSUME NEW d \in C, d # c, runCtx' = "live", pc'[d] # "enter", Phase(d)' = "diagnosis"
          PROVE  once' \notin {"no", "busy"} /\ (accounts' # <<>> \/ Real(d)')
      BY <2>1, <2>3, <2>4 DEF Touches, Diagnosed
    <2>5. ASSUME runCtx' = "live", pc'[c] # "enter", Phase(c)' = "diagnosis"
          PROVE  once' \notin {"no", "busy"} /\ (accounts' # <<>> \/ Real(c)')
      <3>1. Phase(c) = "diagnosis"
        BY <2>1, <2>5 DEF Touches, Phase
      <3>2. CASE pc[c] # "enter"
        BY <2>1, <2>2, <2>5, <3>1, <3>2 DEF Diagnosed, Touches
      <3>3. CASE pc[c] = "enter" /\ ~Diagnose(c) /\ ~LoseAccounts(c)
        <4>1. BeginAccounts(c)
          BY <1>4, <3>1, <3>3
          DEF Collect, StartAccounts, PrintAccounts, ListZones, UseNamespace, MissNamespace,
              StartPlaces, Answer, AnswerStuck, FailCall, StopSending, Settle
        <4>. QED
          BY <2>5, <3>3, <4>1 DEF BeginAccounts, own
      <3>4. ASSUME NEW answer, Record(c, answer), answer # "canceled", answer \notin mix[c].silent
            PROVE  Real(c)'
        <4>. DEFINE x == <<Place(c), answer>>
        <4>1. x \in causes'[c] /\ x[2] \notin mix'[c].silent
          BY <2>1, <3>4, Recorded DEF Walk
        <4>. QED
          BY <4>1 DEF Real
      <3>5. "none" \notin mix[c].silent /\ "failed" \notin mix[c].silent
        BY DEF Rows
      <3>6. CASE Diagnose(c)
        BY <2>1, <3>4, <3>5, <3>6 DEF Diagnose, AccountsReady, shared
      <3>7. CASE LoseAccounts(c)
        <4>1. Record(c, once) /\ once = "failed" /\ once' = once
          BY <2>1, <2>5, <3>7 DEF LoseAccounts, AccountsLost, QuietInv, Walk, OnceValues, shared
        <4>. QED
          BY <3>4, <3>5, <4>1
      <3>. QED
        BY <3>2, <3>3, <3>6, <3>7
    <2>. QED
      BY <2>1, <2>4, <2>5 DEF Diagnosed
  <1>. QED
    BY <1>1, <1>2, <1>3, <1>4 DEF ListingNext

-----------------------------------------------------------------------------
WalkInv == Rows /\ Walk /\ QuietInv /\ Diagnosed

\* The invariant of the walk holds when the collectors start.
LEMMA WalkStart == ListingInit => WalkInv /\ AllProgress
  <1>. SUFFICES ASSUME ListingInit PROVE WalkInv /\ AllProgress
    OBVIOUS
  <1>1. Rows /\ QuietInv
    BY RowsHold, QuietStart
  <1>2. Walk /\ Diagnosed
    BY <1>1 DEF ListingInit, Walk, Walking, OnceValues, Diagnosed, Rows, C
  <1>3. ASSUME NEW c \in C PROVE Progress(c)
    <2>1. pc[c] = "enter" /\ pos[c] = <<1, 1, 1>> /\ Place(c) = <<1, 1>>
      BY DEF ListingInit, Place, C
    <2>2. \A p \in Owed(c) : ~Before(p, <<1, 1>>)
      <3>. SUFFICES ASSUME NEW p \in Owed(c) PROVE ~Before(p, <<1, 1>>)
        OBVIOUS
      <3>1. PICK i \in DOMAIN mix[c].phases : \E j \in 1..Places(c, i) : p = <<i, j>>
        BY <1>1, OwedPlaces
      <3>2. i \in Nat \ {0} /\ Places(c, i) \in Nat
        BY <1>1, OwedPlaces DEF Rows
      <3>. QED
        BY <3>1, <3>2 DEF Before
    <2>. QED
      BY <2>1, <2>2 DEF Progress
  <1>. QED
    BY <1>1, <1>2, <1>3 DEF WalkInv, AllProgress

\* The invariant of the walk holds after every step.
LEMMA WalkInvStep == WalkInv /\ [ListingNext]_listingVars => WalkInv'
  BY WalkStep, QuietStep, DiagnosedStep DEF WalkInv

-----------------------------------------------------------------------------
(* The list of accounts.                                                   *)

\* How many accounts come before page p.
Earlier(p) == IF p > LastPage THEN Len(visible) ELSE (p - 1) * PageSize

\* While it is fetched the list is what comes before the page asked for.
ListInv ==
  /\ visible \in Seq(ToSet(visible)) /\ IsInjective(visible)
  /\ once = "no" => page = 1
  /\ once \in {"no", "busy"} => page \in 1..(LastPage + 1) /\ accounts = SubSeq(visible, 1, Earlier(page))
  /\ once = "ok" => accounts = visible

\* The pages are as many as the accounts need, and no more.
LEMMA PageCount ==
  ASSUME visible \in Seq(ToSet(visible))
  PROVE  /\ Len(visible) \in Nat /\ LastPage \in Nat
         /\ LastPage * PageSize >= Len(visible)
         /\ Len(visible) > 0 => LastPage >= 1 /\ (LastPage - 1) * PageSize < Len(visible)
         /\ Len(visible) = 0 => LastPage = 0
  <1> DEFINE N == Len(visible)
             M == N + PageSize - 1
  <1>1. N \in Nat /\ PageSize \in Nat \ {0} BY ListingAssumption
  <1>2. LastPage = M \div PageSize BY DEF LastPage
  <1> HIDE DEF N
  <1>3. M \in Nat BY <1>1
  <1> HIDE DEF M
  <1>4. LastPage \in Nat /\ LastPage * PageSize <= M /\ M < LastPage * PageSize + PageSize
    BY <1>1, <1>2, <1>3
  <1>5. /\ LastPage * PageSize >= N
        /\ N > 0 => LastPage >= 1 /\ (LastPage - 1) * PageSize < N
    BY <1>1, <1>4 DEF M
  <1>6. N = 0 => LastPage = 0
    <2> SUFFICES ASSUME N = 0, LastPage >= 1 PROVE FALSE BY <1>4
    <2>1. LastPage * PageSize >= PageSize BY <1>1, <1>4
    <2> QED BY <2>1, <1>1, <1>4 DEF M
  <1> QED BY <1>1, <1>4, <1>5, <1>6 DEF N

\* Each page up to the last holds at least one account, and starts where the one before ended.
LEMMA EarlierInRange ==
  ASSUME visible \in Seq(ToSet(visible)), NEW p \in 1..LastPage
  PROVE  /\ Earlier(p) \in 0..Len(visible) /\ Earlier(p + 1) \in 0..Len(visible)
         /\ Earlier(p) < Len(visible) /\ Earlier(p) < Earlier(p + 1)
         /\ p < LastPage => Earlier(p + 1) = p * PageSize /\ Earlier(p + 1) = Earlier(p) + PageSize
         /\ p = LastPage => Earlier(p + 1) = Len(visible)
         /\ Earlier(p) = (p - 1) * PageSize
  <1> DEFINE N == Len(visible)
  <1>1. N \in Nat /\ LastPage \in Nat /\ PageSize \in Nat \ {0} /\ p \in Nat /\ 1 <= p /\ p <= LastPage
        /\ N > 0 /\ (LastPage - 1) * PageSize < N
    BY PageCount, ListingAssumption
  <1>2. Earlier(p) = (p - 1) * PageSize /\ (p - 1) * PageSize \in Nat BY <1>1 DEF Earlier
  <1> HIDE DEF N
  <1>3. (p - 1) * PageSize <= (LastPage - 1) * PageSize BY <1>1
  <1>4. p < LastPage => p * PageSize <= (LastPage - 1) * PageSize BY <1>1
  <1>5. p * PageSize = (p - 1) * PageSize + PageSize /\ p * PageSize \in Nat BY <1>1
  <1>6. CASE p < LastPage
    <2>1. Earlier(p + 1) = p * PageSize BY <1>1, <1>6 DEF Earlier
    <2>2. p * PageSize < N
      <3> DEFINE a == p * PageSize
                 b == (LastPage - 1) * PageSize
      <3>1. a \in Nat /\ b \in Nat /\ a <= b /\ b < N BY <1>1, <1>4, <1>5, <1>6
      <3> HIDE DEF a, b
      <3>2. a < N BY <3>1, <1>1
      <3> QED BY <3>2 DEF a
    <2> QED BY <2>1, <2>2, <1>1, <1>2, <1>5, <1>6 DEF N
  <1>7. CASE p = LastPage
    <2>1. Earlier(p + 1) = N BY <1>1, <1>7 DEF Earlier, N
    <2> QED BY <2>1, <1>1, <1>2, <1>7 DEF N
  <1> QED BY <1>1, <1>6, <1>7

\* A page that has not been asked for before.
LEMMA NewPage ==
  ASSUME visible \in Seq(ToSet(visible)), IsInjective(visible), NEW p \in 1..LastPage,
         accounts = SubSeq(visible, 1, Earlier(p))
  PROVE  LET result == AccountPage(p)
             added == Filter(result, LAMBDA a : a \notin ToSet(accounts))
         IN /\ added = result /\ result # <<>>
            /\ accounts \o added = SubSeq(visible, 1, Earlier(p + 1))
            /\ Len(result) < PageSize => p = LastPage
  <1> DEFINE N == Len(visible)
             V == ToSet(visible)
             E == Earlier(p)
             F == Earlier(p + 1)
             result == AccountPage(p)
  <1>1. N \in Nat /\ LastPage \in Nat /\ PageSize \in Nat \ {0} /\ p <= LastPage /\ visible # <<>>
    BY PageCount, ListingAssumption
  <1>2. /\ E \in 0..N /\ F \in 0..N /\ E < F /\ E = (p - 1) * PageSize
        /\ F = IF p = LastPage THEN N ELSE p * PageSize
        /\ p < LastPage => F = E + PageSize
    BY <1>1, EarlierInRange
  <1>4. visible \in Seq(V) OBVIOUS
  <1> HIDE DEF E, F, V
  <1>3. result = SubSeq(visible, E + 1, F)
    <2>1. ~(p > LastPage) BY <1>1
    <2>2. result = SubSeq(visible, (p - 1) * PageSize + 1,
                          IF p = LastPage THEN Len(visible) ELSE p * PageSize)
      BY <2>1, <1>1, Zenon DEF AccountPage
    <2> QED BY <2>2, <1>2, Zenon
  <1> HIDE DEF result
  <1>5. /\ result \in Seq(V) /\ Len(result) = F - E
        /\ \A i \in 1..(F - E) : result[i] = visible[E + i]
    <2>1. F \in E..N BY <1>1, <1>2
    <2>2. E \in 0..Len(visible) /\ F \in E..Len(visible) BY <2>1, <1>2
    <2> HIDE DEF N
    <2>3. /\ SubSeq(visible, E + 1, F) \in Seq(V) /\ Len(SubSeq(visible, E + 1, F)) = F - E
          /\ \A i \in 1..(F - E) : SubSeq(visible, E + 1, F)[i] = visible[E + i]
      BY <2>2, <1>4, Stretch
    <2> QED BY <2>3, <1>3
  <1>6. /\ accounts \in Seq(V) /\ Len(accounts) = E
        /\ \A i \in 1..E : accounts[i] = visible[i]
    BY <1>2, <1>4 DEF E
  <1>7. \A i \in 1..Len(result) : result[i] \notin ToSet(accounts)
    <2> SUFFICES ASSUME NEW i \in 1..(F - E), NEW j \in 1..E, result[i] = accounts[j] PROVE FALSE
      BY <1>5, <1>6 DEF ToSet
    <2>1. visible[E + i] = visible[j] BY <1>5, <1>6
    <2> HIDE DEF N
    <2>2. E + i \in 1..N /\ j \in 1..N /\ E + i # j
      <3>1. E \in Nat /\ F \in Nat /\ N \in Nat /\ F <= N BY <1>1, <1>2
      <3>2. i \in Nat /\ 1 <= i /\ i <= F - E /\ j \in Nat /\ 1 <= j /\ j <= E BY <3>1
      <3> QED BY <3>1, <3>2
    <2> USE DEF N
    <2> QED BY <2>1, <2>2, <1>4 DEF IsInjective
  <1>8. Filter(result, LAMBDA a : a \notin ToSet(accounts)) = result
    <2>1. 1..Len(result) \subseteq {i \in DOMAIN result : result[i] \notin ToSet(accounts)}
      BY <1>5, <1>7
    <2> QED BY <2>1, <1>5, AtAll DEF Filter
  <1>9. accounts \o result = SubSeq(visible, 1, F)
    <2> DEFINE x == accounts \o result
               y == SubSeq(visible, 1, F)
    <2>0. E \in Nat /\ F \in Nat /\ F - E \in Nat /\ E + (F - E) = F BY <1>1, <1>2
    <2>1. x \in Seq(V) /\ Len(x) = F
      BY <2>0, <1>5, <1>6
    <2>2. y \in Seq(V) /\ Len(y) = F /\ \A i \in 1..F : y[i] = visible[i]
      BY <1>1, <1>2, <1>4
    <2>3. ASSUME NEW i \in 1..F PROVE x[i] = visible[i]
      <3>1. CASE i <= E
        <4>1. i \in 1..E BY <1>2, <3>1
        <4> QED BY <4>1, <1>5, <1>6
      <3>2. CASE i > E
        <4>1. i - E \in 1..(F - E) /\ E + (i - E) = i BY <1>2, <3>2
        <4>2. \A k \in 1..Len(result) : x[Len(accounts) + k] = result[k] BY <1>5, <1>6
        <4>3. x[E + (i - E)] = result[i - E] BY <4>1, <4>2, <1>5, <1>6, Zenon
        <4> QED BY <4>1, <4>3, <1>5
      <3>3. i \in Nat BY <2>0
      <3>4. i <= E \/ i > E BY <3>3, <2>0
      <3> QED BY <3>1, <3>2, <3>4, Zenon
    <2> HIDE DEF x, y
    <2>4. x = y BY <2>1, <2>2, <2>3
    <2> QED BY <2>4 DEF x, y
  <1>10. Len(result) < PageSize => p = LastPage
    <2> SUFFICES ASSUME p < LastPage PROVE ~(Len(result) < PageSize) BY <1>1
    <2>1. F = E + PageSize /\ Len(result) = F - E /\ E \in Nat BY <1>1, <1>2, <1>5
    <2> QED BY <2>1, <1>1
  <1>11. result # <<>> BY <1>2, <1>5
  <1> QED BY <1>8, <1>9, <1>10, <1>11 DEF result, F

\* What comes after the last page: the last page again, or nothing.
LEMMA OldPage ==
  ASSUME visible \in Seq(ToSet(visible)), accounts = visible
  PROVE  LET result == AccountPage(LastPage + 1)
             added == Filter(result, LAMBDA a : a \notin ToSet(accounts))
         IN added = <<>>
  <1> DEFINE N == Len(visible)
             V == ToSet(visible)
             result == AccountPage(LastPage + 1)
  <1>1. N \in Nat /\ LastPage \in Nat /\ PageSize \in Nat \ {0} BY PageCount, ListingAssumption
  <1>2. result \in Seq(V)
    <2>1. CASE visible = <<>> BY <2>1 DEF AccountPage
    <2>2. CASE visible # <<>>
      <3>1. N > 0 BY <2>2
      <3>2. LastPage >= 1 /\ (LastPage - 1) * PageSize < N BY <3>1, PageCount
      <3>3. (LastPage - 1) * PageSize \in Nat BY <3>2, <1>1
      <3>4. result = SubSeq(visible, (LastPage - 1) * PageSize + 1, N) 
        <4>1. LastPage + 1 > LastPage BY <1>1
        <4> QED BY <4>1, <2>2, Zenon DEF AccountPage
      <3> DEFINE a == (LastPage - 1) * PageSize
      <3> HIDE DEF a, result
      <3>5. SubSeq(visible, a + 1, N) \in Seq(V) BY <3>2, <3>3, <1>1 DEF a
      <3> QED BY <3>4, <3>5 DEF a
    <2> QED BY <2>1, <2>2
  <1> HIDE DEF result
  <1>3. \A i \in 1..Len(result) : result[i] \in V BY <1>2
  <1>4. {i \in DOMAIN result : result[i] \notin ToSet(accounts)} \cap 1..Len(result) = {}
    BY <1>3
  <1> QED BY <1>2, <1>4, AtNone DEF Filter, result

\* Nothing is fetched at first.
LEMMA ListStart == ListingInit => ListInv
  <1> SUFFICES ASSUME ListingInit PROVE ListInv OBVIOUS
  <1>1. visible \in Seq(ToSet(visible)) /\ IsInjective(visible)
    BY ListingAssumption, RowAssumption DEF ListingInit
  <1>2. Len(visible) \in Nat /\ LastPage \in Nat /\ (LastPage = 0 => Len(visible) = 0)
    BY <1>1, PageCount
  <1>3. Earlier(1) = 0 BY <1>2, ListingAssumption DEF Earlier
  <1>4. SubSeq(visible, 1, 0) = <<>> BY <1>1
  <1> QED BY <1>1, <1>2, <1>3, <1>4 DEF ListingInit, ListInv

\* Every page adds the accounts that come next in the account's own order.
LEMMA ListStep == ListInv /\ [ListingNext]_listingVars => ListInv'
  <1> SUFFICES ASSUME ListInv, [ListingNext]_listingVars PROVE ListInv' OBVIOUS
  <1>0. visible' = visible
    BY DEF ListingNext, FetchAccounts, TakeAccountsPage, FailAccounts, CtxEnds, listingVars, config,
           Collect, BeginAccounts, StartAccounts, PrintAccounts, Diagnose, LoseAccounts, ListZones,
           UseNamespace, MissNamespace, StartPlaces, Answer, AnswerStuck, FailCall, StopSending, Settle
  <1>1. LastPage' = LastPage /\ \A p : Earlier(p)' = Earlier(p) BY <1>0 DEF LastPage, Earlier
  <1>2. CASE TakeAccountsPage
    <2> DEFINE result == AccountPage(page)
               added == Filter(result, LAMBDA a : a \notin ToSet(accounts))
               last == Len(result) < PageSize \/ added = <<>>
    <2>1. /\ once = "busy" /\ accounts' = accounts \o added
          /\ once' = IF last THEN "ok" ELSE "busy"
          /\ page' = IF last \/ page > LastPage THEN page ELSE page + 1
      BY <1>2 DEF TakeAccountsPage
    <2>2. /\ visible \in Seq(ToSet(visible)) /\ IsInjective(visible)
          /\ page \in 1..(LastPage + 1) /\ accounts = SubSeq(visible, 1, Earlier(page))
      BY <2>1 DEF ListInv
    <2>3. LastPage \in Nat /\ SubSeq(visible, 1, Len(visible)) = visible BY <2>2, PageCount
    <2>4. CASE page \in 1..LastPage
      <3>1. /\ added # <<>> /\ accounts' = SubSeq(visible, 1, Earlier(page + 1))
            /\ Len(result) < PageSize => page = LastPage
        BY <2>1, <2>2, <2>4, NewPage
      <3>2. Earlier(LastPage + 1) = Len(visible) BY <2>3 DEF Earlier
      <3> HIDE DEF result, added
      <3>3. CASE last
        <4>1. once' = "ok" /\ page = LastPage BY <3>1, <3>3, <2>1
        <4> QED BY <4>1, <3>1, <3>2, <2>2, <2>3, <1>0, <1>1 DEF ListInv
      <3>4. CASE ~last
        <4>1. once' = "busy" /\ page' = page + 1 BY <3>4, <2>1, <2>3, <2>4
        <4>2. page' \in 1..(LastPage + 1) BY <4>1, <2>3, <2>4
        <4> QED BY <4>1, <4>2, <3>1, <2>2, <1>0, <1>1 DEF ListInv
      <3> QED BY <3>3, <3>4
    <2>5. CASE page = LastPage + 1
      <3>1. accounts = visible BY <2>2, <2>3, <2>5 DEF Earlier
      <3>2. added = <<>> BY <3>1, <2>2, <2>5, OldPage
      <3> HIDE DEF result, added
      <3>3. accounts' = visible BY <3>1, <3>2, <2>1, <2>2
      <3>4. once' = "ok" BY <3>2, <2>1
      <3> QED BY <3>3, <3>4, <2>2, <1>0 DEF ListInv
    <2> QED BY <2>2, <2>3, <2>4, <2>5
  <1>3. ASSUME NEW answer \in {"failed", "canceled", "expired"}, FailAccounts(answer)
        PROVE  ListInv'
    <2>1. once' \notin {"no", "busy", "ok"} BY <1>3 DEF FailAccounts
    <2> QED BY <2>1, <1>0 DEF ListInv
  <1>4. CASE UNCHANGED <<page, accounts>> /\ (once' = once \/ (once = "no" /\ once' = "busy"))
    BY <1>4, <1>0, <1>1 DEF ListInv
  <1>5. \/ UNCHANGED <<page, accounts>> /\ (once' = once \/ (once = "no" /\ once' = "busy"))
        \/ TakeAccountsPage \/ \E a \in {"failed", "canceled", "expired"} : FailAccounts(a)
    BY DEF ListingNext, FetchAccounts, CtxEnds, listingVars, shared,
           Collect, BeginAccounts, StartAccounts, PrintAccounts, Diagnose, LoseAccounts, ListZones,
           UseNamespace, MissNamespace, StartPlaces, Answer, AnswerStuck, FailCall, StopSending, Settle
  <1> QED BY <1>2, <1>3, <1>4, <1>5

\* The list every account-scoped collector works from is, once it is there,
\* the token's accounts, each once and in order, whatever their number and the
\* size of a page: also when the last page is full and the service repeats it
\* (listAccounts).
THEOREM AccountListComplete == ListingSpec => []AccountListIsWhole
  <1>1. ListInv => AccountListIsWhole BY DEF ListInv, AccountListIsWhole
  <1> QED BY ListStart, ListStep, <1>1, PTL DEF ListingSpec

-----------------------------------------------------------------------------
\* A collector that returned without an error has listed every place it owes,
\* or met there (or before, where that ends the listing) a cause it is meant to
\* be quiet about.
THEOREM SilenceHasACause == ListingSpec => []SilenceIsJustified
  <1>1. WalkInv /\ AllProgress => SilenceIsJustified
    <2>. SUFFICES ASSUME WalkInv, AllProgress, NEW c \in C, Silent(c), NEW p \in Owed(c)
                  PROVE  \/ Whole(c, p)
                         \/ \E x \in causes[c] :
                              /\ x[2] \in mix[c].silent
                              /\ x[1] = p \/ (mix[c].failing = "return" /\ Before(x[1], p))
      BY DEF SilenceIsJustified
    <2>1. \A x \in causes[c] : x[2] \in mix[c].silent
      BY DEF WalkInv, QuietInv, RealFailureSurfaces
    <2>2. Covered(c, p)
      BY <2>1 DEF AllProgress, Progress, Real, Silent
    <2>. QED
      BY <2>1, <2>2 DEF Covered
  <1>2. /\ AllProgress /\ WalkInv /\ AccountListIsWhole /\ [ListingNext]_listingVars
             => AllProgress'
    BY AllProgressStep DEF WalkInv
  <1>. QED
    BY WalkStart, WalkInvStep, AccountListComplete, <1>1, <1>2, PTL DEF ListingSpec

\* Whatever the service answers: an audit that found no account says so.
THEOREM NoAccountsNoSilence == ListingSpec => []NoAccountsIsExplained
  <1>1. WalkInv => NoAccountsIsExplained
    <2>. SUFFICES ASSUME WalkInv, AllDone, runCtx = "live", accounts = <<>>,
                         NEW c \in C, Phase(c) = "diagnosis", c \notin shown
                  PROVE  FALSE
      BY DEF NoAccountsIsExplained
    <2>1. pc[c] = "done" /\ Silent(c)
      BY DEF AllDone, Silent
    <2>2. Real(c)
      BY <2>1 DEF WalkInv, Diagnosed
    <2>. QED
      BY <2>1, <2>2 DEF WalkInv, QuietInv, RealFailureSurfaces, Real
  <1>. QED
    BY WalkStart, WalkInvStep, <1>1, PTL DEF ListingSpec

-----------------------------------------------------------------------------
(* The types.                                                              *)

\* No move takes a collector past the last request of a place.
LEMMA MoveStaysInRange ==
  ASSUME Rows, Walk, ListingTypeOK, NEW c \in C, UNCHANGED config,
         \/ Return(c) \/ NextPhase(c) \/ NextPlace(c)
         \/ pc' = [pc EXCEPT ![c] = "list"] /\ UNCHANGED pos
         \/ UNCHANGED <<pc, pos>>
         \/ pos[c][3] < Calls(c) /\ pos' = [pos EXCEPT ![c][3] = @ + 1] /\ UNCHANGED pc
         \/ pc' = [pc EXCEPT ![c] = "done"] /\ UNCHANGED pos
  PROVE  /\ pc' \in [C -> {"enter", "list", "return", "done"}]
         /\ pos'[c][3] \in 1..Calls(c)
  <1>0. /\ pc \in [C -> {"enter", "list", "return", "done"}] /\ DOMAIN pos = C
        /\ pos[c] \in (DOMAIN mix[c].phases) \X (Nat \ {0}) \X (1..Calls(c))
        /\ Calls(c) \in Nat \ {0}
    BY DEF ListingTypeOK, Rows, Calls
  <1>1. CASE Return(c)
    BY <1>0, <1>1 DEF Return
  <1>2. CASE pos' = [pos EXCEPT ![c] = <<pos[c][1] + 1, 1, 1>>] /\ pc' = [pc EXCEPT ![c] = "enter"]
    BY <1>0, <1>2
  <1>3. CASE pos' = [pos EXCEPT ![c] = <<pos[c][1], pos[c][2] + 1, 1>>] /\ UNCHANGED pc
    BY <1>0, <1>3
  <1>4. CASE UNCHANGED pos /\ (UNCHANGED pc \/ pc' = [pc EXCEPT ![c] = "list"]
                                            \/ pc' = [pc EXCEPT ![c] = "done"])
    BY <1>0, <1>4
  <1>5. CASE pos[c][3] < Calls(c) /\ pos' = [pos EXCEPT ![c][3] = @ + 1] /\ UNCHANGED pc
    <2>1. pos'[c] = <<pos[c][1], pos[c][2], pos[c][3] + 1>>
      BY <1>0, <1>5
    <2>. QED
      BY <1>0, <1>5, <2>1
  <1>6. CASE NextPhase(c)
    BY <1>1, <1>2, <1>6 DEF NextPhase
  <1>7. CASE NextPlace(c)
    BY <1>3, <1>6, <1>7 DEF NextPlace
  <1>. QED
    BY <1>1, <1>4, <1>5, <1>6, <1>7

\* No step runs past the last page or the last phase.
LEMMA ListingTypeStep ==
  ASSUME Rows, Walk, ListingTypeOK, [ListingNext]_listingVars
  PROVE  ListingTypeOK'
  <1>1. CASE UNCHANGED listingVars
    BY <1>1 DEF listingVars, config, shared, own, ListingTypeOK, LastPage, C, Calls
  <1>2. CASE \E why \in {"canceled", "expired"} : CtxEnds(why)
    BY <1>2 DEF CtxEnds, config, shared, own, ListingTypeOK, LastPage, C, Calls
  <1>3. CASE FetchAccounts
    <2>1. LastPage \in Nat
      BY ListingAssumption DEF LastPage, Rows
    <2>2. /\ page' = page \/ (page' = page + 1 /\ ~(page > LastPage))
          /\ once' \in {"ok", "busy", "failed", "canceled", "expired"}
      <3>1. CASE TakeAccountsPage
        BY <3>1, Zenon DEF TakeAccountsPage
      <3>2. CASE \E a \in {"failed", "canceled", "expired"} : FailAccounts(a)
        BY <3>2 DEF FailAccounts
      <3>. QED
        BY <1>3, <3>1, <3>2 DEF FetchAccounts
    <2>4. page' \in 1..(LastPage + 1)
      BY <2>1, <2>2 DEF ListingTypeOK
    <2>3. UNCHANGED <<config, runCtx, nsKnown, own>>
      BY <1>3 DEF FetchAccounts, TakeAccountsPage, FailAccounts
    <2>. QED
      BY <2>2, <2>3, <2>4 DEF config, own, ListingTypeOK, LastPage, C, Calls
  <1>4. ASSUME NEW c \in C, Collect(c) PROVE ListingTypeOK'
    <2>1. Touches(c)
      BY <1>4, CollectTouches
    <2>2. /\ UNCHANGED <<config, runCtx, page>>
          /\ once' \in {once, "busy"}
          /\ nsKnown' \in {nsKnown, TRUE}
          /\ shown' \subseteq shown \cup {c}
      BY <1>4
      DEF Collect, BeginAccounts, StartAccounts, PrintAccounts, Diagnose, LoseAccounts, ListZones,
          UseNamespace, MissNamespace, StartPlaces, Answer, AnswerStuck, FailCall, StopSending,
          Settle, shared, own
    <2>3. \/ Return(c) \/ NextPhase(c) \/ NextPlace(c)
          \/ pc' = [pc EXCEPT ![c] = "list"] /\ UNCHANGED pos
          \/ UNCHANGED <<pc, pos>>
          \/ pos[c][3] < Calls(c) /\ pos' = [pos EXCEPT ![c][3] = @ + 1] /\ UNCHANGED pc
          \/ pc' = [pc EXCEPT ![c] = "done"] /\ UNCHANGED pos
      BY <1>4
      DEF Collect, BeginAccounts, StartAccounts, PrintAccounts, Diagnose, LoseAccounts, ListZones,
          UseNamespace, MissNamespace, StartPlaces, Answer, AnswerStuck, FailCall, StopSending,
          Settle, own
    <2>4. /\ pc' \in [C -> {"enter", "list", "return", "done"}]
          /\ pos'[c][3] \in 1..Calls(c)
      BY <2>2, <2>3, MoveStaysInRange
    <2>5. C' = C /\ mix' = mix /\ visible' = visible /\ LastPage' = LastPage
      BY <2>2 DEF config, C, LastPage
    <2>6. \A d \in C : Calls(d)' = Calls(d)
      BY <2>5 DEF Calls
    <2>7. \A d \in C : pos'[d] \in (DOMAIN mix[d].phases) \X (Nat \ {0}) \X (1..Calls(d))
      BY <2>1, <2>4 DEF Touches, ListingTypeOK
    <2>. QED
      BY <2>1, <2>2, <2>4, <2>5, <2>6, <2>7 DEF Touches, ListingTypeOK
  <1>. QED
    BY <1>1, <1>2, <1>3, <1>4 DEF ListingNext

\* Whatever the service answers: no collector asks past its last place or the
\* last request of a place, and nobody past the page that repeats the last.
THEOREM ListingTypeCorrect == ListingSpec => []ListingTypeOK
  <1>1. ListingInit => ListingTypeOK /\ Rows /\ Walk
    <2>. SUFFICES ASSUME ListingInit PROVE ListingTypeOK
      BY WalkStart DEF WalkInv
    <2>1. Rows
      BY RowsHold
    <2>2. LastPage \in Nat
      BY <2>1, ListingAssumption DEF LastPage, Rows
    <2>3. \A c \in C : 1 \in DOMAIN mix[c].phases /\ Calls(c) \in Nat \ {0}
      BY <2>1 DEF Rows, Calls
    <2>4. page \in 1..(LastPage + 1)
      BY <2>2 DEF ListingInit
    <2>5. /\ DOMAIN pos = C
          /\ \A c \in C : pos[c] = <<1, 1, 1>>
      BY DEF ListingInit
    <2>6. \A c \in C : pos[c] \in (DOMAIN mix[c].phases) \X (Nat \ {0}) \X (1..Calls(c))
      <3>. SUFFICES ASSUME NEW c \in C
                    PROVE  pos[c] \in (DOMAIN mix[c].phases) \X (Nat \ {0}) \X (1..Calls(c))
        OBVIOUS
      <3>1. 1 \in DOMAIN mix[c].phases /\ 1 \in Nat \ {0} /\ 1 \in 1..Calls(c)
        BY <2>3
      <3>2. pos[c] = <<1, 1, 1>>
        BY <2>5
      <3>. QED
        BY <3>1, <3>2
    <2>7. /\ \E s \in Settings : mix = s.mix /\ visible = s.visible
          /\ runCtx \in {"live", "canceled", "expired"}
          /\ once \in {"no", "busy", "ok", "failed", "canceled", "expired"}
          /\ nsKnown \in BOOLEAN /\ shown \subseteq C
      BY DEF ListingInit
    <2>8. pc \in [C -> {"enter", "list", "return", "done"}]
      BY DEF ListingInit
    <2>. QED
      BY <2>4, <2>5, <2>6, <2>7, <2>8 DEF ListingTypeOK
  <1>2. ListingTypeOK /\ Rows /\ Walk /\ [ListingNext]_listingVars => (ListingTypeOK /\ Rows /\ Walk)'
    BY ListingTypeStep, WalkStep
  <1>. QED
    BY <1>1, <1>2, PTL DEF ListingSpec
=============================================================================
