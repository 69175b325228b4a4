------------------------- MODULE MergedStream_proofs -------------------------
(***************************************************************************)
(* What a caller of runProviders may conclude from the stream's promise    *)
(* alone, whatever it does with the assets.                                *)
(***************************************************************************)
EXTENDS MergedStream, TLAPS

\* The promise outlives the closing step: once the asset channel is closed no
\* asset is handed over and no error reported any more.
EndIsAccounted ==
  /\ StreamTypeOK
  /\ out # "open" /\ ctx = "live" => \A p \in Providers : Delivered(p) \/ Failed(p)

LEMMA StreamTypeStep == StreamTypeOK /\ [StreamNext]_streamVars => StreamTypeOK'
  BY DEF StreamTypeOK, StreamNext, CtxEnds, Endings, HandOver, Report, CloseAssetChan,
         CloseErrChan, streamVars

LEMMA AccountedStep == EndIsAccounted /\ [StreamNext]_streamVars => EndIsAccounted'
  <1>. SUFFICES ASSUME EndIsAccounted, [StreamNext]_streamVars PROVE EndIsAccounted'
    OBVIOUS
  <1>1. StreamTypeOK'
    BY StreamTypeStep DEF EndIsAccounted
  <1>. SUFFICES ASSUME out' # "open", ctx' = "live", NEW p \in Providers
                PROVE  (Delivered(p) \/ Failed(p))'
    BY <1>1 DEF EndIsAccounted
  <1>2. UNCHANGED <<got, reported>> /\ ctx = "live"
    BY DEF StreamNext, CtxEnds, Endings, HandOver, Report, CloseAssetChan, CloseErrChan,
           streamVars
  <1>3. Delivered(p) \/ Failed(p)
    BY <1>2 DEF EndIsAccounted, StreamNext, CtxEnds, HandOver, Report, CloseAssetChan,
                CloseErrChan, streamVars
  <1>. QED
    BY <1>2, <1>3 DEF Delivered, Failed

LEMMA AccountedInit == StreamInit => EndIsAccounted
  BY DEF StreamInit, EndIsAccounted, StreamTypeOK

LEMMA Accounted == StreamSpec => []EndIsAccounted
  BY AccountedInit, AccountedStep, PTL DEF StreamSpec

\* For any providers and inventories: a stream that ends with a live context
\* and without an error has delivered every provider's inventory.
THEOREM CleanEnd == StreamSpec => []CleanEndIsComplete
  <1>1. EndIsAccounted => CleanEndIsComplete
    BY DEF EndIsAccounted, CleanEndIsComplete, Failed
  <1>. QED
    BY <1>1, Accounted, PTL
==============================================================================
