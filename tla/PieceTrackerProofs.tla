------------------------- MODULE PieceTrackerProofs -------------------------
(***************************************************************************)
(* Proofs about PieceTrackerSpec for torrents of any shape and pipelines   *)
(* of any length.                                                          *)
(***************************************************************************)
EXTENDS PieceTrackerSpec, SharedLemmas

-----------------------------------------------------------------------------
(* The invariant.  TypeOK alone is not inductive: that a decrement keeps      *)
(* num_requested a natural needs PipelineCount.                               *)

IInv ==
  /\ TypeOK
  /\ PipelineCount
  /\ OnePieceUnderWay
  /\ tracker.num_requested <= PipelineLen

LEMMA InitInv == Init => IInv
<1> SUFFICES ASSUME Init PROVE IInv
  OBVIOUS
<1>1. PICK bitfield \in SUBSET Pieces : tracker = Update(FromFileInfo, bitfield)
  BY DEF Init
<1>2. tracker =
        [ num_requested |-> 0,
          blocks        |-> [pb \in AllBlocks |->
                               IF pb[1] \in bitfield THEN "Completed" ELSE "UnRequested"],
          requested     |-> None ]
  BY <1>1 DEF Update, FromFileInfo
<1>3. TypeOK
  BY <1>2 DEF TypeOK, Tracker, BlockState, Init
<1>4. PendingRequests(tracker) = {}
  BY <1>2 DEF PendingRequests, InState
<1>5. PipelineCount
  BY <1>2, <1>4, FS_EmptySet DEF PipelineCount
<1>6. OnePieceUnderWay
  BY <1>4 DEF OnePieceUnderWay
<1>7. QED
  BY <1>2, <1>3, <1>5, <1>6, SizesAssumption DEF IInv

\* Landing blocks preserves the invariant, whichever handler lands them.
LEMMA LandInv ==
  ASSUME IInv, NEW S \in SUBSET AllBlocks,
         Lands(tracker, S, tracker'), answer' = answer
  PROVE  IInv'
<1> DEFINE P == PendingRequests(tracker)
<1>1. tracker \in Tracker /\ tracker.num_requested = Cardinality(P)
  BY DEF IInv, TypeOK, PipelineCount
<1>2. /\ PendingRequests(tracker') = P \ S
      /\ \A q : UnRequestedOf(tracker', q) = UnRequestedOf(tracker, q) \ S
  <2> HIDE DEF P
  <2>1. /\ PendingRequests(tracker') = PendingRequests(tracker) \ S
        /\ \A q : UnRequestedOf(tracker', q) = UnRequestedOf(tracker, q) \ S
    BY <1>1, LandEffect
  <2>2. QED
    BY <2>1 DEF P
<1>3. Counted(tracker')
  BY <1>1, LandCounted DEF Counted
<1>4. Cardinality(P \ S) <= Cardinality(P)
  BY BlockSetsFinite, FS_Subset DEF PendingRequests, InState
<1>5. /\ tracker' \in Tracker /\ tracker'.num_requested = Cardinality(P \ S)
      /\ Cardinality(P \ S) \in Nat
  BY <1>2, <1>3 DEF Counted, Tracker
<1>6. OnePieceUnderWay'
  <2>1. tracker'.requested = tracker.requested
    BY DEF Lands
  <2>2. QED
    BY <1>2, <2>1 DEF OnePieceUnderWay, IInv
<1>7. tracker.num_requested <= PipelineLen /\ tracker.num_requested \in Nat
  BY <1>1 DEF IInv, Tracker
<1>8. QED
  BY <1>1, <1>2, <1>3, <1>4, <1>5, <1>6, <1>7, SizesAssumption
     DEF IInv, TypeOK, PipelineCount

LEMMA StepInv == IInv /\ [Next]_vars => IInv'
<1> SUFFICES ASSUME IInv, [Next]_vars PROVE IInv'
  OBVIOUS
<1> USE DEF IInv
<1>0. tracker \in Tracker
  BY DEF TypeOK
<1>1. ASSUME NEW pieces \in SUBSET Pieces, RequestCall(pieces)
      PROVE  IInv'
  <2>1. PICK r \in Request(tracker, pieces) : tracker' = r.tracker /\ answer' = r.answer
    BY <1>1 DEF RequestCall
  <2>2. CASE r = [tracker |-> tracker, answer |-> None]
    BY <2>1, <2>2 DEF TypeOK, PipelineCount, OnePieceUnderWay
  <2>3. CASE /\ r = [tracker |-> [tracker EXCEPT !.requested = None], answer |-> None]
             /\ tracker.requested # None
             /\ UnRequestedOf(tracker, tracker.requested) = {}
    <3>1. /\ tracker' \in Tracker
          /\ tracker'.blocks = tracker.blocks
          /\ tracker'.num_requested = tracker.num_requested
      BY <1>0, <2>1, <2>3 DEF Tracker
    <3>2. OnePieceUnderWay'
      BY <2>3, <3>1 DEF OnePieceUnderWay, UnRequestedOf, PendingRequests, InState
    <3>3. QED
      BY <2>1, <2>3, <3>1, <3>2 DEF TypeOK, PipelineCount, PendingRequests, InState
  <2>4. ASSUME tracker.num_requested < PipelineLen,
               NEW p \in Pieces,
               \/ tracker.requested \in {p, None}
               \/ UnRequestedOf(tracker, tracker.requested) = {},
               Takes(tracker, p, r)
        PROVE  IInv'
    <3>1. PICK pb \in UnRequestedOf(tracker, p) :
            r = [ tracker |-> [ num_requested |-> tracker.num_requested + 1,
                                blocks        |-> [tracker.blocks EXCEPT ![pb] = "Requested"],
                                requested     |-> p ],
                  answer  |-> pb ]
      BY <2>4 DEF Takes
    <3> DEFINE u == [ num_requested |-> tracker.num_requested + 1,
                      blocks        |-> [tracker.blocks EXCEPT ![pb] = "Requested"],
                      requested     |-> p ]
    <3>2. tracker' = u /\ answer' = pb
      <4> HIDE DEF u
      <4>1. r = [tracker |-> u, answer |-> pb]
        BY <3>1 DEF u
      <4>2. QED
        BY <2>1, <4>1
    <3>3. /\ tracker' \in Tracker
          /\ pb \in AllBlocks \ PendingRequests(tracker)
          /\ PendingRequests(tracker') = PendingRequests(tracker) \cup {pb}
          /\ \A q : UnRequestedOf(tracker', q) = UnRequestedOf(tracker, q) \ {pb}
      BY <1>0, <3>2, AskEffect
    <3>4. PipelineCount'
      <4>1. IsFiniteSet(PendingRequests(tracker))
        BY BlockSetsFinite DEF PendingRequests, InState
      <4>2. QED
        BY <3>2, <3>3, <4>1, FS_AddElement DEF PipelineCount
    <3>5. OnePieceUnderWay'
      <4>1. ASSUME NEW q \in Pieces, q # p,
                   UnRequestedOf(tracker', q) # {},
                   OfPiece(q) \cap PendingRequests(tracker') # {}
            PROVE  FALSE
        <5>1. UnRequestedOf(tracker, q) # {}
          BY <3>3, <4>1
        <5>2. OfPiece(q) \cap PendingRequests(tracker) # {}
          BY <3>2, <3>3, <4>1 DEF OfPiece, UnRequestedOf
        <5>3. tracker.requested = q
          BY <5>1, <5>2 DEF OnePieceUnderWay
        <5>4. q # None
          BY Shape, NoneAssumption
        <5>5. QED
          BY <2>4, <4>1, <5>1, <5>3, <5>4
      <4>2. tracker'.requested = p
        BY <3>2
      <4>3. QED
        BY <4>1, <4>2 DEF OnePieceUnderWay
    <3>6. TypeOK'
      BY <3>2, <3>3 DEF TypeOK
    <3>7. (tracker.num_requested <= PipelineLen)'
      BY <1>0, <2>4, <3>2, SizesAssumption DEF Tracker
    <3>8. QED
      BY <3>4, <3>5, <3>6, <3>7
  <2>5. QED
    BY <1>0, <2>2, <2>3, <2>4, RequestResults
<1>2. ASSUME NEW pb \in AllBlocks, Downloaded(pb)
      PROVE  IInv'
  BY <1>0, <1>2, MarkBlockLands, LandInv DEF Downloaded
<1>3. ASSUME NEW p \in Pieces, Completed(p)
      PROVE  IInv'
  BY <1>0, <1>3, MarkPieceLands, LandInv DEF Completed, OfPiece
<1>4. CASE UNCHANGED vars
  BY <1>4 DEF vars, TypeOK, PipelineCount, OnePieceUnderWay
<1>5. QED
  BY <1>1, <1>2, <1>3, <1>4 DEF Next

LEMMA Inductive == Spec => []IInv
BY InitInv, StepInv, PTL DEF Spec

\* num_requested never underflows, whatever completes in whatever order.
THEOREM TypeCorrect == Spec => []TypeOK
BY Inductive, PTL DEF IInv

\* The counter that throttles `request` counts the blocks marked Requested.
THEOREM PipelineCounts == Spec => []PipelineCount
BY Inductive, PTL DEF IInv

\* At most one piece is half requested: `request` finishes what it began.
THEOREM PiecesInTurn == Spec => []OnePieceUnderWay
BY Inductive, PTL DEF IInv

\* `request` never gives up early: finishing a piece falls through to the next.
THEOREM KeepsWorking == Spec => WorkConserving
<1>1. ASSUME TypeOK, NEW pieces \in SUBSET Pieces, RequestCall(pieces), answer' = None
      PROVE  \/ tracker.num_requested >= PipelineLen
             \/ \A p \in pieces : UnRequestedOf(tracker, p) = {}
  BY <1>1, NoneAnswer DEF RequestCall, TypeOK
<1>2. TypeOK =>
        [\A pieces \in SUBSET Pieces :
           RequestCall(pieces) /\ answer' = None =>
             \/ tracker.num_requested >= PipelineLen
             \/ \A p \in pieces : UnRequestedOf(tracker, p) = {}]_vars
  BY <1>1
<1>3. QED
  BY <1>2, TypeCorrect, PTL DEF WorkConserving

-----------------------------------------------------------------------------
(* The tracker implements RequestPipeline. *)

\* Landing a set of blocks is the abstract Land.
LEMMA LandRefines ==
  ASSUME TypeOK, NEW S \in SUBSET AllBlocks, Lands(tracker, S, tracker')
  PROVE  Pipeline!Land(S)
BY LandEffect DEF TypeOK, Pipeline!Land

\* At most PipelineLen blocks are in flight, none is asked for twice on one
\* connection, and nothing completed is ever asked for again.
THEOREM ImplementsPipeline == Spec => PipelineSpec
<1>1. Init => Pipeline!Init
  <2> SUFFICES ASSUME Init PROVE Pipeline!Init
    OBVIOUS
  <2>1. PICK bitfield \in SUBSET Pieces : tracker = Update(FromFileInfo, bitfield)
    BY DEF Init
  <2>2. PendingRequests(tracker) = {}
    BY <2>1 DEF PendingRequests, InState, Update, FromFileInfo
  <2>3. QED
    BY <2>2 DEF Pipeline!Init, InState
<1>2. IInv /\ [Next]_vars => [Pipeline!Next]_(Pipeline!pipeline)
  <2> SUFFICES ASSUME IInv, [Next]_vars
               PROVE  Pipeline!Next \/ UNCHANGED Pipeline!pipeline
    OBVIOUS
  <2>0. TypeOK /\ tracker \in Tracker
    BY DEF IInv, TypeOK
  <2>1. ASSUME tracker'.blocks = tracker.blocks
        PROVE  UNCHANGED Pipeline!pipeline
    BY <2>1 DEF Pipeline!pipeline, PendingRequests, InState
  <2>2. ASSUME NEW pieces \in SUBSET Pieces, RequestCall(pieces)
        PROVE  Pipeline!Next \/ UNCHANGED Pipeline!pipeline
    <3>1. PICK r \in Request(tracker, pieces) : tracker' = r.tracker
      BY <2>2 DEF RequestCall
    <3>2. CASE r = [tracker |-> tracker, answer |-> None]
      BY <2>1, <3>1, <3>2
    <3>3. CASE r = [tracker |-> [tracker EXCEPT !.requested = None], answer |-> None]
      <4>1. tracker' = [tracker EXCEPT !.requested = None]
        BY <3>1, <3>3
      <4>2. QED
        BY <2>0, <2>1, <4>1 DEF Tracker
    <3>4. ASSUME tracker.num_requested < PipelineLen,
                 NEW p \in Pieces, Takes(tracker, p, r)
          PROVE  Pipeline!Next
      <4> DEFINE u(pb) == [ num_requested |-> tracker.num_requested + 1,
                            blocks        |-> [tracker.blocks EXCEPT ![pb] = "Requested"],
                            requested     |-> p ]
      <4>1. PICK pb \in UnRequestedOf(tracker, p) : r = [tracker |-> u(pb), answer |-> pb]
        BY <3>4 DEF Takes
      <4>2. tracker' = u(pb)
        <5> HIDE DEF u
        <5>1. QED
          BY <3>1, <4>1
      <4>3. /\ pb \in AllBlocks \ PendingRequests(tracker)
            /\ pb \notin InState(tracker, "Completed")
            /\ PendingRequests(tracker') = PendingRequests(tracker) \cup {pb}
            /\ InState(tracker', "Completed") = InState(tracker, "Completed")
        BY <2>0, <4>2, AskEffect
      <4>4. Cardinality(PendingRequests(tracker)) < PipelineLen
        BY <3>4 DEF IInv, PipelineCount
      <4>5. Pipeline!Ask(pb)
        <5>1. Pipeline!Cardinality(PendingRequests(tracker)) < PipelineLen
          BY <4>4 DEF Pipeline!Cardinality, Cardinality
        <5>2. QED
          BY <4>3, <5>1 DEF Pipeline!Ask
      <4>6. QED
        BY <4>3, <4>5 DEF Pipeline!Next
    <3>5. QED
      BY <2>0, <3>2, <3>3, <3>4, RequestResults
  <2>3. ASSUME NEW pb \in AllBlocks, Downloaded(pb)
        PROVE  Pipeline!Next
    <3>1. Pipeline!Land({pb})
      BY <2>0, <2>3, MarkBlockLands, LandRefines DEF Downloaded
    <3>2. QED
      BY <3>1 DEF Pipeline!Next
  <2>4. ASSUME NEW p \in Pieces, Completed(p)
        PROVE  Pipeline!Next
    <3>1. OfPiece(p) \in SUBSET AllBlocks
      BY DEF OfPiece
    <3>2. Pipeline!Land(OfPiece(p))
      BY <2>0, <2>4, <3>1, MarkPieceLands, LandRefines DEF Completed
    <3>3. QED
      BY <3>1, <3>2 DEF Pipeline!Next
  <2>5. CASE UNCHANGED vars
    BY <2>1, <2>5 DEF vars
  <2>6. QED
    BY <2>2, <2>3, <2>4, <2>5 DEF Next
<1>3. QED
  BY <1>1, <1>2, Inductive, PTL DEF Spec, PipelineSpec, Pipeline!Spec

=============================================================================
