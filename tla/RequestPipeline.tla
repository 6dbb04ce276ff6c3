-------------------------- MODULE RequestPipeline --------------------------
(***************************************************************************)
(* What the request book-keeping of a connection promises, without pieces, *)
(* counters or a choice of what to ask for next: at most Limit blocks are  *)
(* in flight, a block is asked for at most once, and a block that has      *)
(* landed stays landed.  PieceTrackerSpec implements this specification.   *)
(***************************************************************************)
EXTENDS Integers, FiniteSets

CONSTANTS AllBlocks, Limit

VARIABLES inFlight, landed

pipeline == <<inFlight, landed>>

Init ==
  /\ inFlight = {}
  /\ landed \in SUBSET AllBlocks

\* One more block is asked for.
Ask(b) ==
  /\ b \in AllBlocks \ (inFlight \cup landed)
  /\ Cardinality(inFlight) < Limit
  /\ inFlight' = inFlight \cup {b}
  /\ UNCHANGED landed

\* Blocks arrive, from this peer or, a whole piece at once, through others.
Land(bs) ==
  /\ landed' = landed \cup bs
  /\ inFlight' = inFlight \ bs

Next ==
  \/ \E b \in AllBlocks : Ask(b)
  \/ \E bs \in SUBSET AllBlocks : Land(bs)

Spec == Init /\ [][Next]_pipeline

=============================================================================
