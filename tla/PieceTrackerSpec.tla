-------------------------- MODULE PieceTrackerSpec --------------------------
(***************************************************************************)
(* One PieceTracker driven the way the write half of a connection drives   *)
(* it: the pieces already on disk are marked first, then requests and      *)
(* completion messages come in any order.                                  *)
(***************************************************************************)
EXTENDS PieceTracker

VARIABLES
  tracker,  \* the PieceTracker
  answer    \* what the last call of `request` returned

vars == <<tracker, answer>>

Init ==
  /\ \E bitfield \in SUBSET Pieces : tracker = Update(FromFileInfo, bitfield)
  /\ answer = None

\* send_one_round asks for a block; `pieces` are the peer's.
RequestCall(pieces) ==
  \E result \in Request(tracker, pieces) :
    /\ tracker' = result.tracker
    /\ answer' = result.answer

\* ThreadUpdate::Downloaded: the read half of this connection stored a block,
\* one that was asked for or one the peer volunteered.
Downloaded(pb) ==
  /\ tracker' = MarkBlockAsDownloaded(tracker, pb)
  /\ UNCHANGED answer

\* ThreadUpdate::Completed: the piece was verified, whoever its blocks came from.
Completed(p) ==
  /\ tracker' = MarkPieceAsDownloaded(tracker, p)
  /\ UNCHANGED answer

Next ==
  \/ \E pieces \in SUBSET Pieces : RequestCall(pieces)
  \/ \E pb \in AllBlocks : Downloaded(pb)
  \/ \E p \in Pieces : Completed(p)

Spec == Init /\ [][Next]_vars

\* The 10 ms timer of write_peer keeps asking a peer that has every piece, and
\* the peer answers what it was asked for.
FairSpec ==
  /\ Spec
  /\ WF_vars(RequestCall(Pieces))
  /\ \A pb \in AllBlocks : WF_vars(pb \in PendingRequests(tracker) /\ Downloaded(pb))

-----------------------------------------------------------------------------
(* Properties. *)

\* Every field has the type the Rust declarations give it; num_requested is a
\* usize, so a decrement too many would leave Nat.
TypeOK ==
  /\ tracker \in Tracker
  /\ answer \in AllBlocks \cup {None}

\* num_requested, which only the calls adjust, is exactly the number of blocks
\* marked Requested: a missed decrement would shrink the pipeline for good, one
\* too many would underflow.
PipelineCount ==
  tracker.num_requested = Cardinality(PendingRequests(tracker))

\* "If a piece has already been requested, but not completed, then we will first
\* try to request a block from that piece": a piece with an outstanding block
\* and blocks still to ask for is the piece under way, so at most one piece is
\* half requested.
OnePieceUnderWay ==
  \A p \in Pieces :
    /\ UnRequestedOf(tracker, p) # {}
    /\ OfPiece(p) \cap PendingRequests(tracker) # {}
    => tracker.requested = p

\* `request` gives up only when the pipeline is full or the peer has nothing
\* left to ask for: finishing the piece under way must fall through to a new
\* piece within the same call.
WorkConserving ==
  [][ \A pieces \in SUBSET Pieces :
        RequestCall(pieces) /\ answer' = None =>
          \/ tracker.num_requested >= PipelineLen
          \/ \A p \in pieces : UnRequestedOf(tracker, p) = {} ]_vars

\* The tracker implements the abstract pipeline: the limit is never exceeded, no
\* block is asked for twice, nothing completed is forgotten.
Pipeline == INSTANCE RequestPipeline
              WITH Limit    <- PipelineLen,
                   inFlight <- PendingRequests(tracker),
                   landed   <- InState(tracker, "Completed")

PipelineSpec == Pipeline!Spec

\* Asked steadily and answered, the tracker gets every block: no state wedges
\* the pipeline.
EveryBlockLands == <>[](InState(tracker, "Completed") = AllBlocks)

=============================================================================
