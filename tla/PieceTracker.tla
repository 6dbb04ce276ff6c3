---------------------------- MODULE PieceTracker ----------------------------
(***************************************************************************)
(* The book-keeping of one peer connection: which blocks of which pieces   *)
(* have been asked for and how many answers are outstanding                *)
(* (src/src/peer/pieces.rs).  This module is constant-level: a tracker is  *)
(* a record and every method of the Rust type is an operator on it, so     *)
(* that PieceTrackerSpec can study one tracker alone and PeerSession can   *)
(* own one inside the write half of a connection.                          *)
(*                                                                         *)
(* The Vec<Vec<BlockState>> of the code is one function on the set of all  *)
(* <<piece, block>> pairs: an index outside either vector (the None of     *)
(* `get_mut`) is a pair outside AllBlocks.                                 *)
(***************************************************************************)
EXTENDS Integers, FiniteSets

CONSTANTS
  FileLength,   \* bytes of the whole torrent
  PieceLength,  \* bytes of a piece, from the .torrent file
  BlockSize,    \* BLOCK_SIZE, 2^14 in the code
  PipelineLen,  \* pipeline_len, 5 in the code
  None          \* Option::None

\* An empty torrent makes `num_pieces - 1` underflow and a zero piece length
\* divides by zero: the client supports neither.
ASSUME SizesAssumption ==
  /\ FileLength \in Nat \ {0}
  /\ PieceLength \in Nat \ {0}
  /\ BlockSize \in Nat \ {0}
  /\ PipelineLen \in Nat

ASSUME NoneAssumption == None \notin Nat /\ None \notin Nat \X Nat

-----------------------------------------------------------------------------
(* The shape of the torrent. *)

DivCeil(a, b) == (a + b - 1) \div b

NumPieces == DivCeil(FileLength, PieceLength)

LastPieceSize == FileLength - (NumPieces - 1) * PieceLength

NumBlocks(p) ==
  DivCeil(IF p = NumPieces - 1 THEN LastPieceSize ELSE PieceLength, BlockSize)

Pieces == 0 .. NumPieces - 1

Blocks(p) == 0 .. NumBlocks(p) - 1

AllBlocks == UNION { {p} \X Blocks(p) : p \in Pieces }

-----------------------------------------------------------------------------
(* The tracker. *)

BlockState == {"UnRequested", "Requested", "Completed"}

Tracker ==
  [ num_requested : Nat,
    blocks        : [AllBlocks -> BlockState],
    requested     : Pieces \cup {None} ]

\* PieceTracker::from_file_info
FromFileInfo ==
  [ num_requested |-> 0,
    blocks        |-> [pb \in AllBlocks |-> "UnRequested"],
    requested     |-> None ]

InState(t, state) == { pb \in AllBlocks : t.blocks[pb] = state }

OfPiece(p) == { pb \in AllBlocks : pb[1] = p }

\* PieceTracker::update.  Note that num_requested is left alone.
Update(t, bitfield) ==
  [t EXCEPT !.blocks =
     [pb \in AllBlocks |-> IF pb[1] \in bitfield THEN "Completed" ELSE @[pb]]]

\* PieceTracker::pending_requests
PendingRequests(t) == InState(t, "Requested")

\* Mutant: blocks already requested count as still to request.
NotCompletedOf(t, p) == { pb \in OfPiece(p) : t.blocks[pb] # "Completed" }

\* The blocks of piece p still to ask for.
UnRequestedOf(t, p) == { pb \in OfPiece(p) : t.blocks[pb] = "UnRequested" }

\* Ask for the first unrequested block of piece p, which becomes the piece to
\* go on with.
Take(t, p) ==
  LET first == CHOOSE pb \in UnRequestedOf(t, p) :
                 \A other \in UnRequestedOf(t, p) : pb[2] <= other[2]
  IN  [ tracker |-> [ num_requested |-> t.num_requested + 1,
                      blocks        |-> [t.blocks EXCEPT ![first] = "Requested"],
                      requested     |-> p ],
        answer  |-> first ]

\* Mutant: any piece, whether the peer has it or not.
TakeAnyPiece(t, pieces) ==
  LET requestable == { p \in Pieces : UnRequestedOf(t, p) # {} }
  IN  IF requestable = {}
      THEN { [tracker |-> t, answer |-> None] }
      ELSE { Take(t, p) : p \in requestable }

\* With no piece under way: a random one of the peer's pieces that still has an
\* unrequested block (rand's `choose` may return any of them).
TakeNewPiece(t, pieces) ==
  LET requestable == { p \in pieces \cap Pieces : UnRequestedOf(t, p) # {} }
  IN  IF requestable = {}
      THEN { [tracker |-> t, answer |-> None] }
      ELSE { Take(t, p) : p \in requestable }

\* Mutant: the piece under way is not preferred.
RequestAnywhere(t, pieces) ==
  IF t.num_requested >= PipelineLen THEN { [tracker |-> t, answer |-> None] }
  ELSE TakeNewPiece(t, pieces)

\* Mutant: the call that finishes a piece does not go on to another.
RequestGivesUp(t, pieces) ==
  IF t.num_requested >= PipelineLen THEN { [tracker |-> t, answer |-> None] }
  ELSE IF t.requested = None THEN TakeNewPiece(t, pieces)
  ELSE IF UnRequestedOf(t, t.requested) # {} THEN { Take(t, t.requested) }
  ELSE { [tracker |-> [t EXCEPT !.requested = None], answer |-> None] }

\* Mutant: the limit is off by one.
RequestOneMore(t, pieces) ==
  IF t.num_requested > PipelineLen THEN { [tracker |-> t, answer |-> None] }
  ELSE IF t.requested = None THEN TakeNewPiece(t, pieces)
  ELSE IF UnRequestedOf(t, t.requested) # {} THEN { Take(t, t.requested) }
  ELSE TakeNewPiece([t EXCEPT !.requested = None], pieces)

\* PieceTracker::request: the set of possible results.  The piece under way is
\* continued without looking at `pieces`.
Request(t, pieces) ==
  IF t.num_requested >= PipelineLen THEN { [tracker |-> t, answer |-> None] }
  ELSE IF t.requested = None THEN TakeNewPiece(t, pieces)
  ELSE IF UnRequestedOf(t, t.requested) # {} THEN { Take(t, t.requested) }
  ELSE TakeNewPiece([t EXCEPT !.requested = None], pieces)

\* Mutant: every block counts, requested or not.
MarkBlockAlwaysCounts(t, pb) ==
  [t EXCEPT !.num_requested = @ - 1, !.blocks[pb] = "Completed"]

\* PieceTracker::mark_block_as_downloaded
MarkBlockAsDownloaded(t, pb) ==
  IF pb \notin AllBlocks
  THEN t
  ELSE [t EXCEPT !.num_requested = IF t.blocks[pb] = "Requested" THEN @ - 1 ELSE @,
                 !.blocks[pb]    = "Completed"]

\* Mutant: requests made superfluous keep their place in the pipeline.
MarkPieceKeepsCount(t, p) ==
  [t EXCEPT !.blocks = [pb \in AllBlocks |->
                          IF pb[1] = p THEN "Completed" ELSE t.blocks[pb]]]

\* PieceTracker::mark_piece_as_downloaded
MarkPieceAsDownloaded(t, p) ==
  [t EXCEPT !.num_requested = @ - Cardinality(OfPiece(p) \cap PendingRequests(t)),
            !.blocks = [pb \in AllBlocks |->
                          IF pb[1] = p THEN "Completed" ELSE t.blocks[pb]]]

=============================================================================
