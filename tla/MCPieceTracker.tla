--------------------------- MODULE MCPieceTracker ---------------------------
(***************************************************************************)
(* PieceTrackerSpec on small torrents.  Sizes in units of one block: a     *)
(* torrent of 7 over pieces of 3 has pieces of 3, 3 and 1 blocks.          *)
(***************************************************************************)
EXTENDS PieceTrackerSpec
=============================================================================
