--------------------------- MODULE MCPeerSession ---------------------------
(***************************************************************************)
(* PeerSession on torrents of two pieces.  Sizes are in units of a block:  *)
(* with FileLength 3 and PieceLength 2 the pieces have 2 and 1 blocks.     *)
(***************************************************************************)
EXTENDS PeerSession

\* What other connections report.
NoBlocks == {}
FirstBlock == { <<0, 0>> }
=============================================================================
