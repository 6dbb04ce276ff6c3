----------------------------- MODULE MCDownload -----------------------------
(***************************************************************************)
(* Download on a torrent of two pieces, each in a file of its own: one     *)
(* peer has both pieces, the other the first.                              *)
(***************************************************************************)
EXTENDS Download

CONSTANTS c1, c2

FilePerPiece == [pb \in AllBlocks |-> pb[1]]

FirstHasAll == [c \in Connections |-> IF c = c1 THEN Pieces ELSE {0}]

NoFault == { [found |-> {}, corrupt |-> {}, crashes |-> 0] }

\* A good run; the second peer is corrupt; the process is killed once.
OneFault == NoFault \cup { [found |-> {},  corrupt |-> {c2}, crashes |-> 0],
                            [found |-> {1}, corrupt |-> {},   crashes |-> 1] }
=============================================================================
