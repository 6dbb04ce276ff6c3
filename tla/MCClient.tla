------------------------------ MODULE MCClient ------------------------------
(***************************************************************************)
(* Two clients, one of them with the Fast Extension, and two other peers:  *)
(* one has another torrent, one never says a word.                         *)
(***************************************************************************)
EXTENDS Client

CONSTANTS a, b, wrong, mute

MannerOf == [p \in Others |-> IF p = wrong THEN "wrong" ELSE "silent"]

FastOf == [p \in Peers |-> p # b]
=============================================================================
