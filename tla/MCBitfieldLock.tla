--------------------------- MODULE MCBitfieldLock ---------------------------
(***************************************************************************)
(* BitfieldLock with a few connections, one of which sends a bitfield.     *)
(***************************************************************************)
EXTENDS BitfieldLock
=============================================================================
