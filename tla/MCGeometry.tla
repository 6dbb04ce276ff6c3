----------------------------- MODULE MCGeometry -----------------------------
(***************************************************************************)
(* Geometry on every torrent of one file of up to 7 bytes and of two or    *)
(* three files of up to 3 (empty ones included), with pieces below, equal  *)
(* to, above, and multiples of a block of 2 bytes.                         *)
(***************************************************************************)
EXTENDS Geometry

OneFile == { <<n>> : n \in 1 .. 7 }

ManyFiles == { f \in UNION { [1 .. k -> 0 .. 3] : k \in 2 .. 3 } :
                 \E i \in DOMAIN f : f[i] > 0 }

Shapes(kind, files, dirs) ==
  [kind : {kind}, files : files, pieceLength : 1 .. 5, dir : dirs]

\* Those whose files are created and looked for in one directory.
OneDirectory == Shapes("SingleFile", OneFile, {None, "dir"})
                  \cup Shapes("MultiFile", ManyFiles, {"dir"})

DefaultDirectory == Shapes("MultiFile", ManyFiles, {None})
=============================================================================
