------------------------------ MODULE Geometry ------------------------------
(***************************************************************************)
(* Where bytes lie: pieces and blocks of the torrent against files and     *)
(* directories on disk.  The same arithmetic is written five times, and    *)
(* here each of them is held against the others:                           *)
(*                                                                         *)
(*   - which block to ask for: calculate_block_size, and the block counts  *)
(*     of PieceTracker;                                                    *)
(*   - where a block is stored: file_info_from_piece_block, single-file    *)
(*     and multi-file;                                                     *)
(*   - where the monitor reads a piece: Download::get_piece_data;          *)
(*   - where an upload is read: Metadata::get_piece_data;                  *)
(*   - how much is left: format_tracker_params.                            *)
(*                                                                         *)
(* A behaviour takes one torrent and stores its blocks in any order.       *)
(***************************************************************************)
EXTENDS Integers, Sequences, FiniteSets

CONSTANTS
  BlockSize,  \* BLOCK_SIZE, 2^14 in the code
  Torrents,   \* the torrents and output directories to look at
  None        \* Option::None

\* How much of a sequence of lengths comes before each of them, and after the
\* last how much they are: a counter that a loop over them advances.
Sums(lengths) ==
  LET sum[k \in 1 .. Len(lengths) + 1] ==
        IF k = 1 THEN 0 ELSE sum[k - 1] + lengths[k - 1]
  IN  sum

\* TorrentType::len
Total(t) == Sums(t.files)[Len(t.files) + 1]

Torrent(t) ==
  /\ t.kind \in {"SingleFile", "MultiFile"}
  /\ t.files \in Seq(Nat)
  /\ t.kind = "SingleFile" => Len(t.files) = 1
  /\ Total(t) # 0
  /\ t.pieceLength \in Nat \ {0}

ASSUME GeometryAssumption ==
  /\ BlockSize \in Nat \ {0}
  /\ \A t \in Torrents : Torrent(t)

VARIABLES
  torrent,  \* lengths of its files and pieces, and `--dir` or None
  disk,     \* the bytes of every file that exists, by directory and number
  stored,   \* the blocks the read half has written
  failed    \* did opening or computing a place fail?

vars == <<torrent, disk, stored, failed>>

Smaller(a, b) == IF a < b THEN a ELSE b
Larger(a, b)  == IF a > b THEN a ELSE b

Length == Total(torrent)

PieceLength == torrent.pieceLength

\* The block counts the tracker works with.
T(length, pieceLength) ==
  INSTANCE PieceTracker WITH FileLength <- length, PieceLength <- pieceLength,
                             PipelineLen <- 5

Pieces     == T(Length, PieceLength)!Pieces
NumPieces  == T(Length, PieceLength)!NumPieces
Blocks(p)  == T(Length, PieceLength)!Blocks(p)
AllBlocks  == T(Length, PieceLength)!AllBlocks

PieceEnd(p) == Smaller((p + 1) * PieceLength, Length)

\* The byte at each place of the torrent; no two are alike, and none is a zero.
Content(start, length) == [i \in 1 .. length |-> start + i]

-----------------------------------------------------------------------------
(* Blocks. *)

\* calculate_block_size
CalculateBlockSize(p, b) ==
  LET pieces    == (Length + PieceLength - 1) \div PieceLength
      lastPiece == Length % PieceLength
      size      == IF p = pieces - 1 /\ lastPiece # 0 THEN lastPiece ELSE PieceLength
      blocks    == (size + BlockSize - 1) \div BlockSize
      rest      == size % BlockSize
  IN  IF b = blocks - 1 /\ rest # 0 THEN rest ELSE BlockSize

-----------------------------------------------------------------------------
(* Files. *)

Files == DOMAIN torrent.files

\* `seen_length` when the loop comes to file i.
FileStart(i) == Sums(torrent.files)[i]

FileEnd(i) == FileStart(i) + torrent.files[i]

\* start.saturating_sub(file_start)
Offset(i, start) == Larger(start - FileStart(i), 0)

\* The part of each file that lies between start and end: the loop of both
\* file_info_from_piece_block and Download::get_piece_data.  Of a file that they
\* pass over nothing is read or written: its part counts no byte.
Parts(start, end) ==
  [i \in Files |->
     [ file   |-> i,
       offset |-> Offset(i, start),
       count  |-> IF start < FileEnd(i) /\ FileStart(i) < end
                  THEN Smaller(end, FileEnd(i)) - Larger(start, FileStart(i))
                  ELSE 0 ]]

\* Mutant: a block may not touch the end of the torrent.
FitsBeforeEnd(p, begin, length) ==
  p * PieceLength < Length /\ p * PieceLength + begin + length < Length

\* file_info_from_piece_block does not bail.
Fits(p, begin, length) ==
  p * PieceLength < Length /\ p * PieceLength + begin + length <= Length

\* What it then returns.
FileInfoFromPieceBlock(p, begin, length) ==
  LET start == p * PieceLength + begin
  IN  IF torrent.kind = "SingleFile"
      THEN << [file |-> 1, offset |-> start, count |-> Smaller(length, Length - start)] >>
      ELSE Parts(start, start + length)

\* Mutant: piece_position is not advanced.
PositionStuck(parts, k) == 0

\* piece_position: how much of a block comes before its k-th part.
Position(parts, k) == Sums([i \in DOMAIN parts |-> parts[i].count])[k]

\* The parts that byte j of a block belongs to.
PartsAt(parts, j) ==
  { k \in DOMAIN parts : /\ Position(parts, k) < j
                         /\ j <= Position(parts, k) + parts[k].count }

\* read_exact at every part, one after the other, into so many zeros.
ReadParts(parts, length) ==
  [j \in 1 .. length |->
     LET at == PartsAt(parts, j)
     IN  IF at = {} THEN 0
         ELSE LET k == CHOOSE k \in at : TRUE
              IN  disk[parts[k].file][parts[k].offset + j - Position(parts, k)]]

\* Where Download::new creates the files, and where a connection looks for them.
DownloadDir == IF torrent.dir # None THEN torrent.dir ELSE "out"

PeerDir == IF torrent.dir # None THEN torrent.dir
           ELSE IF torrent.kind = "MultiFile" THEN "name" ELSE "out"

\* Download::get_piece_data, with its check of the size; None for bail!.
PieceData(p) ==
  LET parts == Parts(p * PieceLength, PieceEnd(p))
      size  == Position(parts, Len(parts) + 1)
  IN  IF size \in {PieceLength, Length % PieceLength} THEN ReadParts(parts, size)
      ELSE None

\* Mutant: uploads start at a block.
UploadFromBlock(p, begin, length) ==
  LET start == (begin \div BlockSize) * BlockSize
  IN  IF ~Fits(p, start, length) \/ PeerDir # DownloadDir THEN None
      ELSE ReadParts(FileInfoFromPieceBlock(p, start, length), length)

\* Metadata::get_piece_data, what a peer that requests this gets to see.
UploadData(p, begin, length) ==
  IF ~Fits(p, begin, length) \/ PeerDir # DownloadDir THEN None
  ELSE ReadParts(FileInfoFromPieceBlock(p, begin, length), length)

\* Mutant: a short last piece counts in full.
LeftUnclamped(done) == Length - done * PieceLength

\* `left` in format_tracker_params, for so many verified pieces.
Left(done) == Length - Smaller(done * PieceLength, Length)

-----------------------------------------------------------------------------
\* After Download::new on an empty directory.
Init ==
  /\ torrent \in Torrents
  /\ disk = [i \in Files |-> [j \in 1 .. torrent.files[i] |-> 0]]
  /\ stored = {}
  /\ failed = FALSE

\* Mutant: the files are appended to.
Appended(parts, data) ==
  [i \in Files |-> IF \E k \in DOMAIN parts : parts[k].file = i
                   THEN disk[i] \o data ELSE disk[i]]

\* The block's bytes, each at its place in the file its part names.
Written(parts, data) ==
  [i \in Files |-> [j \in DOMAIN disk[i] |->
     LET at == { k \in DOMAIN parts : /\ parts[k].file = i
                                      /\ parts[k].offset < j
                                      /\ j <= parts[k].offset + parts[k].count }
     IN  IF at = {} THEN disk[i][j]
         ELSE LET k == CHOOSE k \in at : TRUE IN data[Position(parts, k) + j - parts[k].offset]]]

\* The read half gets the block that send_one_round asked for.
Store(p, b) ==
  /\ ~failed
  /\ <<p, b>> \notin stored
  /\ LET begin  == b * BlockSize
         length == CalculateBlockSize(p, b)
         parts  == FileInfoFromPieceBlock(p, begin, length)
     IN  IF ~Fits(p, begin, length) \/ PeerDir # DownloadDir
         THEN failed' = TRUE /\ UNCHANGED <<disk, stored>>
         ELSE /\ disk' = Written(parts, Content(p * PieceLength + begin, length))
              /\ stored' = stored \cup {<<p, b>>}
              /\ UNCHANGED failed
  /\ UNCHANGED torrent

Next == \E pb \in AllBlocks : Store(pb[1], pb[2])

Spec == Init /\ [][Next]_vars

-----------------------------------------------------------------------------
(* Properties. *)

\* The files keep their lengths, and every block is one of the tracker's.
TypeOK ==
  /\ torrent \in Torrents
  /\ DOMAIN disk = Files
  /\ \A i \in Files : disk[i] \in [1 .. torrent.files[i] -> 0 .. Length]
  /\ stored \subseteq AllBlocks
  /\ failed \in BOOLEAN

\* Piece p hashes to what the .torrent file says.
Verified(p) == PieceData(p) = Content(p * PieceLength, PieceEnd(p) - p * PieceLength)

\* What the monitor reads of a piece is what its blocks have brought so far, no
\* block more and none less: the blocks the client asks for are those its tracker
\* counts, each is stored where the monitor looks, none overwrites another, and
\* the piece passes when the last has come.
PieceIsItsBlocks ==
  ~failed => \A p \in Pieces :
    PieceData(p) = [i \in 1 .. PieceEnd(p) - p * PieceLength |->
                      IF <<p, (i - 1) \div BlockSize>> \in stored
                      THEN p * PieceLength + i ELSE 0]

\* Of a verified piece any range that a peer may request is sent as it is.
UploadsAreTrue ==
  ~failed => \A p \in { p \in Pieces : Verified(p) } :
    LET size == PieceEnd(p) - p * PieceLength
    IN  \A begin \in 0 .. size - 1 : \A length \in 1 .. size - begin :
          UploadData(p, begin, length) = Content(p * PieceLength + begin, length)

\* The tracker is told that nothing is left exactly when everything is verified.
NothingLeftWhenDone ==
  LET done == Cardinality({ p \in Pieces : Verified(p) })
  IN  (Left(done) = 0) <=> (done = NumPieces)

\* README.md:8: "Multi-file torrent support".  Every block the client asks for
\* finds its place in the files that Download::new has created.
EveryBlockFindsItsPlace == ~failed

=============================================================================
