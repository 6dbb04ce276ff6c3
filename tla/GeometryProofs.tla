--------------------------- MODULE GeometryProofs ---------------------------
(***************************************************************************)
(* Proofs about Geometry, for every torrent, any number of files of any    *)
(* length, and every piece and block size.                                 *)
(*                                                                         *)
(* The code computes the shape of the last piece and of the last block of  *)
(* a piece twice, in from_file_info and in calculate_block_size, by        *)
(* different formulas; that they agree is what makes blocks tile the       *)
(* torrent.  It lays a range of the torrent over the files three times:    *)
(* for a block that is stored, a piece that is hashed, a range that is     *)
(* sent.  What is read back is right because all three find each byte in   *)
(* the same file, the only one it can be in (InOneFile, InSomeFile).       *)
(***************************************************************************)
EXTENDS Geometry, FiniteSetTheorems, WellFoundedInduction, TLAPS

-----------------------------------------------------------------------------
(* Division. *)

LEMMA DivMod ==
  ASSUME NEW a \in Nat, NEW d \in Nat \ {0}
  PROVE  /\ a \div d \in Nat /\ a % d \in 0 .. d - 1
         /\ a = d * (a \div d) + (a % d)
<1>1. a \div d \in Int /\ a % d \in Int /\ a % d >= 0 /\ a % d < d
  OBVIOUS
<1>2. a = d * (a \div d) + (a % d)
  OBVIOUS
<1>3. a \div d >= 0
  OBVIOUS
<1>4. QED
  BY <1>1, <1>2, <1>3

LEMMA ModIs ==
  ASSUME NEW a \in Nat, NEW d \in Nat \ {0}, NEW q \in Int, NEW r \in 0 .. d - 1,
         a = d * q + r
  PROVE  a % d = r
OBVIOUS

\* The rounded-up quotient is the least n with n * d >= a.
LEMMA CeilIs ==
  ASSUME NEW a \in Nat \ {0}, NEW d \in Nat \ {0}
  PROVE  LET n == (a + d - 1) \div d
         IN  n \in Nat \ {0} /\ d * (n - 1) < a /\ a <= d * n
<1> DEFINE n == (a + d - 1) \div d
<1> DEFINE r == (a + d - 1) % d
<1>1. a + d - 1 \in Nat /\ a + d - 1 >= d
  OBVIOUS
<1>2. n \in Nat /\ r \in 0 .. d - 1 /\ a + d - 1 = d * n + r
  BY <1>1, DivMod
<1>3. d * (n - 1) = d * n - d
  BY <1>2
<1>4. d * n \in Nat
  BY <1>2
<1> HIDE DEF n, r
<1>5. d * (n - 1) < a /\ a <= d * n
  BY <1>2, <1>3, <1>4
<1>6. n # 0
  <2>1. d * 0 = 0
    OBVIOUS
  <2>2. QED
    BY <1>5, <2>1
<1>7. QED
  BY <1>2, <1>5, <1>6 DEF n

\* A larger factor gives a larger product.
LEMMA TimesMonotone ==
  ASSUME NEW d \in Nat \ {0}, NEW i \in Nat, NEW j \in Nat, i < j
  PROVE  d * i + d <= d * j
<1>1. d * j = d * i + d * (j - i)
  OBVIOUS
<1>2. d * (j - i) = d + d * (j - i - 1)
  OBVIOUS
<1>3. d * (j - i - 1) >= 0
  OBVIOUS
<1>4. d * j \in Int /\ d * i \in Int /\ d * (j - i) \in Int /\ d * (j - i - 1) \in Int
  OBVIOUS
<1>5. QED
  BY <1>1, <1>2, <1>3, <1>4

\* The last of the n parts of size d that make up a has the rest of the division.
LEMMA LastPart ==
  ASSUME NEW a \in Nat \ {0}, NEW d \in Nat \ {0}
  PROVE  LET n == (a + d - 1) \div d
         IN  a - d * (n - 1) = IF a % d # 0 THEN a % d ELSE d
<1> DEFINE n == (a + d - 1) \div d
<1>1. n \in Nat \ {0} /\ d * (n - 1) < a /\ a <= d * n
  BY CeilIs
<1> HIDE DEF n
<1> DEFINE last == a - d * (n - 1)
<1>2. d * (n - 1) \in Int /\ d * n = d * (n - 1) + d
  BY <1>1
<1>3. last \in 1 .. d
  BY <1>1, <1>2
<1>4. CASE last = d
  <2>1. a = d * n + 0
    BY <1>1, <1>2, <1>4
  <2>2. a % d = 0
    BY <1>1, <2>1
  <2>3. QED
    BY <1>4, <2>2 DEF n
<1>5. CASE last # d
  <2> DEFINE q == n - 1
  <2>1. a = d * q + last /\ last \in 0 .. d - 1 /\ last > 0 /\ q \in Int /\ a \in Nat
    BY <1>1, <1>2, <1>3, <1>5
  <2> HIDE DEF last, q
  <2>2. a % d = last
    BY <2>1, ModIs
  <2>3. QED
    BY <2>1, <2>2 DEF n, last
<1>6. QED
  BY <1>4, <1>5
-----------------------------------------------------------------------------
(* Sums. *)

\* A set that holds 0, and with each number the next, holds them all: otherwise
\* the least that it misses would be the next of one that it holds.
LEMMA Induction ==
  ASSUME NEW S, 0 \in S, \A n \in Nat : n \in S => n + 1 \in S
  PROVE  Nat \subseteq S
<1> DEFINE R == OpToRel(<, Nat)
<1> DEFINE U == Nat \ S
<1>1. IsWellFoundedOn(R, Nat)
  BY NatLessThanWellFounded
<1>2. ASSUME NEW x \in Nat, NEW y \in Nat, x < y PROVE <<x, y>> \in R
  BY <1>2 DEF OpToRel
<1> HIDE DEF R
<1>3. CASE U # {}
  <2>1. PICK x \in U : \A y \in U : ~(<<y, x>> \in R)
    <3>1. U \subseteq Nat
      OBVIOUS
    <3> HIDE DEF U
    <3>2. QED
      BY <1>1, <1>3, <3>1, WFMin
  <2>2. x # 0 /\ x - 1 \in Nat /\ x - 1 < x /\ x \in Nat
    OBVIOUS
  <2>3. x - 1 \notin U
    BY <1>2, <2>1, <2>2
  <2>4. QED
    BY <2>2, <2>3
<1>4. QED
  BY <1>3

\* Sums satisfies the equation it is defined by.
LEMMA SumsDef ==
  ASSUME NEW lengths \in Seq(Nat)
  PROVE  /\ Sums(lengths) \in [1 .. Len(lengths) + 1 -> Nat]
         /\ Sums(lengths)[1] = 0
         /\ \A k \in 1 .. Len(lengths) :
              Sums(lengths)[k + 1] = Sums(lengths)[k] + lengths[k]
<1> DEFINE n == Len(lengths)
<1> DEFINE IsSum(f, m) ==
      f = [k \in 1 .. m + 1 |-> IF k = 1 THEN 0 ELSE f[k - 1] + lengths[k - 1]]
<1>0. n \in Nat /\ \A k \in 1 .. n : lengths[k] \in Nat
  OBVIOUS
<1>1. Sums(lengths) = CHOOSE f : IsSum(f, n)
  BY DEF Sums
<1> DEFINE G == { m \in Nat : \E f \in [1 .. m + 1 -> Nat] : IsSum(f, m) }
<1> DEFINE H == { m \in Nat : m <= n => m \in G }
<1>2. 0 \in G
  <2> DEFINE f == [k \in 1 .. 0 + 1 |-> 0]
  <2>1. IsSum(f, 0) /\ f \in [1 .. 0 + 1 -> Nat]
    BY <1>0
  <2> HIDE DEF f, IsSum
  <2>2. QED
    BY <2>1
<1>3. ASSUME NEW m \in Nat, m \in G, m + 1 <= n
      PROVE  m + 1 \in G
  <2>1. PICK f \in [1 .. m + 1 -> Nat] : IsSum(f, m)
    BY <1>3
  <2> DEFINE g == [k \in 1 .. (m + 1) + 1 |->
                     IF k = m + 2 THEN f[m + 1] + lengths[m + 1] ELSE f[k]]
  <2>2. lengths[m + 1] \in Nat /\ f[m + 1] \in Nat
    BY <1>0, <1>3
  <2>3. g \in [1 .. (m + 1) + 1 -> Nat]
    BY <2>2
  <2>4. ASSUME NEW k \in 1 .. (m + 1) + 1
        PROVE  g[k] = IF k = 1 THEN 0 ELSE g[k - 1] + lengths[k - 1]
    <3>1. CASE k = m + 2
      BY <3>1
    <3>2. CASE k # m + 2
      <4>1. k \in 1 .. m + 1 /\ g[k] = f[k]
        BY <3>2
      <4>2. k # 1 => k - 1 \in 1 .. (m + 1) + 1 /\ g[k - 1] = f[k - 1]
        BY <4>1
      <4>3. f[k] = IF k = 1 THEN 0 ELSE f[k - 1] + lengths[k - 1]
        BY <2>1, <4>1
      <4>4. QED
        BY <4>1, <4>2, <4>3
    <3>3. QED
      BY <3>1, <3>2
  <2>5. IsSum(g, m + 1)
    BY <2>4
  <2> HIDE DEF g, IsSum
  <2>6. QED
    BY <2>3, <2>5
<1> HIDE DEF G
<1>4. 0 \in H /\ \A m \in Nat : m \in H => m + 1 \in H
  BY <1>0, <1>2, <1>3
<1>5. n \in G
  <2>1. Nat \subseteq H
    <3> HIDE DEF H
    <3>1. QED
      BY <1>4, Induction
  <2>2. QED
    BY <1>0, <2>1
<1>6. PICK f \in [1 .. n + 1 -> Nat] : IsSum(f, n)
  BY <1>5 DEF G
<1>7. IsSum(Sums(lengths), n)
  <2> HIDE DEF IsSum
  <2>1. QED
    BY <1>1, <1>6
<1>8. Sums(lengths) \in [1 .. n + 1 -> Nat]
  <2> DEFINE s == Sums(lengths)
  <2> DEFINE K == { m \in Nat : m <= n => s[m + 1] \in Nat }
  <2>1. s[1] = 0 /\ \A k \in 1 .. n : s[k + 1] = s[k] + lengths[k]
    BY <1>0, <1>7
  <2>2. s = [k \in 1 .. n + 1 |-> s[k]]
    BY <1>7
  <2> HIDE DEF s
  <2>3. 0 \in K
    BY <2>1
  <2>4. ASSUME NEW m \in Nat, m \in K PROVE m + 1 \in K
    <3>1. SUFFICES ASSUME m + 1 <= n PROVE s[(m + 1) + 1] \in Nat
      OBVIOUS
    <3>2. m + 1 \in 1 .. n /\ m <= n
      BY <1>0, <3>1
    <3>3. s[m + 1] \in Nat /\ lengths[m + 1] \in Nat
      BY <1>0, <2>4, <3>2
    <3>4. s[(m + 1) + 1] = s[m + 1] + lengths[m + 1]
      BY <2>1, <3>2
    <3>5. QED
      BY <3>3, <3>4
  <2>5. Nat \subseteq K
    <3> HIDE DEF K
    <3>1. QED
      BY <2>3, <2>4, Induction
  <2>6. \A k \in 1 .. n + 1 : s[k] \in Nat
    <3>1. ASSUME NEW k \in 1 .. n + 1 PROVE s[k] \in Nat
      <4>1. k - 1 \in Nat /\ k - 1 <= n /\ (k - 1) + 1 = k
        BY <1>0
      <4>2. k - 1 \in K
        BY <2>5, <4>1
      <4>3. QED
        BY <4>1, <4>2
    <3>2. QED
      BY <3>1
  <2>7. QED
    BY <2>2, <2>6 DEF s
<1>9. Sums(lengths)[1] = 0 /\ \A k \in 1 .. n : Sums(lengths)[k + 1] = Sums(lengths)[k] + lengths[k]
  BY <1>0, <1>7
<1>10. QED
  BY <1>8, <1>9

-----------------------------------------------------------------------------
(* Pieces and blocks. *)

\* The bytes of piece p.
PieceSize(p) == PieceEnd(p) - p * PieceLength

LEMMA Sizes ==
  ASSUME torrent \in Torrents
  PROVE  /\ Length \in Nat \ {0} /\ PieceLength \in Nat \ {0}
         /\ BlockSize \in Nat \ {0}
         /\ torrent.kind \in {"SingleFile", "MultiFile"}
<1>1. torrent.files \in Seq(Nat) /\ Length # 0
  BY GeometryAssumption DEF Torrent, Length
<1>2. Length \in Nat
  <2>1. Sums(torrent.files) \in [1 .. Len(torrent.files) + 1 -> Nat]
    BY <1>1, SumsDef
  <2>2. Len(torrent.files) + 1 \in 1 .. Len(torrent.files) + 1
    BY <1>1
  <2>3. QED
    BY <2>1, <2>2 DEF Length, Total
<1>3. QED
  BY <1>1, <1>2, GeometryAssumption DEF Torrent, PieceLength

LEMMA PieceCount ==
  ASSUME torrent \in Torrents
  PROVE  /\ NumPieces = (Length + PieceLength - 1) \div PieceLength
         /\ NumPieces \in Nat \ {0}
         /\ PieceLength * (NumPieces - 1) < Length
         /\ Length <= PieceLength * NumPieces
         /\ Pieces = 0 .. NumPieces - 1
<1>1. NumPieces = (Length + PieceLength - 1) \div PieceLength
  BY DEF NumPieces, T!NumPieces, T!DivCeil
<1>2. Pieces = 0 .. NumPieces - 1
  BY DEF Pieces, NumPieces, T!Pieces
<1>3. QED
  BY <1>1, <1>2, Sizes, CeilIs

\* Every piece but the last is full, and the last is not empty.
LEMMA PieceSizes ==
  ASSUME torrent \in Torrents, NEW p \in Pieces
  PROVE  /\ p \in Nat /\ p * PieceLength \in Nat /\ p * PieceLength < Length
         /\ PieceSize(p) \in 1 .. PieceLength
         /\ p * PieceLength + PieceSize(p) <= Length
         /\ p # NumPieces - 1 => PieceSize(p) = PieceLength
         /\ p = NumPieces - 1 => PieceSize(p) = Length - PieceLength * (NumPieces - 1)
<1> DEFINE n == NumPieces
<1> DEFINE P == PieceLength
<1>0. /\ n \in Nat \ {0} /\ P \in Nat \ {0} /\ Length \in Nat \ {0}
      /\ P * (n - 1) < Length /\ Length <= P * n /\ p \in 0 .. n - 1
  BY Sizes, PieceCount
<1>1. PieceEnd(p) = Smaller((p + 1) * P, Length)
  BY DEF PieceEnd
<1> HIDE DEF n, P
<1>2. /\ p * P = P * p /\ P * p \in Nat /\ (p + 1) * P = P * p + P
      /\ P * (n - 1) \in Int /\ P * n = P * (n - 1) + P
  BY <1>0
<1>3. CASE p = n - 1
  <2>1. PieceEnd(p) = Length
    BY <1>0, <1>1, <1>2, <1>3 DEF Smaller
  <2>2. QED
    BY <1>0, <1>2, <1>3, <2>1 DEF PieceSize, n, P
<1>4. CASE p # n - 1
  <2>1. P * p + P <= P * (n - 1)
    BY <1>0, <1>4, TimesMonotone
  <2>2. PieceEnd(p) = P * p + P
    BY <1>0, <1>1, <1>2, <2>1 DEF Smaller
  <2>3. QED
    BY <1>0, <1>2, <1>4, <2>1, <2>2 DEF PieceSize, n, P
<1>5. QED
  BY <1>3, <1>4

\* The tracker counts the blocks that make up the piece.
LEMMA BlockCount ==
  ASSUME torrent \in Torrents, NEW p \in Pieces
  PROVE  LET n == (PieceSize(p) + BlockSize - 1) \div BlockSize
         IN  /\ n \in Nat \ {0} /\ Blocks(p) = 0 .. n - 1
             /\ BlockSize * (n - 1) < PieceSize(p) /\ PieceSize(p) <= BlockSize * n
<1> DEFINE size == IF p = NumPieces - 1 THEN Length - (NumPieces - 1) * PieceLength
                                        ELSE PieceLength
<1>1. Blocks(p) = 0 .. ((size + BlockSize - 1) \div BlockSize) - 1
  BY DEF Blocks, NumPieces, T!Blocks, T!NumBlocks, T!LastPieceSize, T!NumPieces, T!DivCeil
<1>2. size = PieceSize(p)
  <2>1. /\ p # NumPieces - 1 => PieceSize(p) = PieceLength
        /\ p = NumPieces - 1 => PieceSize(p) = Length - PieceLength * (NumPieces - 1)
    BY PieceSizes
  <2>2. (NumPieces - 1) * PieceLength = PieceLength * (NumPieces - 1)
    BY PieceCount, Sizes
  <2>3. QED
    BY <2>1, <2>2
<1> HIDE DEF size
<1>3. Blocks(p) = 0 .. ((PieceSize(p) + BlockSize - 1) \div BlockSize) - 1
  BY <1>1, <1>2
<1>4. PieceSize(p) \in Nat \ {0}
  BY PieceSizes, Sizes
<1>5. QED
  BY <1>3, <1>4, Sizes, CeilIs

\* calculate_block_size gives what is left of the piece, up to a whole block.
LEMMA BlockSizes ==
  ASSUME torrent \in Torrents, NEW p \in Pieces, NEW b \in Blocks(p)
  PROVE  /\ b \in Nat /\ CalculateBlockSize(p, b) \in 1 .. BlockSize
         /\ CalculateBlockSize(p, b) = Smaller(BlockSize, PieceSize(p) - b * BlockSize)
         /\ b * BlockSize + CalculateBlockSize(p, b) <= PieceSize(p)
<1> DEFINE lastPiece == Length % PieceLength
<1> DEFINE size == IF p = (Length + PieceLength - 1) \div PieceLength - 1 /\ lastPiece # 0
                   THEN lastPiece ELSE PieceLength
<1>1. size = PieceSize(p)
  <2>1. Length - PieceLength * (NumPieces - 1) =
          IF Length % PieceLength # 0 THEN Length % PieceLength ELSE PieceLength
    BY Sizes, PieceCount, LastPart
  <2>2. QED
    BY <2>1, PieceSizes, PieceCount
<1> DEFINE blocks(s) == (s + BlockSize - 1) \div BlockSize
<1>2. CalculateBlockSize(p, b) =
        IF b = blocks(size) - 1 /\ size % BlockSize # 0 THEN size % BlockSize ELSE BlockSize
  BY DEF CalculateBlockSize
<1> DEFINE s == PieceSize(p)
<1> DEFINE n == (s + BlockSize - 1) \div BlockSize
<1> HIDE DEF size
<1>3. CalculateBlockSize(p, b) =
        IF b = n - 1 /\ s % BlockSize # 0 THEN s % BlockSize ELSE BlockSize
  BY <1>1, <1>2
<1>4. /\ n \in Nat \ {0} /\ b \in 0 .. n - 1
      /\ BlockSize * (n - 1) < s /\ s <= BlockSize * n
  BY BlockCount
<1>5. s \in Nat \ {0} /\ BlockSize \in Nat \ {0}
  BY Sizes, PieceSizes
<1> HIDE DEF s
<1>6. s - BlockSize * (n - 1) = IF s % BlockSize # 0 THEN s % BlockSize ELSE BlockSize
  BY <1>5, LastPart
<1> HIDE DEF n
<1>7. /\ b * BlockSize = BlockSize * b /\ BlockSize * b \in Nat
      /\ BlockSize * (n - 1) \in Int /\ BlockSize * n = BlockSize * (n - 1) + BlockSize
  BY <1>4, <1>5
<1>8. CASE b = n - 1
  <2>1. CalculateBlockSize(p, b) = s - BlockSize * b
    BY <1>3, <1>6, <1>8
  <2>2. s - BlockSize * b \in 1 .. BlockSize
    BY <1>4, <1>5, <1>7, <1>8
  <2>3. QED
    BY <1>4, <1>5, <1>7, <2>1, <2>2 DEF Smaller, s
<1>9. CASE b # n - 1
  <2>1. CalculateBlockSize(p, b) = BlockSize
    BY <1>3, <1>9
  <2>2. BlockSize * b + BlockSize <= BlockSize * (n - 1)
    BY <1>4, <1>5, <1>9, TimesMonotone
  <2>3. QED
    BY <1>4, <1>5, <1>7, <2>1, <2>2 DEF Smaller, s
<1>10. QED
  BY <1>8, <1>9

LEMMA QuotientIs ==
  ASSUME NEW a \in Nat, NEW d \in Nat \ {0}, NEW q \in Nat, d * q <= a, a < d * q + d
  PROVE  a \div d = q
OBVIOUS

LEMMA BlockIs ==
  \A pb : pb \in AllBlocks <=> \E p \in Pieces : \E b \in Blocks(p) : pb = <<p, b>>
BY DEF AllBlocks, Pieces, Blocks, T!AllBlocks, T!Pieces, T!Blocks

BlockStart(pb) == pb[1] * PieceLength + pb[2] * BlockSize

\* Byte x of the torrent is in the block pb, as send_one_round asks for it.
Holds(pb, x) ==
  BlockStart(pb) <= x /\ x < BlockStart(pb) + CalculateBlockSize(pb[1], pb[2])

\* Every byte is in one block, and in no other.
BlocksTile ==
  \A x \in 0 .. Length - 1 :
    \E pb \in AllBlocks : \A other \in AllBlocks : Holds(other, x) <=> other = pb

\* Of each byte the piece and the block are quotients.
LEMMA HeldOnce ==
  ASSUME torrent \in Torrents, NEW pb \in AllBlocks, NEW x \in 0 .. Length - 1,
         Holds(pb, x)
  PROVE  pb = << x \div PieceLength,
                 (x - (x \div PieceLength) * PieceLength) \div BlockSize >>
<1>1. PICK p \in Pieces : \E b \in Blocks(p) : pb = <<p, b>>
  BY BlockIs
<1>1a. PICK b \in Blocks(p) : pb = <<p, b>>
  BY <1>1
<1> DEFINE size == CalculateBlockSize(p, b)
<1> DEFINE start == p * PieceLength
<1>2. /\ PieceLength \in Nat \ {0} /\ BlockSize \in Nat \ {0} /\ x \in Nat
      /\ p \in Nat /\ b \in Nat /\ start \in Nat
      /\ PieceSize(p) \in 1 .. PieceLength
      /\ size \in 1 .. BlockSize /\ b * BlockSize + size <= PieceSize(p)
  BY Sizes, PieceSizes, BlockSizes
<1>3. start + b * BlockSize <= x /\ x < start + b * BlockSize + size
  BY <1>1a DEF Holds, BlockStart
<1>4. b * BlockSize \in Nat /\ b * BlockSize = BlockSize * b /\ start = PieceLength * p
  BY <1>2
<1> HIDE DEF size
<1>5. x \div PieceLength = p
  <2>1. PieceLength * p <= x /\ x < PieceLength * p + PieceLength
    BY <1>2, <1>3, <1>4
  <2>2. QED
    BY <1>2, <2>1, QuotientIs
<1>6. (x - start) \div BlockSize = b
  <2> DEFINE y == x - start
  <2>1. y \in Nat /\ BlockSize * b <= y /\ y < BlockSize * b + BlockSize
    BY <1>2, <1>3, <1>4
  <2> HIDE DEF y
  <2>2. y \div BlockSize = b
    BY <1>2, <2>1, QuotientIs
  <2>3. QED
    BY <2>2 DEF y
<1>7. QED
  BY <1>1a, <1>5, <1>6

LEMMA HeldSomewhere ==
  ASSUME torrent \in Torrents, NEW x \in 0 .. Length - 1
  PROVE  \E pb \in AllBlocks : Holds(pb, x)
<1> DEFINE p == x \div PieceLength
<1>1. /\ Length \in Nat \ {0} /\ PieceLength \in Nat \ {0} /\ BlockSize \in Nat \ {0}
      /\ x \in Nat /\ x < Length
  BY Sizes
<1>2. p \in Nat /\ PieceLength * p <= x /\ x < PieceLength * p + PieceLength
  <2>1. p \in Nat /\ x % PieceLength \in 0 .. PieceLength - 1
        /\ x = PieceLength * p + (x % PieceLength)
    BY <1>1, DivMod
  <2>2. PieceLength * p \in Nat
    BY <1>1, <2>1
  <2>3. QED
    BY <1>1, <2>1, <2>2
<1> HIDE DEF p
<1>3. p \in Pieces
  <2>1. /\ NumPieces \in Nat \ {0} /\ Length <= PieceLength * NumPieces
        /\ Pieces = 0 .. NumPieces - 1
    BY PieceCount
  <2>2. CASE p = NumPieces
    BY <1>1, <1>2, <2>1, <2>2
  <2>3. CASE NumPieces < p
    <3>1. PieceLength * NumPieces + PieceLength <= PieceLength * p
      BY <1>1, <1>2, <2>1, <2>3, TimesMonotone
    <3>2. PieceLength * NumPieces \in Nat /\ PieceLength * p \in Nat
      BY <1>1, <1>2, <2>1
    <3>3. QED
      BY <1>1, <1>2, <2>1, <3>1, <3>2
  <2>4. QED
    BY <1>2, <2>1, <2>2, <2>3
<1> DEFINE y == x - p * PieceLength
<1> DEFINE b == y \div BlockSize
<1>4. /\ PieceSize(p) \in 1 .. PieceLength
      /\ y \in Nat /\ y < PieceSize(p) /\ p * PieceLength \in Nat
  <2>1. p * PieceLength = PieceLength * p /\ p * PieceLength \in Nat
    BY <1>1, <1>2
  <2>2. CASE p = NumPieces - 1
    BY <1>1, <1>2, <1>3, <2>1, <2>2, PieceSizes
  <2>3. CASE p # NumPieces - 1
    BY <1>1, <1>2, <1>3, <2>1, <2>3, PieceSizes
  <2>4. QED
    BY <2>2, <2>3
<1> HIDE DEF y
<1>5. b \in Nat /\ BlockSize * b <= y /\ y < BlockSize * b + BlockSize
  <2>1. b \in Nat /\ y % BlockSize \in 0 .. BlockSize - 1
        /\ y = BlockSize * b + (y % BlockSize)
    BY <1>1, <1>4, DivMod
  <2>2. BlockSize * b \in Nat
    BY <1>1, <2>1
  <2>3. QED
    BY <1>1, <1>4, <2>1, <2>2
<1> HIDE DEF b
<1>6. b \in Blocks(p)
  <2> DEFINE n == (PieceSize(p) + BlockSize - 1) \div BlockSize
  <2>1. n \in Nat \ {0} /\ Blocks(p) = 0 .. n - 1 /\ PieceSize(p) <= BlockSize * n
    BY <1>3, BlockCount
  <2> HIDE DEF n
  <2>2. CASE b = n
    BY <1>1, <1>4, <1>5, <2>1, <2>2
  <2>3. CASE n < b
    <3>1. BlockSize * n + BlockSize <= BlockSize * b
      BY <1>1, <1>5, <2>1, <2>3, TimesMonotone
    <3>2. BlockSize * n \in Nat /\ BlockSize * b \in Nat
      BY <1>1, <1>5, <2>1
    <3>3. QED
      BY <1>1, <1>4, <1>5, <2>1, <3>1, <3>2
  <2>4. QED
    BY <1>5, <2>1, <2>2, <2>3
<1>7. CalculateBlockSize(p, b) = Smaller(BlockSize, PieceSize(p) - b * BlockSize)
  BY <1>3, <1>6, BlockSizes
<1>8. b * BlockSize = BlockSize * b /\ b * BlockSize \in Nat
  BY <1>1, <1>5
<1>9. Holds(<<p, b>>, x)
  <2>1. x = p * PieceLength + y
    BY <1>1, <1>4 DEF y
  <2>2. QED
    BY <1>1, <1>4, <1>5, <1>7, <1>8, <2>1 DEF Holds, BlockStart, Smaller
<1>10. QED
  BY <1>3, <1>6, <1>9, BlockIs

-----------------------------------------------------------------------------
(* Files. *)

NumFiles == Len(torrent.files)

\* The files lie one after the other and make up the torrent.
LEMMA FileLayout ==
  ASSUME torrent \in Torrents
  PROVE  /\ NumFiles \in Nat \ {0} /\ Files = 1 .. NumFiles
         /\ FileStart(1) = 0 /\ FileStart(NumFiles + 1) = Length
         /\ \A i \in Files : /\ torrent.files[i] \in Nat /\ FileStart(i) \in Nat
                             /\ FileEnd(i) = FileStart(i) + torrent.files[i]
                             /\ FileEnd(i) = FileStart(i + 1)
                             /\ FileEnd(i) \in Nat /\ FileStart(i) <= FileEnd(i)
<1>1. torrent.files \in Seq(Nat) /\ Length # 0
  BY GeometryAssumption DEF Torrent, Length
<1>2. NumFiles \in Nat /\ Files = 1 .. NumFiles /\ \A i \in Files : torrent.files[i] \in Nat
  BY <1>1 DEF NumFiles, Files
<1>3. /\ Sums(torrent.files) \in [1 .. NumFiles + 1 -> Nat]
      /\ Sums(torrent.files)[1] = 0
      /\ \A i \in 1 .. NumFiles :
           Sums(torrent.files)[i + 1] = Sums(torrent.files)[i] + torrent.files[i]
  BY <1>1, SumsDef DEF NumFiles
<1>4. FileStart(NumFiles + 1) = Length
  BY DEF FileStart, Length, Total, NumFiles
<1>5. FileStart(1) = 0
  BY <1>3 DEF FileStart
<1>6. NumFiles # 0
  BY <1>1, <1>4, <1>5
<1>7. ASSUME NEW i \in Files
      PROVE  /\ FileStart(i) \in Nat
             /\ FileEnd(i) = FileStart(i) + torrent.files[i]
             /\ FileEnd(i) = FileStart(i + 1)
             /\ FileEnd(i) \in Nat /\ FileStart(i) <= FileEnd(i)
  <2>1. FileStart(i) \in Nat /\ torrent.files[i] \in Nat
    BY <1>2, <1>3 DEF FileStart
  <2>2. FileEnd(i) = FileStart(i) + torrent.files[i]
    BY DEF FileEnd
  <2>3. FileEnd(i) = FileStart(i + 1)
    BY <1>2, <1>3, <2>2 DEF FileStart
  <2>4. QED
    BY <2>1, <2>2, <2>3
<1>8. QED
  BY <1>2, <1>4, <1>5, <1>6, <1>7

LEMMA FilesInTurn ==
  ASSUME torrent \in Torrents, NEW i \in Files, NEW j \in Files, i < j
  PROVE  FileEnd(i) <= FileStart(j)
<1> DEFINE K == { m \in Nat : i + 1 + m <= NumFiles => FileEnd(i) <= FileStart(i + 1 + m) }
<1>1. /\ NumFiles \in Nat /\ Files = 1 .. NumFiles
      /\ \A f \in Files : /\ FileStart(f) \in Nat /\ FileEnd(f) \in Nat
                          /\ FileEnd(f) = FileStart(f + 1)
                          /\ FileStart(f) <= FileEnd(f)
  BY FileLayout
<1>2. 0 \in K
  <2>1. i + 1 + 0 = i + 1 /\ FileEnd(i) = FileStart(i + 1) /\ FileEnd(i) \in Nat
    BY <1>1
  <2>2. QED
    BY <2>1
<1>3. ASSUME NEW m \in Nat, m \in K PROVE m + 1 \in K
  <2>1. SUFFICES ASSUME i + 1 + (m + 1) <= NumFiles
                 PROVE  FileEnd(i) <= FileStart(i + 1 + (m + 1))
    OBVIOUS
  <2> DEFINE f == i + 1 + m
  <2>2. f \in Files /\ f + 1 \in Files /\ f + 1 = i + 1 + (m + 1) /\ i \in Files
    BY <1>1, <2>1
  <2>3. FileEnd(i) <= FileStart(f)
    BY <1>1, <1>3, <2>2
  <2> HIDE DEF f
  <2>4. FileStart(f) <= FileStart(f + 1)
    BY <1>1, <2>2
  <2>5. FileEnd(i) \in Nat /\ FileStart(f) \in Nat /\ FileStart(f + 1) \in Nat
    BY <1>1, <2>2
  <2>6. QED
    BY <2>2, <2>3, <2>4, <2>5
<1>4. Nat \subseteq K
  <2> HIDE DEF K
  <2>1. QED
    BY <1>2, <1>3, Induction
<1>5. j - i - 1 \in Nat /\ i + 1 + (j - i - 1) = j /\ j <= NumFiles
  BY <1>1
<1>6. j - i - 1 \in K
  BY <1>4, <1>5
<1>7. QED
  BY <1>5, <1>6

\* Byte x of the torrent is in file i.
InFile(i, x) == FileStart(i) <= x /\ x < FileEnd(i)

LEMMA InOneFile ==
  ASSUME torrent \in Torrents, NEW x \in Int, NEW i \in Files, NEW j \in Files,
         InFile(i, x), InFile(j, x)
  PROVE  i = j
<1>1. /\ i \in 1 .. NumFiles /\ j \in 1 .. NumFiles /\ NumFiles \in Nat
      /\ FileStart(i) \in Int /\ FileStart(j) \in Int
      /\ FileEnd(i) \in Int /\ FileEnd(j) \in Int
  BY FileLayout
<1>2. CASE i < j
  BY <1>1, <1>2, FilesInTurn DEF InFile
<1>3. CASE j < i
  BY <1>1, <1>3, FilesInTurn DEF InFile
<1>4. QED
  BY <1>1, <1>2, <1>3

LEMMA InSomeFile ==
  ASSUME torrent \in Torrents, NEW x \in 0 .. Length - 1
  PROVE  \E i \in Files : InFile(i, x)
<1> DEFINE K == { m \in Nat : m <= NumFiles /\ x < FileStart(m + 1)
                                => \E i \in 1 .. m : InFile(i, x) }
<1>1. /\ NumFiles \in Nat /\ Files = 1 .. NumFiles
      /\ FileStart(1) = 0 /\ FileStart(NumFiles + 1) = Length
      /\ \A i \in Files : FileStart(i) \in Nat /\ FileEnd(i) = FileStart(i + 1)
  BY FileLayout
<1>2. x \in Nat /\ x < Length
  BY Sizes
<1>3. 0 \in K
  BY <1>1, <1>2
<1>4. ASSUME NEW m \in Nat, m \in K PROVE m + 1 \in K
  <2>1. SUFFICES ASSUME m + 1 <= NumFiles, x < FileStart((m + 1) + 1)
                 PROVE  \E i \in 1 .. m + 1 : InFile(i, x)
    OBVIOUS
  <2>2. m + 1 \in Files /\ FileEnd(m + 1) = FileStart((m + 1) + 1) /\ FileStart(m + 1) \in Nat
    BY <1>1, <2>1
  <2>3. CASE x < FileStart(m + 1)
    <3>1. \E i \in 1 .. m : InFile(i, x)
      BY <1>1, <1>4, <2>1, <2>3
    <3>2. QED
      BY <3>1
  <2>4. CASE FileStart(m + 1) <= x
    <3>1. InFile(m + 1, x)
      BY <2>1, <2>2, <2>4 DEF InFile
    <3>2. QED
      BY <3>1
  <2>5. QED
    BY <1>2, <2>2, <2>3, <2>4
<1>5. Nat \subseteq K
  <2> HIDE DEF K
  <2>1. QED
    BY <1>3, <1>4, Induction
<1>6. QED
  BY <1>1, <1>2, <1>5

-----------------------------------------------------------------------------
(* Reading and writing a range of the torrent. *)

\* How much of the bytes from start to end comes before x.
Within(x, start, end) == Smaller(Larger(x, start), end) - start

LEMMA PartIs ==
  ASSUME NEW start, NEW end
  PROVE  /\ Len(Parts(start, end)) = NumFiles
         /\ DOMAIN Parts(start, end) = Files
         /\ \A i \in Files :
              /\ Parts(start, end)[i].file = i
              /\ Parts(start, end)[i].offset = Larger(start - FileStart(i), 0)
              /\ Parts(start, end)[i].count =
                   IF start < FileEnd(i) /\ FileStart(i) < end
                   THEN Smaller(end, FileEnd(i)) - Larger(start, FileStart(i)) ELSE 0
<1>1. DOMAIN Parts(start, end) = Files
  BY DEF Parts
<1>2. Len(Parts(start, end)) = NumFiles
  BY DEF Parts, NumFiles, Files
<1>3. QED
  BY <1>1, <1>2 DEF Parts, Offset

\* The counter advances by what the part counts.
LEMMA PartCounts ==
  ASSUME torrent \in Torrents, NEW start \in Nat, NEW end \in Nat, start <= end,
         NEW i \in Files
  PROVE  /\ Parts(start, end)[i].count \in Nat
         /\ Within(FileEnd(i), start, end) =
              Within(FileStart(i), start, end) + Parts(start, end)[i].count
<1>1. FileStart(i) \in Nat /\ FileEnd(i) \in Nat /\ FileStart(i) <= FileEnd(i)
  BY FileLayout
<1>2. Parts(start, end)[i].count =
        IF start < FileEnd(i) /\ FileStart(i) < end
        THEN Smaller(end, FileEnd(i)) - Larger(start, FileStart(i)) ELSE 0
  BY PartIs
<1>3. QED
  BY <1>1, <1>2 DEF Within, Smaller, Larger

LEMMA PartPositions ==
  ASSUME torrent \in Torrents, NEW start \in Nat, NEW end \in Nat, start <= end,
         NEW k \in 1 .. NumFiles + 1
  PROVE  Position(Parts(start, end), k) = Within(FileStart(k), start, end)
<1> DEFINE counts == [i \in Files |-> Parts(start, end)[i].count]
<1> DEFINE pos(i) == Position(Parts(start, end), i)
<1>0. /\ NumFiles \in Nat \ {0} /\ Files = 1 .. NumFiles /\ FileStart(1) = 0
      /\ \A i \in Files : FileEnd(i) = FileStart(i + 1)
  BY FileLayout
<1>1. counts \in Seq(Nat) /\ Len(counts) = NumFiles
  <2>1. \A i \in Files : Parts(start, end)[i].count \in Nat
    BY PartCounts
  <2>2. QED
    BY <1>0, <2>1
<1>2. \A i : pos(i) = Sums(counts)[i]
  BY PartIs DEF Position
<1>3. /\ Sums(counts)[1] = 0
      /\ \A i \in Files : Sums(counts)[i + 1] = Sums(counts)[i] + counts[i]
  <2> HIDE DEF counts
  <2>1. QED
    BY <1>0, <1>1, SumsDef
<1>4. \A i \in Files : counts[i] = Parts(start, end)[i].count
  OBVIOUS
<1> HIDE DEF counts, pos
<1> DEFINE K == { m \in Nat : m <= NumFiles
                                => pos(m + 1) = Within(FileStart(m + 1), start, end) }
<1>5. 0 \in K
  <2>1. Within(0, start, end) = 0
    BY DEF Within, Smaller, Larger
  <2>2. QED
    BY <1>0, <1>2, <1>3, <2>1
<1>6. ASSUME NEW m \in Nat, m \in K PROVE m + 1 \in K
  <2>1. SUFFICES ASSUME m + 1 <= NumFiles
                 PROVE  pos((m + 1) + 1) = Within(FileStart((m + 1) + 1), start, end)
    OBVIOUS
  <2>2. m + 1 \in Files
    BY <1>0, <2>1
  <2>3. pos((m + 1) + 1) = pos(m + 1) + Parts(start, end)[m + 1].count
    BY <1>2, <1>3, <1>4, <2>2
  <2>4. pos(m + 1) = Within(FileStart(m + 1), start, end)
    BY <1>0, <1>6, <2>1
  <2>5. Within(FileEnd(m + 1), start, end) =
          Within(FileStart(m + 1), start, end) + Parts(start, end)[m + 1].count
    BY <2>2, PartCounts
  <2>6. QED
    BY <1>0, <2>2, <2>3, <2>4, <2>5
<1>7. Nat \subseteq K
  <2> HIDE DEF K
  <2>1. QED
    BY <1>5, <1>6, Induction
<1>8. k - 1 \in Nat /\ k - 1 <= NumFiles /\ (k - 1) + 1 = k
  BY <1>0
<1>9. k - 1 \in K
  BY <1>7, <1>8
<1>10. QED
  BY <1>8, <1>9 DEF pos

\* A byte between start and end is in the part of its file, and in no other.
LEMMA ByteInPart ==
  ASSUME torrent \in Torrents, NEW start \in Nat, NEW end \in Nat,
         NEW x \in start .. end - 1, NEW i \in Files, InFile(i, x)
  PROVE  LET parts == Parts(start, end)
             j     == x - start + 1
         IN  /\ PartsAt(parts, j) = {i}
             /\ parts[i].offset + j - Position(parts, i) = x - FileStart(i) + 1
             /\ parts[i].offset < x - FileStart(i) + 1
             /\ x - FileStart(i) + 1 <= parts[i].offset + parts[i].count
             /\ Position(parts, i) + (x - FileStart(i) + 1) - parts[i].offset = j
<1> DEFINE parts == Parts(start, end)
<1> DEFINE j == x - start + 1
<1>0. x \in Nat /\ start <= x /\ x < end /\ start <= end
  OBVIOUS
<1>1. ASSUME NEW k \in Files
      PROVE  /\ Position(parts, k) = Within(FileStart(k), start, end)
             /\ Position(parts, k) + parts[k].count = Within(FileEnd(k), start, end)
             /\ FileStart(k) \in Nat /\ FileEnd(k) \in Nat
  <2>1. k \in 1 .. NumFiles + 1 /\ FileStart(k) \in Nat /\ FileEnd(k) \in Nat
    BY FileLayout
  <2>2. Position(parts, k) = Within(FileStart(k), start, end)
    BY <1>0, <2>1, PartPositions
  <2>3. QED
    BY <1>0, <2>1, <2>2, PartCounts
<1>2. /\ DOMAIN parts = Files
      /\ parts[i].offset = Larger(start - FileStart(i), 0)
  BY PartIs
<1> HIDE DEF parts
<1>3. \A k \in Files : (Position(parts, k) < j /\ j <= Position(parts, k) + parts[k].count)
                         <=> InFile(k, x)
  <2>1. ASSUME NEW k \in Files
        PROVE  (Position(parts, k) < j /\ j <= Position(parts, k) + parts[k].count)
                 <=> InFile(k, x)
    <3>1. (Within(FileStart(k), start, end) < j /\ j <= Within(FileEnd(k), start, end))
            <=> InFile(k, x)
      BY <1>0, <1>1 DEF Within, Smaller, Larger, InFile
    <3>2. QED
      BY <1>1, <3>1
  <2>2. QED
    BY <2>1
<1>4. PartsAt(parts, j) = {i}
  BY <1>0, <1>2, <1>3, InOneFile DEF PartsAt
<1>5. /\ FileStart(i) \in Nat /\ FileEnd(i) \in Nat
      /\ Position(parts, i) = Within(FileStart(i), start, end)
      /\ Position(parts, i) + parts[i].count = Within(FileEnd(i), start, end)
      /\ FileStart(i) <= x /\ x < FileEnd(i)
  BY <1>1 DEF InFile
<1>6. Position(parts, i) = Larger(FileStart(i) - start, 0)
  BY <1>0, <1>5 DEF Within, Smaller, Larger
<1>7. parts[i].count \in Nat /\ x - start + 1 <= Position(parts, i) + parts[i].count
  <2>1. parts[i].count \in Nat
    BY <1>0, PartCounts DEF parts
  <2>2. QED
    BY <1>3, <2>1
<1>8. QED
  BY <1>0, <1>2, <1>4, <1>5, <1>6, <1>7 DEF Larger, parts

\* Byte x of the torrent, where it is on disk.
ByteAt(x) == LET i == CHOOSE i \in Files : InFile(i, x)
             IN  disk[i][x - FileStart(i) + 1]

LEMMA ByteIs ==
  ASSUME torrent \in Torrents, NEW i \in Files, NEW y \in 1 .. torrent.files[i]
  PROVE  LET x == FileStart(i) + y - 1
         IN  x \in 0 .. Length - 1 /\ InFile(i, x) /\ ByteAt(x) = disk[i][y]
<1> DEFINE x == FileStart(i) + y - 1
<1>1. /\ FileStart(i) \in Nat /\ torrent.files[i] \in Nat /\ FileEnd(i) \in Nat
      /\ FileEnd(i) = FileStart(i) + torrent.files[i]
      /\ Files = 1 .. NumFiles /\ NumFiles \in Nat
  BY FileLayout
<1>2. x \in Nat /\ InFile(i, x) /\ x - FileStart(i) + 1 = y
  BY <1>1 DEF InFile
<1>3. FileEnd(i) <= Length
  <2>1. CASE i = NumFiles
    BY <1>1, <2>1, Sizes, FileLayout
  <2>2. CASE i # NumFiles
    <3>1. NumFiles \in Files /\ i < NumFiles
      BY <1>1, <2>2
    <3>2. FileEnd(i) <= FileStart(NumFiles)
      BY <3>1, FilesInTurn
    <3>3. /\ FileStart(NumFiles) <= FileEnd(NumFiles) /\ FileEnd(NumFiles) = Length
          /\ FileStart(NumFiles) \in Nat /\ FileEnd(NumFiles) \in Nat
      BY <3>1, FileLayout
    <3>4. QED
      BY <1>1, <3>2, <3>3
  <2>3. QED
    BY <2>1, <2>2
<1>4. x \in 0 .. Length - 1
  <2>1. Length \in Nat
    BY Sizes
  <2>2. x < FileEnd(i) /\ FileEnd(i) \in Nat
    BY <1>1, <1>2 DEF InFile
  <2> HIDE DEF x
  <2>3. QED
    BY <1>2, <1>3, <2>1, <2>2
<1>5. \A k \in Files : InFile(k, x) => k = i
  BY <1>2, InOneFile
<1> HIDE DEF x
<1>6. (CHOOSE k \in Files : InFile(k, x)) = i
  BY <1>2, <1>5
<1>7. QED
  BY <1>2, <1>4, <1>6 DEF x, ByteAt

\* Reading gives the bytes of the range in their order.
LEMMA RangeRead ==
  ASSUME torrent \in Torrents, NEW start \in Nat, NEW end \in Nat,
         start <= end, end <= Length
  PROVE  ReadParts(Parts(start, end), end - start)
           = [j \in 1 .. end - start |-> ByteAt(start + j - 1)]
<1> DEFINE parts == Parts(start, end)
<1>1. ASSUME NEW j \in 1 .. end - start
      PROVE  LET at == PartsAt(parts, j)
             IN  (IF at = {} THEN 0
                  ELSE LET k == CHOOSE k \in at : TRUE
                       IN  disk[parts[k].file][parts[k].offset + j - Position(parts, k)])
                 = ByteAt(start + j - 1)
  <2> DEFINE x == start + j - 1
  <2>1. x \in 0 .. Length - 1 /\ x \in start .. end - 1 /\ x \in Int /\ j = x - start + 1
    BY Sizes
  <2> HIDE DEF x
  <2>2. PICK i \in Files : InFile(i, x)
    BY <2>1, InSomeFile
  <2>3. /\ PartsAt(parts, j) = {i} /\ parts[i].file = i
        /\ parts[i].offset + j - Position(parts, i) = x - FileStart(i) + 1
    BY <2>1, <2>2, ByteInPart, PartIs
  <2>4. \A k \in Files : InFile(k, x) => k = i
    BY <2>1, <2>2, InOneFile
  <2>5. (CHOOSE k \in Files : InFile(k, x)) = i
    BY <2>2, <2>4
  <2>6. ByteAt(x) = disk[i][x - FileStart(i) + 1]
    BY <2>5 DEF ByteAt
  <2> HIDE DEF parts
  <2>7. (CHOOSE k \in {i} : TRUE) = i
    OBVIOUS
  <2>8. QED
    BY <2>3, <2>6, <2>7 DEF x
<1> HIDE DEF parts
<1>2. QED
  BY <1>1 DEF ReadParts, parts

\* File i, and byte y of it, when data has been written from start to end.
AfterWrite(start, end, data, i, y) ==
  LET x == FileStart(i) + y - 1
  IN  IF start <= x /\ x < end THEN data[x - start + 1] ELSE disk[i][y]

FileAfter(start, end, data, i) ==
  [y \in 1 .. torrent.files[i] |-> AfterWrite(start, end, data, i, y)]

\* Writing changes the bytes of the range, and no other.
LEMMA RangeWritten ==
  ASSUME torrent \in Torrents, NEW start \in Nat, NEW end \in Nat, start <= end,
         NEW data, NEW i \in Files, DOMAIN disk[i] = 1 .. torrent.files[i]
  PROVE  Written(Parts(start, end), data)[i] = FileAfter(start, end, data, i)
<1> DEFINE parts == Parts(start, end)
<1> DEFINE at(y) == { k \in DOMAIN parts : /\ parts[k].file = i
                                           /\ parts[k].offset < y
                                           /\ y <= parts[k].offset + parts[k].count }
<1>1. Written(parts, data)[i] =
        [y \in 1 .. torrent.files[i] |->
           IF at(y) = {} THEN disk[i][y]
           ELSE LET k == CHOOSE k \in at(y) : TRUE
                IN  data[Position(parts, k) + y - parts[k].offset]]
  BY DEF Written
<1>2. DOMAIN parts = Files /\ \A k \in Files : parts[k].file = k
  BY PartIs
<1>3. /\ FileStart(i) \in Nat /\ torrent.files[i] \in Nat /\ FileEnd(i) \in Nat
      /\ FileEnd(i) = FileStart(i) + torrent.files[i]
  BY FileLayout
<1>4. /\ parts[i].offset = Larger(start - FileStart(i), 0)
      /\ parts[i].count = IF start < FileEnd(i) /\ FileStart(i) < end
                          THEN Smaller(end, FileEnd(i)) - Larger(start, FileStart(i)) ELSE 0
  BY PartIs
<1> HIDE DEF parts
<1>5. ASSUME NEW y \in 1 .. torrent.files[i]
      PROVE  Written(parts, data)[i][y] = AfterWrite(start, end, data, i, y)
  <2> DEFINE x == FileStart(i) + y - 1
  <2>1. x \in Nat /\ InFile(i, x) /\ x - FileStart(i) + 1 = y
    BY <1>3, ByteIs
  <2>2. CASE start <= x /\ x < end
    <3>1. /\ parts[i].offset < y /\ y <= parts[i].offset + parts[i].count
          /\ Position(parts, i) + y - parts[i].offset = x - start + 1
      <4>1. x \in start .. end - 1
        BY <2>1, <2>2
      <4> HIDE DEF x
      <4>2. QED
        BY <2>1, <4>1, ByteInPart DEF parts
    <3>2. at(y) = {i}
      BY <1>2, <3>1
    <3>3. (CHOOSE k \in {i} : TRUE) = i
      OBVIOUS
    <3> HIDE DEF at
    <3>4. Written(parts, data)[i][y] = data[Position(parts, i) + y - parts[i].offset]
      BY <1>1, <3>2, <3>3
    <3>5. QED
      BY <2>2, <3>1, <3>4 DEF AfterWrite
  <2>3. CASE ~(start <= x /\ x < end)
    <3>1. ~(parts[i].offset < y /\ y <= parts[i].offset + parts[i].count)
      <4>1. CASE start < FileEnd(i) /\ FileStart(i) < end
        BY <1>3, <1>4, <2>3, <4>1 DEF Smaller, Larger
      <4>2. CASE ~(start < FileEnd(i) /\ FileStart(i) < end)
        BY <1>3, <1>4, <4>2 DEF Larger
      <4>3. QED
        BY <4>1, <4>2
    <3>2. at(y) = {}
      BY <1>2, <3>1
    <3> HIDE DEF at
    <3>3. QED
      BY <1>1, <2>3, <3>2 DEF AfterWrite
  <2>4. QED
    BY <2>2, <2>3
<1>6. Written(parts, data)[i] = [y \in 1 .. torrent.files[i] |-> Written(parts, data)[i][y]]
  <2> HIDE DEF at
  <2>1. QED
    BY <1>1
<1>7. QED
  BY <1>5, <1>6 DEF parts, FileAfter

\* The single-file branch is the same with one file.
LEMMA OneWay ==
  ASSUME torrent \in Torrents, NEW p \in Nat, NEW begin \in Nat, NEW length \in Nat \ {0},
         Fits(p, begin, length)
  PROVE  LET start == p * PieceLength + begin
         IN  /\ start \in Nat /\ start + length \in Nat /\ start + length <= Length
             /\ FileInfoFromPieceBlock(p, begin, length) = Parts(start, start + length)
<1> DEFINE start == p * PieceLength + begin
<1>1. /\ start \in Nat /\ start + length \in Nat /\ start + length <= Length
      /\ Length \in Nat
  <2>1. p * PieceLength \in Nat /\ Length \in Nat
    BY Sizes
  <2>2. QED
    BY <2>1 DEF Fits
<1> HIDE DEF start
<1>2. CASE torrent.kind = "SingleFile"
  <2>1. NumFiles = 1
    BY <1>2, GeometryAssumption DEF Torrent, NumFiles
  <2>2. /\ Files = 1 .. 1 /\ FileStart(1) = 0 /\ FileEnd(1) = Length
    BY <2>1, FileLayout
  <2> DEFINE part == [file |-> 1, offset |-> start, count |-> Smaller(length, Length - start)]
  <2>3. FileInfoFromPieceBlock(p, begin, length) = << part >>
    BY <1>2 DEF FileInfoFromPieceBlock, start
  <2>4. Parts(start, start + length) =
          [i \in 1 .. 1 |->
             [ file   |-> i,
               offset |-> Larger(start - FileStart(i), 0),
               count  |-> IF start < FileEnd(i) /\ FileStart(i) < start + length
                          THEN Smaller(start + length, FileEnd(i)) - Larger(start, FileStart(i))
                          ELSE 0 ]]
    BY <2>2 DEF Parts, Offset
  <2>5. /\ Larger(start - FileStart(1), 0) = start
        /\ start < FileEnd(1) /\ FileStart(1) < start + length
        /\ Smaller(start + length, FileEnd(1)) - Larger(start, FileStart(1))
             = Smaller(length, Length - start)
    BY <1>1, <2>2 DEF Smaller, Larger
  <2>6. Parts(start, start + length)[1] = part /\ DOMAIN Parts(start, start + length) = 1 .. 1
    BY <2>4, <2>5
  <2>7. Parts(start, start + length) = [i \in 1 .. 1 |-> part]
    BY <2>4, <2>6
  <2> HIDE DEF part
  <2>8. << part >> = [i \in 1 .. 1 |-> part]
    OBVIOUS
  <2>9. QED
    BY <1>1, <2>3, <2>7, <2>8 DEF start
<1>3. CASE torrent.kind # "SingleFile"
  BY <1>1, <1>3 DEF FileInfoFromPieceBlock, start
<1>4. QED
  BY <1>2, <1>3

-----------------------------------------------------------------------------
(* The behaviours. *)

LEMMA TorrentStays == Spec => [](torrent \in Torrents)
<1>1. Init => torrent \in Torrents
  BY DEF Init
<1>2. torrent \in Torrents /\ [Next]_vars => (torrent \in Torrents)'
  BY DEF Next, Store, vars
<1>3. QED
  BY <1>1, <1>2, PTL DEF Spec

\* The blocks the tracker counts, in the sizes calculate_block_size gives them,
\* are the torrent: no byte is never asked for and none is asked for twice.
THEOREM EveryByteAskedOnce == Spec => []BlocksTile
<1>1. torrent \in Torrents => BlocksTile
  BY HeldOnce, HeldSomewhere DEF BlocksTile
<1>2. QED
  BY <1>1, TorrentStays, PTL

\* The last block of the last piece ends with the torrent, so no place is
\* refused; where the files are looked for where they were created, no block the
\* client asks for fails to be stored.
THEOREM NoBlockFails ==
  ASSUME \A t \in Torrents : t.dir # None \/ t.kind = "SingleFile"
  PROVE  Spec => []EveryBlockFindsItsPlace
<1> DEFINE Inv == torrent \in Torrents /\ ~failed
<1>1. Init => Inv
  BY DEF Init
<1>2. ASSUME Inv, NEW p \in Pieces, NEW b \in Blocks(p), Store(p, b)
      PROVE  ~failed'
  <2> DEFINE size == CalculateBlockSize(p, b)
  <2>1. /\ p * PieceLength \in Nat /\ p * PieceLength < Length
        /\ PieceSize(p) \in 1 .. PieceLength
        /\ p * PieceLength + PieceSize(p) <= Length
        /\ b * BlockSize + size <= PieceSize(p)
        /\ b \in Nat /\ size \in 1 .. BlockSize
        /\ Length \in Nat /\ BlockSize \in Nat /\ PieceLength \in Nat
    BY <1>2, Sizes, PieceSizes, BlockSizes
  <2>2. Fits(p, b * BlockSize, size)
    <3>1. b * BlockSize \in Nat
      BY <2>1
    <3> HIDE DEF size
    <3>2. QED
      BY <2>1, <3>1 DEF Fits
  <2>3. PeerDir = DownloadDir
    BY <1>2, Sizes DEF PeerDir, DownloadDir
  <2>4. QED
    BY <1>2, <2>2, <2>3 DEF Store
<1>3. Inv /\ [Next]_vars => Inv'
  <2> SUFFICES ASSUME Inv, [Next]_vars PROVE Inv'
    OBVIOUS
  <2>1. torrent' = torrent
    BY DEF Next, Store, vars
  <2>2. CASE Next
    <3>1. PICK pb \in AllBlocks : Store(pb[1], pb[2])
      BY <2>2 DEF Next
    <3>2. pb[1] \in Pieces /\ pb[2] \in Blocks(pb[1])
      BY BlockIs
    <3>3. QED
      BY <1>2, <2>1, <3>1, <3>2
  <2>3. CASE UNCHANGED vars
    BY <2>3 DEF vars
  <2>4. QED
    BY <2>2, <2>3
<1>4. Inv => EveryBlockFindsItsPlace
  BY DEF EveryBlockFindsItsPlace
<1> HIDE DEF Inv
<1>5. QED
  BY <1>1, <1>3, <1>4, PTL DEF Spec

\* The tracker server is told that nothing is left when every piece is verified
\* and no earlier, although the last piece may be short.
THEOREM LeftIsHonest == Spec => []NothingLeftWhenDone
<1>1. ASSUME torrent \in Torrents, NEW done \in 0 .. NumPieces
      PROVE  (Left(done) = 0) <=> (done = NumPieces)
  <2>1. /\ Length \in Nat \ {0} /\ PieceLength \in Nat \ {0}
        /\ NumPieces \in Nat \ {0}
        /\ PieceLength * (NumPieces - 1) < Length /\ Length <= PieceLength * NumPieces
    BY <1>1, Sizes, PieceCount
  <2>2. done * PieceLength = PieceLength * done /\ PieceLength * done \in Nat
    BY <2>1
  <2>3. CASE done = NumPieces
    BY <2>1, <2>2, <2>3 DEF Left, Smaller
  <2>4. CASE done # NumPieces
    <3> DEFINE last == NumPieces - 1
    <3>1. PieceLength * done <= PieceLength * last
      <4>1. CASE done = last
        BY <2>1, <4>1
      <4>2. CASE done < last
        <5>1. PieceLength * done + PieceLength <= PieceLength * last
          BY <2>1, <4>2, TimesMonotone
        <5>2. PieceLength * last \in Nat
          BY <2>1
        <5>3. QED
          BY <2>1, <2>2, <5>1, <5>2
      <4>3. QED
        BY <2>1, <2>4, <4>1, <4>2
    <3>2. PieceLength * last \in Nat
      BY <2>1
    <3>3. done * PieceLength < Length
      BY <2>1, <2>2, <3>1, <3>2
    <3>4. QED
      BY <2>1, <2>2, <2>4, <3>3 DEF Left, Smaller
  <2>5. QED
    BY <2>3, <2>4
<1>2. ASSUME torrent \in Torrents
      PROVE  NothingLeftWhenDone
  <2> DEFINE V == { p \in Pieces : Verified(p) }
  <2>1. NumPieces \in Nat \ {0} /\ Pieces = 0 .. NumPieces - 1
    BY <1>2, PieceCount
  <2>2. IsFiniteSet(Pieces) /\ Cardinality(Pieces) = NumPieces
    BY <2>1, FS_Interval
  <2>3. V \subseteq Pieces
    OBVIOUS
  <2> HIDE DEF V
  <2>4. Cardinality(V) \in 0 .. NumPieces
    <3>1. IsFiniteSet(V) /\ Cardinality(V) <= Cardinality(Pieces)
      BY <2>2, <2>3, FS_Subset
    <3>2. Cardinality(V) \in Nat
      BY <3>1, FS_CardinalityType
    <3>3. QED
      BY <2>1, <2>2, <3>1, <3>2
  <2>5. (Left(Cardinality(V)) = 0) <=> (Cardinality(V) = NumPieces)
    BY <1>1, <1>2, <2>4
  <2>6. QED
    BY <2>5 DEF NothingLeftWhenDone, V
<1>3. QED
  BY <1>2, TorrentStays, PTL

-----------------------------------------------------------------------------
(* What is on disk. *)

\* The block that byte x of the torrent is in.
BlockOf(x) == << x \div PieceLength,
                 (x - (x \div PieceLength) * PieceLength) \div BlockSize >>

\* Every byte on disk that a stored block has brought is the torrent's, and every
\* other is as Download::new left it.
Filled ==
  \A i \in Files : \A y \in 1 .. torrent.files[i] :
    disk[i][y] = IF BlockOf(FileStart(i) + y - 1) \in stored THEN FileStart(i) + y ELSE 0

\* A connection that looks for the files elsewhere stores nothing.
NowhereToStore == PeerDir # DownloadDir => stored = {}

IInv == TypeOK /\ Filled /\ NowhereToStore

LEMMA InitIInv == Init => IInv
<1> SUFFICES ASSUME Init PROVE IInv
  OBVIOUS
<1>1. /\ torrent \in Torrents /\ stored = {} /\ failed = FALSE
      /\ disk = [i \in Files |-> [j \in 1 .. torrent.files[i] |-> 0]]
  BY DEF Init
<1>2. Length \in Nat
  BY <1>1, Sizes
<1>3. TypeOK
  <2>1. DOMAIN disk = Files
    BY <1>1
  <2>2. ASSUME NEW i \in Files PROVE disk[i] \in [1 .. torrent.files[i] -> 0 .. Length]
    <3>1. disk[i] = [j \in 1 .. torrent.files[i] |-> 0] /\ 0 \in 0 .. Length
      BY <1>1, <1>2
    <3>2. QED
      BY <3>1
  <2>3. QED
    BY <1>1, <2>1, <2>2 DEF TypeOK
<1>4. Filled
  BY <1>1 DEF Filled
<1>5. QED
  BY <1>1, <1>3, <1>4 DEF IInv, NowhereToStore

\* The place of a block that the client asks for.
LEMMA BlockFits ==
  ASSUME torrent \in Torrents, NEW p \in Pieces, NEW b \in Blocks(p)
  PROVE  LET size  == CalculateBlockSize(p, b)
             start == p * PieceLength + b * BlockSize
         IN  /\ Fits(p, b * BlockSize, size)
             /\ start \in Nat /\ size \in Nat \ {0} /\ start + size <= Length
             /\ FileInfoFromPieceBlock(p, b * BlockSize, size) = Parts(start, start + size)
<1> DEFINE size == CalculateBlockSize(p, b)
<1>1. /\ p \in Nat /\ p * PieceLength \in Nat /\ p * PieceLength < Length
      /\ PieceSize(p) \in 1 .. PieceLength
      /\ p * PieceLength + PieceSize(p) <= Length
      /\ b * BlockSize + size <= PieceSize(p)
      /\ b \in Nat /\ size \in 1 .. BlockSize
      /\ Length \in Nat /\ BlockSize \in Nat /\ PieceLength \in Nat
  BY Sizes, PieceSizes, BlockSizes
<1>2. b * BlockSize \in Nat
  BY <1>1
<1> HIDE DEF size
<1>3. Fits(p, b * BlockSize, size)
  BY <1>1, <1>2 DEF Fits
<1>4. size \in Nat \ {0}
  BY <1>1
<1>5. QED
  BY <1>1, <1>2, <1>3, <1>4, OneWay DEF size

\* Of the bytes of the torrent a block holds those that are in it.
LEMMA HoldsIs ==
  ASSUME torrent \in Torrents, NEW pb \in AllBlocks, NEW x \in 0 .. Length - 1
  PROVE  Holds(pb, x) <=> BlockOf(x) = pb
<1>1. PICK other \in AllBlocks : Holds(other, x)
  BY HeldSomewhere
<1>2. other = BlockOf(x)
  BY <1>1, HeldOnce DEF BlockOf
<1>3. Holds(pb, x) => pb = BlockOf(x)
  BY HeldOnce DEF BlockOf
<1>4. QED
  BY <1>1, <1>2, <1>3

LEMMA StoreIInv ==
  ASSUME IInv, NEW p \in Pieces, NEW b \in Blocks(p), Store(p, b)
  PROVE  IInv'
<1> DEFINE size  == CalculateBlockSize(p, b)
<1> DEFINE start == p * PieceLength + b * BlockSize
<1> DEFINE data  == Content(start, size)
<1>1. /\ torrent \in Torrents /\ DOMAIN disk = Files
      /\ \A i \in Files : disk[i] \in [1 .. torrent.files[i] -> 0 .. Length]
      /\ stored \subseteq AllBlocks /\ failed \in BOOLEAN
  BY DEF IInv, TypeOK
<1>2. /\ Fits(p, b * BlockSize, size)
      /\ start \in Nat /\ size \in Nat \ {0} /\ start + size <= Length
      /\ FileInfoFromPieceBlock(p, b * BlockSize, size) = Parts(start, start + size)
  BY <1>1, BlockFits
<1>3. <<p, b>> \in AllBlocks
  BY BlockIs
<1>4. torrent' = torrent
  BY DEF Store
<1>5. /\ Files' = Files /\ AllBlocks' = AllBlocks /\ Length' = Length
      /\ \A i : FileStart(i)' = FileStart(i)
      /\ \A x : BlockOf(x)' = BlockOf(x)
      /\ PeerDir' = PeerDir /\ DownloadDir' = DownloadDir
  <2>1. Length' = Length /\ PieceLength' = PieceLength
    BY <1>4 DEF Length, PieceLength
  <2>2. AllBlocks' = AllBlocks
    BY <2>1 DEF AllBlocks, T!AllBlocks, T!Pieces, T!Blocks, T!NumPieces, T!NumBlocks,
                T!LastPieceSize, T!DivCeil
  <2>3. QED
    BY <1>4, <2>1, <2>2 DEF Files, FileStart, BlockOf, PeerDir, DownloadDir
<1>6. CASE PeerDir # DownloadDir
  <2>1. failed' = TRUE /\ disk' = disk /\ stored' = stored
    BY <1>6 DEF Store
  <2>2. QED
    BY <1>1, <1>4, <1>5, <2>1 DEF IInv, TypeOK, Filled, NowhereToStore
<1>7. CASE PeerDir = DownloadDir
  <2>1. /\ disk' = Written(Parts(start, start + size), data)
        /\ stored' = stored \cup {<<p, b>>} /\ failed' = failed
    BY <1>2, <1>7 DEF Store
  <2>2. DOMAIN disk' = Files
    BY <2>1 DEF Written
  <2>3. ASSUME NEW i \in Files
        PROVE  disk'[i] = FileAfter(start, start + size, data, i)
    <3> DEFINE end == start + size
    <3>1. torrent \in Torrents /\ DOMAIN disk[i] = 1 .. torrent.files[i]
      BY <1>1
    <3>2. start \in Nat /\ end \in Nat /\ start <= end
      BY <1>2
    <3>3. disk' = Written(Parts(start, end), data)
      BY <2>1
    <3> HIDE DEF data, start, end
    <3>4. Written(Parts(start, end), data)[i] = FileAfter(start, end, data, i)
      BY <3>1, <3>2, RangeWritten
    <3>5. QED
      BY <3>3, <3>4 DEF end
  <2>4. ASSUME NEW i \in Files, NEW y \in 1 .. torrent.files[i]
        PROVE  /\ disk'[i][y] = IF BlockOf(FileStart(i) + y - 1) \in stored'
                                THEN FileStart(i) + y ELSE 0
               /\ disk'[i][y] \in 0 .. Length
    <3> DEFINE x == FileStart(i) + y - 1
    <3>1. /\ x \in 0 .. Length - 1 /\ Length \in Nat
          /\ FileStart(i) \in Nat /\ y \in Nat /\ x + 1 = FileStart(i) + y
      <4>1. FileStart(i) \in Nat /\ y \in Nat
        BY <1>1, FileLayout
      <4>2. x \in 0 .. Length - 1 /\ Length \in Nat
        BY <1>1, ByteIs, Sizes
      <4>3. QED
        BY <4>1, <4>2
    <3>2. (start <= x /\ x < start + size) <=> BlockOf(x) = <<p, b>>
      <4> HIDE DEF x
      <4>1. (start <= x /\ x < start + size) <=> Holds(<<p, b>>, x)
        BY DEF Holds, BlockStart
      <4>2. QED
        BY <1>1, <1>3, <3>1, <4>1, HoldsIs
    <3>3. disk[i][y] = IF BlockOf(x) \in stored THEN x + 1 ELSE 0
      BY <3>1 DEF IInv, Filled
    <3>4. disk'[i][y] = IF start <= x /\ x < start + size
                        THEN data[x - start + 1] ELSE disk[i][y]
      <4>1. disk'[i] = FileAfter(start, start + size, data, i)
        BY <2>3
      <4> HIDE DEF start, size, data
      <4>2. disk'[i][y] = AfterWrite(start, start + size, data, i, y)
        BY <4>1 DEF FileAfter
      <4>3. QED
        BY <4>2 DEF AfterWrite
    <3> HIDE DEF x, start, size
    <3>5. start <= x /\ x < start + size => data[x - start + 1] = x + 1
      BY <1>2, <3>1 DEF Content
    <3>6. disk'[i][y] = IF BlockOf(x) \in stored' THEN x + 1 ELSE 0
      BY <2>1, <3>2, <3>3, <3>4, <3>5
    <3>7. disk'[i][y] \in 0 .. Length
      BY <3>1, <3>6
    <3>8. QED
      BY <3>1, <3>6, <3>7 DEF x
  <2> HIDE DEF data, start, size
  <2>5. TypeOK'
    <3>1. \A i \in Files : disk'[i] \in [1 .. torrent.files[i] -> 0 .. Length]
      <4>1. ASSUME NEW i \in Files
            PROVE  disk'[i] \in [1 .. torrent.files[i] -> 0 .. Length]
        <5>1. disk'[i] = [y \in 1 .. torrent.files[i] |-> disk'[i][y]]
          BY <2>3 DEF FileAfter
        <5>2. QED
          BY <2>4, <5>1
      <4>2. QED
        BY <4>1
    <3>2. stored' \subseteq AllBlocks
      BY <1>1, <1>3, <2>1
    <3>3. QED
      BY <1>1, <1>4, <1>5, <2>1, <2>2, <3>1, <3>2 DEF TypeOK
  <2>6. Filled'
    BY <1>4, <1>5, <2>4 DEF Filled
  <2>7. QED
    BY <1>5, <1>7, <2>5, <2>6 DEF IInv, NowhereToStore
<1>8. QED
  BY <1>6, <1>7

LEMMA Invariance == Spec => []IInv
<1>1. IInv /\ [Next]_vars => IInv'
  <2> SUFFICES ASSUME IInv, [Next]_vars PROVE IInv'
    OBVIOUS
  <2>1. CASE Next
    <3>1. PICK pb \in AllBlocks : Store(pb[1], pb[2])
      BY <2>1 DEF Next
    <3>2. pb[1] \in Pieces /\ pb[2] \in Blocks(pb[1])
      BY BlockIs
    <3>3. QED
      BY <3>1, <3>2, StoreIInv
  <2>2. CASE UNCHANGED vars
    <3>1. torrent' = torrent /\ disk' = disk /\ stored' = stored /\ failed' = failed
      BY <2>2 DEF vars
    <3>2. Length' = Length /\ PieceLength' = PieceLength
      BY <3>1 DEF Length, PieceLength
    <3>3. AllBlocks' = AllBlocks
      BY <3>2 DEF AllBlocks, T!AllBlocks, T!Pieces, T!Blocks, T!NumPieces, T!NumBlocks,
                  T!LastPieceSize, T!DivCeil
    <3>4. QED
      BY <3>1, <3>2, <3>3 DEF IInv, TypeOK, Filled, NowhereToStore, Files, FileStart,
                              BlockOf, PeerDir, DownloadDir
  <2>3. QED
    BY <2>1, <2>2
<1>2. QED
  BY <1>1, InitIInv, PTL DEF Spec

\* Every file keeps its length, whatever is written to it, and only the tracker's
\* blocks are stored.
THEOREM TypeCorrect == Spec => []TypeOK
<1>1. IInv => TypeOK
  BY DEF IInv
<1>2. QED
  BY <1>1, Invariance, PTL

LEMMA AsFilled ==
  ASSUME IInv, NEW x \in 0 .. Length - 1
  PROVE  ByteAt(x) = IF BlockOf(x) \in stored THEN x + 1 ELSE 0
<1>1. torrent \in Torrents
  BY DEF IInv, TypeOK
<1>2. x \in Int
  BY <1>1, Sizes
<1>3. PICK i \in Files : InFile(i, x)
  BY <1>1, InSomeFile
<1> DEFINE y == x - FileStart(i) + 1
<1>4. /\ FileStart(i) \in Nat /\ torrent.files[i] \in Nat
      /\ FileEnd(i) = FileStart(i) + torrent.files[i]
  BY <1>1, FileLayout
<1>5. y \in 1 .. torrent.files[i] /\ FileStart(i) + y - 1 = x /\ FileStart(i) + y = x + 1
  BY <1>2, <1>3, <1>4 DEF InFile
<1> HIDE DEF y
<1>6. ByteAt(x) = disk[i][y]
  BY <1>1, <1>5, ByteIs
<1>7. QED
  BY <1>5, <1>6 DEF IInv, Filled

\* The monitor reads the bytes of its piece, and their number passes its check.
LEMMA PieceRead ==
  ASSUME torrent \in Torrents, NEW p \in Pieces
  PROVE  PieceData(p) = [j \in 1 .. PieceSize(p) |-> ByteAt(p * PieceLength + j - 1)]
<1> DEFINE start == p * PieceLength
<1> DEFINE end   == PieceEnd(p)
<1>1. /\ start \in Nat /\ PieceSize(p) \in 1 .. PieceLength /\ start + PieceSize(p) <= Length
      /\ PieceLength \in Nat /\ Length \in Nat
  BY Sizes, PieceSizes
<1>2. PieceSize(p) = end - start
  BY DEF PieceSize
<1>3. end \in Nat /\ start <= end /\ end <= Length
  <2>1. end \in Int
    <3>1. (p + 1) * PieceLength \in Int
      BY <1>1, Sizes, PieceSizes
    <3>2. QED
      BY <1>1, <3>1 DEF PieceEnd, Smaller
  <2>2. QED
    BY <1>1, <1>2, <2>1
<1>4. PieceSize(p) \in {PieceLength, Length % PieceLength}
  <2>1. CASE p # NumPieces - 1
    BY <2>1, PieceSizes
  <2>2. CASE p = NumPieces - 1
    <3>1. PieceSize(p) = Length - PieceLength * (NumPieces - 1)
      BY <2>2, PieceSizes
    <3>2. Length - PieceLength * (NumPieces - 1) =
            IF Length % PieceLength # 0 THEN Length % PieceLength ELSE PieceLength
      BY Sizes, PieceCount, LastPart
    <3>3. QED
      BY <3>1, <3>2
  <2>3. QED
    BY <2>1, <2>2
<1> HIDE DEF start, end
<1>5. Position(Parts(start, end), NumFiles + 1) = PieceSize(p)
  <2>1. NumFiles + 1 \in 1 .. NumFiles + 1 /\ FileStart(NumFiles + 1) = Length
    BY FileLayout
  <2>2. Position(Parts(start, end), NumFiles + 1) = Within(Length, start, end)
    BY <1>1, <1>3, <2>1, PartPositions
  <2>3. QED
    BY <1>1, <1>2, <1>3, <2>2 DEF Within, Smaller, Larger
<1>6. PieceData(p) = ReadParts(Parts(start, end), PieceSize(p))
  BY <1>4, <1>5, PartIs DEF PieceData, start, end
<1>7. QED
  BY <1>1, <1>2, <1>3, <1>6, RangeRead DEF start

\* What the monitor reads of a piece is what its blocks have brought, whatever files
\* the piece and its blocks run through and in whatever order they are stored.
THEOREM PieceGrows == Spec => []PieceIsItsBlocks
<1>1. ASSUME IInv, NEW p \in Pieces
      PROVE  PieceData(p) = [i \in 1 .. PieceEnd(p) - p * PieceLength |->
                               IF <<p, (i - 1) \div BlockSize>> \in stored
                               THEN p * PieceLength + i ELSE 0]
  <2>1. torrent \in Torrents
    BY <1>1 DEF IInv, TypeOK
  <2>2. /\ p \in Nat /\ p * PieceLength \in Nat
        /\ PieceSize(p) \in 1 .. PieceLength /\ p * PieceLength + PieceSize(p) <= Length
        /\ PieceLength \in Nat \ {0} /\ Length \in Nat
    BY <2>1, Sizes, PieceSizes
  <2>3. ASSUME NEW i \in 1 .. PieceSize(p)
        PROVE  ByteAt(p * PieceLength + i - 1) =
                 IF <<p, (i - 1) \div BlockSize>> \in stored THEN p * PieceLength + i ELSE 0
    <3> DEFINE start == p * PieceLength
    <3> DEFINE x == start + i - 1
    <3>1. /\ x \in 0 .. Length - 1 /\ x - start = i - 1 /\ x + 1 = start + i
          /\ x \in Nat /\ start <= x /\ x < start + PieceLength
      BY <2>2
    <3> HIDE DEF x
    <3>2. x \div PieceLength = p
      <4>1. PieceLength * p = start
        BY <2>2
      <4>2. QED
        BY <2>2, <3>1, <4>1, QuotientIs
    <3>3. BlockOf(x) = <<p, (i - 1) \div BlockSize>>
      BY <3>1, <3>2 DEF BlockOf
    <3>4. ByteAt(x) = IF BlockOf(x) \in stored THEN x + 1 ELSE 0
      BY <1>1, <3>1, AsFilled
    <3>5. QED
      BY <3>1, <3>3, <3>4 DEF x
  <2>4. PieceData(p) = [j \in 1 .. PieceSize(p) |-> ByteAt(p * PieceLength + j - 1)]
    BY <2>1, PieceRead
  <2>5. QED
    BY <2>3, <2>4 DEF PieceSize
<1>2. IInv => PieceIsItsBlocks
  BY <1>1 DEF PieceIsItsBlocks
<1>3. QED
  BY <1>2, Invariance, PTL

\* Of a verified piece a peer gets what it asks for, whatever range of it that is
\* and whether or not it begins with a block or ends with a file.
THEOREM UploadsHonest == Spec => []UploadsAreTrue
<1>1. ASSUME IInv, NEW p \in Pieces, Verified(p),
             NEW begin \in 0 .. PieceSize(p) - 1, NEW length \in 1 .. PieceSize(p) - begin
      PROVE  UploadData(p, begin, length) = Content(p * PieceLength + begin, length)
  <2> DEFINE first == p * PieceLength
  <2> DEFINE start == first + begin
  <2>1. torrent \in Torrents
    BY <1>1 DEF IInv, TypeOK
  <2>2. /\ p \in Nat /\ first \in Nat /\ first < Length
        /\ PieceSize(p) \in 1 .. PieceLength /\ first + PieceSize(p) <= Length
        /\ PieceLength \in Nat \ {0} /\ Length \in Nat
        /\ begin \in Nat /\ length \in Nat \ {0} /\ begin + length <= PieceSize(p)
    BY <2>1, Sizes, PieceSizes
  <2>3. ASSUME NEW j \in 1 .. PieceSize(p)
        PROVE  ByteAt(first + j - 1) = first + j
    <3>1. PieceData(p) = [i \in 1 .. PieceSize(p) |-> ByteAt(first + i - 1)]
      BY <2>1, PieceRead
    <3>2. PieceData(p) = [i \in 1 .. PieceSize(p) |-> first + i]
      BY <1>1 DEF Verified, Content, PieceSize
    <3> HIDE DEF first
    <3>3. QED
      BY <3>1, <3>2
  <2> HIDE DEF first
  <2>4. PeerDir = DownloadDir
    <3>1. CASE stored = {}
      <4>1. first \in 0 .. Length - 1 /\ 1 \in 1 .. PieceSize(p) /\ first + 1 - 1 = first
        BY <2>2
      <4>2. ByteAt(first) = first + 1
        BY <2>3, <4>1
      <4>3. ByteAt(first) = 0
        BY <1>1, <3>1, <4>1, AsFilled
      <4>4. QED
        BY <2>2, <4>2, <4>3
    <3>2. QED
      BY <1>1, <3>1 DEF IInv, NowhereToStore
  <2>5. Fits(p, begin, length)
    BY <2>2 DEF Fits, first
  <2>6. /\ start \in Nat /\ start + length \in Nat /\ start + length <= Length
        /\ FileInfoFromPieceBlock(p, begin, length) = Parts(start, start + length)
    BY <2>1, <2>2, <2>5, OneWay DEF first
  <2>7. UploadData(p, begin, length) = ReadParts(Parts(start, start + length), length)
    BY <2>4, <2>5, <2>6 DEF UploadData
  <2>8. ReadParts(Parts(start, start + length), length)
          = [j \in 1 .. length |-> ByteAt(start + j - 1)]
    <3>1. start <= start + length /\ (start + length) - start = length
      BY <2>2, <2>6
    <3> HIDE DEF start
    <3>2. ReadParts(Parts(start, start + length), (start + length) - start)
            = [j \in 1 .. (start + length) - start |-> ByteAt(start + j - 1)]
      BY <2>1, <2>6, <3>1, RangeRead
    <3>3. QED
      BY <3>1, <3>2
  <2>9. \A j \in 1 .. length : ByteAt(start + j - 1) = start + j
    <3>1. ASSUME NEW j \in 1 .. length PROVE ByteAt(start + j - 1) = start + j
      <4>1. begin + j \in 1 .. PieceSize(p) /\ first + (begin + j) - 1 = start + j - 1
            /\ first + (begin + j) = start + j
        BY <2>2
      <4>2. QED
        BY <2>3, <4>1
    <3>2. QED
      BY <3>1
  <2>10. QED
    BY <2>7, <2>8, <2>9 DEF Content, first
<1>2. IInv => UploadsAreTrue
  BY <1>1 DEF UploadsAreTrue, PieceSize
<1>3. QED
  BY <1>2, Invariance, PTL

=============================================================================
