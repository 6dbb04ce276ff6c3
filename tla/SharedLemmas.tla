---------------------------- MODULE SharedLemmas ----------------------------
(***************************************************************************)
(* What the operators of PieceTracker do, for torrents of any shape, and   *)
(* what a receiver of a broadcast channel holds before and after a send    *)
(* and a recv, for channels of any capacity and messages of any kind.  The *)
(* proofs about one tracker (PieceTrackerProofs), a connection             *)
(* (PeerSessionProofs) and a download (DownloadProofs) rest on them.       *)
(***************************************************************************)
EXTENDS PieceTracker, Broadcast, FiniteSetTheorems, WellFoundedInduction, TLAPS

-----------------------------------------------------------------------------
(* The shape of the torrent. *)

\* A non-empty set of naturals has a least element.
LEMMA LeastElement ==
  ASSUME NEW T \in SUBSET Nat, T # {}
  PROVE  \E x \in T : \A y \in T : x <= y
<1>1. OpToRel(<, Nat) = { ss \in Nat \X Nat : ss[1] < ss[2] }
  BY Zenon DEF OpToRel
<1>2. PICK x \in T : \A y \in T : <<y, x>> \notin OpToRel(<, Nat)
  BY NatLessThanWellFounded, WFMin
<1>3. ASSUME NEW y \in T PROVE x <= y
  <2>1. <<y, x>> \notin { ss \in Nat \X Nat : ss[1] < ss[2] }
    BY <1>1, <1>2
  <2>2. x \in Nat /\ y \in Nat /\ ~ y < x
    BY <2>1
  <2>3. QED
    BY <2>2
<1>4. QED
  BY <1>3

\* Piece and block counts are integers, and every block is a pair of naturals.
LEMMA Shape ==
  /\ NumPieces \in Int
  /\ Pieces \subseteq Nat
  /\ \A p \in Pieces : NumBlocks(p) \in Int
  /\ \A pb : pb \in AllBlocks <=> /\ pb \in Pieces \X Nat
                                  /\ pb[2] \in Blocks(pb[1])
<1>1. \A a \in Int, b \in Nat \ {0} : DivCeil(a, b) \in Int
  BY DEF DivCeil
<1>2. NumPieces \in Int
  BY <1>1, SizesAssumption DEF NumPieces
<1>3. \A p \in Pieces : NumBlocks(p) \in Int
  BY <1>1, <1>2, SizesAssumption DEF NumBlocks, LastPieceSize
<1>4. Pieces \subseteq Nat
  BY <1>2 DEF Pieces
<1>5. \A p \in Pieces : Blocks(p) \subseteq Nat
  BY <1>3 DEF Blocks
<1>6. ASSUME NEW pb
      PROVE  pb \in AllBlocks <=> \E p \in Pieces : pb \in {p} \X Blocks(p)
  BY Zenon DEF AllBlocks
<1>7. ASSUME NEW pb
      PROVE  pb \in AllBlocks <=> /\ pb \in Pieces \X Nat
                                 /\ pb[2] \in Blocks(pb[1])
  <2>1. ASSUME NEW p \in Pieces, pb \in {p} \X Blocks(p)
        PROVE  pb \in Pieces \X Nat /\ pb[2] \in Blocks(pb[1])
    BY <1>5, <2>1
  <2>2. ASSUME pb \in Pieces \X Nat, pb[2] \in Blocks(pb[1])
        PROVE  pb \in {pb[1]} \X Blocks(pb[1])
    BY <2>2
  <2>3. QED
    BY <1>6, <2>1, <2>2
<1>8. QED
  BY <1>2, <1>3, <1>4, <1>7

\* Rounding up a positive quotient gives at least one.
LEMMA DivCeilPositive ==
  ASSUME NEW a \in Nat \ {0}, NEW b \in Nat \ {0}
  PROVE  DivCeil(a, b) \in Nat \ {0}
<1>1. a + b - 1 >= b
  OBVIOUS
<1>2. (a + b - 1) \div b >= 1
  BY <1>1
<1>3. QED
  BY <1>2 DEF DivCeil

\* The last piece is not empty.
LEMMA LastPiecePositive == LastPieceSize \in Nat \ {0}
<1> DEFINE n == NumPieces
<1>1. n \in Nat \ {0}
  BY DivCeilPositive, SizesAssumption DEF NumPieces
<1>2. n * PieceLength <= FileLength + PieceLength - 1
  BY SizesAssumption DEF NumPieces, DivCeil
<1>3. (n - 1) * PieceLength = n * PieceLength - PieceLength
  BY <1>1, SizesAssumption
<1>4. QED
  <2> HIDE DEF n
  <2>1. (n - 1) * PieceLength \in Int /\ (n - 1) * PieceLength < FileLength
    BY <1>1, <1>2, <1>3, SizesAssumption
  <2>2. QED
    BY <2>1, SizesAssumption DEF LastPieceSize, n

\* Every piece has a block, so none is complete before something is stored.
LEMMA PiecesHaveBlocks ==
  ASSUME NEW p \in Pieces
  PROVE  /\ NumBlocks(p) \in Nat \ {0}
         /\ <<p, 0>> \in OfPiece(p)
<1>1. NumBlocks(p) \in Nat \ {0}
  BY DivCeilPositive, LastPiecePositive, SizesAssumption DEF NumBlocks
<1>2. 0 \in Blocks(p)
  BY <1>1 DEF Blocks
<1>3. <<p, 0>> \in AllBlocks
  BY <1>2, Shape
<1>4. QED
  BY <1>1, <1>3 DEF OfPiece

\* Block n of a piece is a block of the torrent.
LEMMA BlockOfPiece ==
  ASSUME NEW p \in Pieces, NEW n \in Nat, n < NumBlocks(p)
  PROVE  <<p, n>> \in OfPiece(p)
<1>1. n \in Blocks(p)
  BY Shape DEF Blocks
<1>2. <<p, n>> \in AllBlocks
  BY <1>1, Shape
<1>3. QED
  BY <1>2 DEF OfPiece

LEMMA AllBlocksFinite == IsFiniteSet(AllBlocks)
<1> DEFINE inside == DivCeil(PieceLength, BlockSize)
<1> DEFINE atEnd == DivCeil(LastPieceSize, BlockSize)
<1>1. inside \in Int /\ atEnd \in Int
  BY Shape, SizesAssumption DEF DivCeil, LastPieceSize
<1>2. \A p \in Pieces : NumBlocks(p) \in {inside, atEnd}
  BY DEF NumBlocks
<1>3. AllBlocks \subseteq Pieces \X ((0 .. inside - 1) \cup (0 .. atEnd - 1))
  <2> HIDE DEF inside, atEnd
  <2>1. ASSUME NEW pb \in AllBlocks
        PROVE  pb[2] \in (0 .. inside - 1) \cup (0 .. atEnd - 1)
    <3>1. pb[1] \in Pieces /\ pb[2] \in Blocks(pb[1])
      BY Shape
    <3>2. pb[2] \in 0 .. NumBlocks(pb[1]) - 1
      BY <3>1 DEF Blocks
    <3>3. NumBlocks(pb[1]) = inside \/ NumBlocks(pb[1]) = atEnd
      BY <1>2, <3>1
    <3>4. QED
      BY <3>2, <3>3
  <2>2. \A pb \in AllBlocks : pb \in Pieces \X Nat
    BY Shape
  <2>3. QED
    BY <2>1, <2>2
<1>4. IsFiniteSet(Pieces)
  BY Shape, FS_Interval DEF Pieces
<1>5. IsFiniteSet(0 .. inside - 1) /\ IsFiniteSet(0 .. atEnd - 1)
  BY <1>1, FS_Interval
<1>6. IsFiniteSet((0 .. inside - 1) \cup (0 .. atEnd - 1))
  BY <1>5, FS_Union
<1>7. IsFiniteSet(Pieces \X ((0 .. inside - 1) \cup (0 .. atEnd - 1)))
  BY <1>4, <1>6, FS_Product
<1>8. QED
  BY <1>3, <1>7, FS_Subset

\* A set of blocks is finite, and its cardinality is a natural number.
LEMMA BlockSetsFinite ==
  ASSUME NEW S \in SUBSET AllBlocks
  PROVE  IsFiniteSet(S) /\ Cardinality(S) \in Nat
BY AllBlocksFinite, FS_Subset, FS_CardinalityType

-----------------------------------------------------------------------------
(* What the operations do to the sets of blocks. *)

\* r is a result of asking for some block of piece p.
Takes(t, p, r) ==
  \E pb \in UnRequestedOf(t, p) :
    r = [ tracker |-> [ num_requested |-> t.num_requested + 1,
                        blocks        |-> [t.blocks EXCEPT ![pb] = "Requested"],
                        requested     |-> p ],
          answer  |-> pb ]

\* Take finds a first unrequested block.
LEMMA TakeTakes ==
  ASSUME NEW t, NEW p, UnRequestedOf(t, p) # {}
  PROVE  Takes(t, p, Take(t, p))
<1> DEFINE U == UnRequestedOf(t, p)
<1> DEFINE second == { pb[2] : pb \in U }
<1> DEFINE first == CHOOSE pb \in U : \A other \in U : pb[2] <= other[2]
<1>1. \A pb \in U : pb[2] \in Nat
  BY Shape DEF UnRequestedOf, OfPiece
<1>2. second \in SUBSET Nat /\ second # {}
  BY <1>1
<1>3. PICK x \in second : \A y \in second : x <= y
  BY <1>2, LeastElement
<1>4. \E pb \in U : \A other \in U : pb[2] <= other[2]
  BY <1>3
<1>5. first \in U
  BY <1>4
<1>6. QED
  BY <1>5 DEF Takes, Take

\* The three outcomes of `request`: nothing, nothing but the piece under way is
\* given up, or one more block of the piece under way or of one that was offered.
LEMMA RequestResults ==
  ASSUME NEW t \in Tracker, NEW pieces, NEW r \in Request(t, pieces)
  PROVE  \/ r = [tracker |-> t, answer |-> None]
         \/ /\ r = [tracker |-> [t EXCEPT !.requested = None], answer |-> None]
            /\ t.requested # None
            /\ UnRequestedOf(t, t.requested) = {}
         \/ /\ t.num_requested < PipelineLen
            /\ \E p \in Pieces :
                 /\ \/ t.requested = p
                    \/ p \in pieces /\ t.requested = None
                    \/ p \in pieces /\ UnRequestedOf(t, t.requested) = {}
                 /\ Takes(t, p, r)
<1> DEFINE dropped == [t EXCEPT !.requested = None]
<1>1. ASSUME NEW u, r \in TakeNewPiece(u, pieces)
      PROVE  \/ r = [tracker |-> u, answer |-> None]
             \/ \E p \in pieces \cap Pieces : Takes(u, p, r)
  BY <1>1, TakeTakes DEF TakeNewPiece
<1>2. CASE t.num_requested >= PipelineLen
  BY <1>2 DEF Request
<1>3. CASE t.num_requested < PipelineLen /\ t.requested = None
  <2>1. r \in TakeNewPiece(t, pieces)
    BY <1>3, SizesAssumption DEF Request, Tracker
  <2>2. QED
    BY <1>1, <1>3, <2>1
<1>4. CASE t.num_requested < PipelineLen /\ t.requested # None
  <2>1. t.requested \in Pieces /\ ~ t.num_requested >= PipelineLen
    BY <1>4, SizesAssumption DEF Tracker
  <2>2. CASE UnRequestedOf(t, t.requested) # {}
    <3>1. r = Take(t, t.requested)
      BY <1>4, <2>1, <2>2 DEF Request
    <3>2. QED
      BY <1>4, <2>1, <2>2, <3>1, TakeTakes
  <2>3. CASE UnRequestedOf(t, t.requested) = {}
    <3>1. r \in TakeNewPiece(dropped, pieces)
      BY <1>4, <2>1, <2>3 DEF Request
    <3>2. \A p : Takes(dropped, p, r) => Takes(t, p, r)
      BY DEF Takes, UnRequestedOf, Tracker
    <3>3. QED
      BY <1>1, <1>4, <2>3, <3>1, <3>2
  <2>4. QED
    BY <2>2, <2>3
<1>5. QED
  BY <1>2, <1>3, <1>4, SizesAssumption DEF Tracker

\* Asking for a block moves it from the unrequested to the pending ones.
LEMMA AskEffect ==
  ASSUME NEW t \in Tracker, NEW p \in Pieces, NEW r, NEW pb \in UnRequestedOf(t, p),
         r = [ num_requested |-> t.num_requested + 1,
               blocks        |-> [t.blocks EXCEPT ![pb] = "Requested"],
               requested     |-> p ]
  PROVE  /\ r \in Tracker
         /\ pb \in AllBlocks \ PendingRequests(t)
         /\ pb \notin InState(t, "Completed")
         /\ PendingRequests(r) = PendingRequests(t) \cup {pb}
         /\ InState(r, "Completed") = InState(t, "Completed")
         /\ \A q : UnRequestedOf(r, q) = UnRequestedOf(t, q) \ {pb}
<1>1. pb \in AllBlocks /\ t.blocks[pb] = "UnRequested"
  BY DEF UnRequestedOf, OfPiece
<1>2. r.blocks = [t.blocks EXCEPT ![pb] = "Requested"] /\ r \in Tracker
  BY <1>1 DEF Tracker, BlockState
<1>3. \A b \in AllBlocks : r.blocks[b] = IF b = pb THEN "Requested" ELSE t.blocks[b]
  BY <1>1, <1>2 DEF Tracker
<1>4. PendingRequests(r) = PendingRequests(t) \cup {pb}
  BY <1>1, <1>3 DEF PendingRequests, InState
<1>5. InState(r, "Completed") = InState(t, "Completed")
  BY <1>1, <1>3 DEF InState
<1>6. \A q : UnRequestedOf(r, q) = UnRequestedOf(t, q) \ {pb}
  BY <1>1, <1>3 DEF UnRequestedOf, OfPiece
<1>7. QED
  BY <1>1, <1>2, <1>4, <1>5, <1>6 DEF PendingRequests, InState

\* r is t after the blocks of S landed: they are Completed, and those that were
\* pending are counted off num_requested.
Lands(t, S, r) ==
  /\ r.blocks = [b \in AllBlocks |-> IF b \in S THEN "Completed" ELSE t.blocks[b]]
  /\ r.num_requested = t.num_requested - Cardinality(S \cap PendingRequests(t))
  /\ r.requested = t.requested
  /\ r = [num_requested |-> r.num_requested,
          blocks        |-> r.blocks,
          requested     |-> r.requested]

LEMMA LandEffect ==
  ASSUME NEW t \in Tracker, NEW S \in SUBSET AllBlocks, NEW r, Lands(t, S, r)
  PROVE  /\ PendingRequests(r) = PendingRequests(t) \ S
         /\ InState(r, "Completed") = InState(t, "Completed") \cup S
         /\ \A q : UnRequestedOf(r, q) = UnRequestedOf(t, q) \ S
<1>1. \A b \in AllBlocks : r.blocks[b] = IF b \in S THEN "Completed" ELSE t.blocks[b]
  BY DEF Lands
<1>2. PendingRequests(r) = PendingRequests(t) \ S
  BY <1>1 DEF PendingRequests, InState
<1>3. InState(r, "Completed") = InState(t, "Completed") \cup S
  BY <1>1 DEF InState
<1>4. \A q : UnRequestedOf(r, q) = UnRequestedOf(t, q) \ S
  BY <1>1 DEF UnRequestedOf, OfPiece
<1>5. QED
  BY <1>2, <1>3, <1>4

\* Both completion methods land a set of blocks.
LEMMA MarkBlockLands ==
  ASSUME NEW t \in Tracker, NEW pb \in AllBlocks
  PROVE  Lands(t, {pb}, MarkBlockAsDownloaded(t, pb))
<1> DEFINE r == MarkBlockAsDownloaded(t, pb)
<1>1. r.blocks = [b \in AllBlocks |-> IF b \in {pb} THEN "Completed" ELSE t.blocks[b]]
  BY DEF MarkBlockAsDownloaded, Tracker
<1>2. r.num_requested = t.num_requested - Cardinality({pb} \cap PendingRequests(t))
  <2>1. CASE pb \in PendingRequests(t)
    <3>1. {pb} \cap PendingRequests(t) = {pb} /\ t.blocks[pb] = "Requested"
      BY <2>1 DEF PendingRequests, InState
    <3>2. QED
      BY <3>1, FS_Singleton DEF MarkBlockAsDownloaded, Tracker
  <2>2. CASE pb \notin PendingRequests(t)
    <3>1. {pb} \cap PendingRequests(t) = {} /\ t.blocks[pb] # "Requested"
      BY <2>2 DEF PendingRequests, InState
    <3>2. r.num_requested = t.num_requested
      BY <3>1 DEF MarkBlockAsDownloaded, Tracker
    <3>3. Cardinality({pb} \cap PendingRequests(t)) = 0
      BY <3>1, FS_EmptySet
    <3>4. QED
      BY <3>2, <3>3 DEF Tracker
  <2>3. QED
    BY <2>1, <2>2
<1>3. /\ r.requested = t.requested
      /\ r = [num_requested |-> r.num_requested,
              blocks        |-> r.blocks,
              requested     |-> r.requested]
  BY DEF MarkBlockAsDownloaded, Tracker
<1>4. QED
  BY <1>1, <1>2, <1>3 DEF Lands

LEMMA MarkPieceLands ==
  ASSUME NEW t \in Tracker, NEW p \in Pieces
  PROVE  Lands(t, OfPiece(p), MarkPieceAsDownloaded(t, p))
<1> DEFINE r == MarkPieceAsDownloaded(t, p)
<1> DEFINE C == Cardinality(OfPiece(p) \cap PendingRequests(t))
<1> DEFINE B == [b \in AllBlocks |-> IF b[1] = p THEN "Completed" ELSE t.blocks[b]]
<1>1. r = [num_requested |-> t.num_requested - C,
           blocks        |-> B,
           requested     |-> t.requested]
  <2>1. r = [t EXCEPT !.num_requested = t.num_requested - C, !.blocks = B]
    BY DEF MarkPieceAsDownloaded
  <2> HIDE DEF r, B, C
  <2>2. QED
    BY <2>1 DEF Tracker
<1>2. \A b \in AllBlocks : b \in OfPiece(p) <=> b[1] = p
  BY DEF OfPiece
<1>3. QED
  BY <1>1, <1>2 DEF Lands

\* When `request` answers None, either the pipeline is full or no piece the
\* peer offers has a block left to ask for.
LEMMA NoneAnswer ==
  ASSUME NEW t \in Tracker, NEW pieces \in SUBSET Pieces,
         NEW r \in Request(t, pieces), r.answer = None,
         ~ t.num_requested >= PipelineLen
  PROVE  \A p \in pieces : UnRequestedOf(t, p) = {}
<1>1. ASSUME NEW u, NEW p, Takes(u, p, r)
      PROVE  FALSE
  <2>1. r.answer \in AllBlocks
    BY <1>1 DEF Takes, UnRequestedOf, OfPiece
  <2>2. r.answer \in Pieces \X Nat /\ Pieces \subseteq Nat
    BY <2>1, Shape
  <2>3. None \in Nat \X Nat
    BY <2>2
  <2>4. QED
    BY <2>3, NoneAssumption
<1>2. ASSUME NEW u, r \in TakeNewPiece(u, pieces)
      PROVE  \A p \in pieces : UnRequestedOf(u, p) = {}
  <2> SUFFICES ASSUME NEW p \in pieces, UnRequestedOf(u, p) # {} PROVE FALSE
    OBVIOUS
  <2>1. \E q \in Pieces : UnRequestedOf(u, q) # {} /\ r = Take(u, q)
    BY <1>2 DEF TakeNewPiece
  <2>2. QED
    BY <1>1, <2>1, TakeTakes
<1>3. CASE t.requested = None
  BY <1>2, <1>3 DEF Request
<1>4. CASE t.requested # None /\ UnRequestedOf(t, t.requested) # {}
  BY <1>1, <1>4, TakeTakes DEF Request
<1>5. CASE t.requested # None /\ UnRequestedOf(t, t.requested) = {}
  <2> DEFINE dropped == [t EXCEPT !.requested = None]
  <2>1. r \in TakeNewPiece(dropped, pieces)
    BY <1>5 DEF Request
  <2>2. \A p : UnRequestedOf(dropped, p) = UnRequestedOf(t, p)
    BY DEF UnRequestedOf, Tracker
  <2>3. QED
    BY <1>2, <2>1, <2>2
<1>6. QED
  BY <1>3, <1>4, <1>5

\* A tracker that copies a bitfield.
LEMMA CopiedTracker ==
  ASSUME NEW bitfield
  PROVE  /\ Update(FromFileInfo, bitfield) \in Tracker
         /\ Update(FromFileInfo, bitfield).num_requested = 0
         /\ Update(FromFileInfo, bitfield).requested = None
         /\ PendingRequests(Update(FromFileInfo, bitfield)) = {}
         /\ InState(Update(FromFileInfo, bitfield), "Completed") =
              { pb \in AllBlocks : pb[1] \in bitfield }
<1>1. Update(FromFileInfo, bitfield) =
        [ num_requested |-> 0,
          blocks        |-> [pb \in AllBlocks |->
                               IF pb[1] \in bitfield THEN "Completed" ELSE "UnRequested"],
          requested     |-> None ]
  BY DEF Update, FromFileInfo
<1>2. QED
  BY <1>1 DEF Tracker, BlockState, PendingRequests, InState

-----------------------------------------------------------------------------
(* num_requested counts the pending requests. *)

Counted(t) == t \in Tracker /\ t.num_requested = Cardinality(PendingRequests(t))

LEMMA CopyCounted ==
  ASSUME NEW bitfield
  PROVE  Counted(Update(FromFileInfo, bitfield))
BY CopiedTracker, FS_EmptySet DEF Counted

\* The block taken is a new one.
LEMMA TakeCounted ==
  ASSUME NEW t, Counted(t), NEW p \in Pieces, NEW r, Takes(t, p, r)
  PROVE  Counted(r.tracker) /\ r.answer \in AllBlocks /\ r.answer[1] = p
<1> DEFINE P == PendingRequests(t)
<1> DEFINE u(pb) == [ num_requested |-> t.num_requested + 1,
                      blocks        |-> [t.blocks EXCEPT ![pb] = "Requested"],
                      requested     |-> p ]
<1>1. PICK pb \in UnRequestedOf(t, p) : r = [tracker |-> u(pb), answer |-> pb]
  BY DEF Takes
<1>2. r.tracker = u(pb) /\ r.answer = pb
  <2> HIDE DEF u
  <2>1. QED
    BY <1>1
<1>3. t \in Tracker /\ t.num_requested = Cardinality(P) /\ IsFiniteSet(P)
  BY BlockSetsFinite DEF Counted, PendingRequests, InState
<1>4. /\ u(pb) \in Tracker /\ pb \in AllBlocks \ P
      /\ PendingRequests(u(pb)) = P \cup {pb}
  BY <1>3, AskEffect
<1>5. Cardinality(P \cup {pb}) = Cardinality(P) + 1
  BY <1>3, <1>4, FS_AddElement
<1>6. u(pb).num_requested = t.num_requested + 1
  OBVIOUS
<1>7. pb[1] = p
  BY DEF UnRequestedOf, OfPiece
<1> HIDE DEF u
<1>8. QED
  BY <1>2, <1>3, <1>4, <1>5, <1>6, <1>7 DEF Counted

\* Only pending blocks are counted off, so the count never falls below zero.
LEMMA LandCounted ==
  ASSUME NEW t, Counted(t), NEW S \in SUBSET AllBlocks, NEW r, Lands(t, S, r)
  PROVE  Counted(r)
<1> DEFINE P == PendingRequests(t)
<1>0. /\ t \in Tracker /\ t.num_requested = Cardinality(P) /\ IsFiniteSet(P)
      /\ P \in SUBSET AllBlocks
  BY BlockSetsFinite DEF Counted, PendingRequests, InState
<1>1. PendingRequests(r) = P \ S
  BY <1>0, LandEffect
<1>2. Cardinality(P \ S) = Cardinality(P) - Cardinality(S \cap P)
  <2>1. P \cap S = S \cap P
    OBVIOUS
  <2>2. Cardinality(P \ S) = Cardinality(P) - Cardinality(P \cap S)
    BY <1>0, FS_Difference
  <2>3. QED
    BY <2>1, <2>2
<1>3. r.num_requested = Cardinality(P \ S)
  BY <1>0, <1>2 DEF Lands
<1>4. Cardinality(P \ S) \in Nat
  BY <1>0, BlockSetsFinite
<1>5. r \in Tracker
  BY <1>0, <1>3, <1>4 DEF Lands, Tracker, BlockState
<1>6. QED
  BY <1>1, <1>3, <1>5 DEF Counted

-----------------------------------------------------------------------------
(* Broadcast channels. *)

\* A receiver of a channel that holds `capacity` messages.
Bounded(rx, Message, capacity) ==
  rx \in Receiver(Message) /\ Len(rx.q) <= capacity

LEMMA NoMessagesHeld ==
  ASSUME NEW Message, NEW capacity \in Nat
  PROVE  /\ Bounded(NoMessages, Message, capacity)
         /\ Unread(NoMessages) = {} /\ ~NoMessages.missed
BY DEF Bounded, NoMessages, Receiver, Unread

\* A sequence holds the elements of its tail, and its head.
LEMMA HeadAndTail ==
  ASSUME NEW S, NEW q \in Seq(S), q # <<>>
  PROVE  /\ Head(q) \in S /\ Tail(q) \in Seq(S) /\ Len(Tail(q)) = Len(q) - 1
         /\ { q[i] : i \in 1 .. Len(q) } =
              { Tail(q)[i] : i \in 1 .. Len(Tail(q)) } \cup {Head(q)}
<1>1. Len(q) \in Nat \ {0} /\ Head(q) = q[1] /\ Head(q) \in S
  OBVIOUS
<1>2. /\ Tail(q) \in Seq(S) /\ Len(Tail(q)) = Len(q) - 1
      /\ \A i \in 1 .. Len(q) - 1 : Tail(q)[i] = q[i + 1]
  OBVIOUS
<1>3. ASSUME NEW i \in 1 .. Len(q), i # 1
      PROVE  i - 1 \in 1 .. Len(Tail(q)) /\ q[i] = Tail(q)[i - 1]
  BY <1>1, <1>2, <1>3
<1>4. ASSUME NEW i \in 1 .. Len(Tail(q))
      PROVE  i + 1 \in 1 .. Len(q) /\ Tail(q)[i] = q[i + 1]
  BY <1>1, <1>2, <1>4
<1>5. { q[i] : i \in 1 .. Len(q) } \subseteq
        { Tail(q)[i] : i \in 1 .. Len(Tail(q)) } \cup {Head(q)}
  <2> SUFFICES ASSUME NEW i \in 1 .. Len(q)
               PROVE  q[i] \in { Tail(q)[j] : j \in 1 .. Len(Tail(q)) } \cup {Head(q)}
    OBVIOUS
  <2>1. CASE i = 1
    BY <1>1, <2>1
  <2>2. CASE i # 1
    BY <1>3, <2>2, Zenon
  <2>3. QED
    BY <2>1, <2>2
<1>6. { Tail(q)[i] : i \in 1 .. Len(Tail(q)) } \subseteq { q[i] : i \in 1 .. Len(q) }
  BY <1>4
<1>7. Head(q) \in { q[i] : i \in 1 .. Len(q) }
  BY <1>1
<1>8. QED
  BY <1>1, <1>2, <1>5, <1>6, <1>7

\* Appending adds one element.
LEMMA Appended ==
  ASSUME NEW S, NEW q \in Seq(S), NEW m \in S
  PROVE  /\ Append(q, m) \in Seq(S) /\ Len(Append(q, m)) = Len(q) + 1
         /\ { Append(q, m)[i] : i \in 1 .. Len(Append(q, m)) } =
              { q[i] : i \in 1 .. Len(q) } \cup {m}
<1>1. /\ Append(q, m) \in Seq(S) /\ Len(Append(q, m)) = Len(q) + 1
      /\ \A i \in 1 .. Len(q) : Append(q, m)[i] = q[i]
      /\ Append(q, m)[Len(q) + 1] = m /\ Len(q) \in Nat
  OBVIOUS
<1>2. \A i \in 1 .. Len(q) + 1 : i \in 1 .. Len(q) \/ i = Len(q) + 1
  BY <1>1
<1>3. \A i \in 1 .. Len(q) : i \in 1 .. Len(q) + 1
  BY <1>1
<1>4. QED
  BY <1>1, <1>2, <1>3

\* A send: the message is there, and older ones are lost only with a gap.
LEMMA PushEffect ==
  ASSUME NEW Message, NEW capacity \in Nat \ {0}, NEW m \in Message, NEW rx,
         Bounded(rx, Message, capacity)
  PROVE  /\ Bounded(Push(rx, m, capacity), Message, capacity)
         /\ m \in Unread(Push(rx, m, capacity))
         /\ Unread(Push(rx, m, capacity)) \subseteq Unread(rx) \cup {m}
         /\ \/ Push(rx, m, capacity).missed
            \/ /\ ~rx.missed
               /\ Unread(rx) \subseteq Unread(Push(rx, m, capacity))
         /\ rx.missed => Push(rx, m, capacity).missed
<1> DEFINE pushed == Push(rx, m, capacity)
<1>0. /\ rx.q \in Seq(Message) /\ rx.missed \in BOOLEAN /\ Len(rx.q) \in Nat
      /\ rx = [q |-> rx.q, missed |-> rx.missed] /\ Len(rx.q) <= capacity
  BY DEF Bounded, Receiver
<1>1. CASE Len(rx.q) < capacity
  <2>1. pushed = [q |-> Append(rx.q, m), missed |-> rx.missed]
    BY <1>0, <1>1 DEF Push
  <2>2. /\ Append(rx.q, m) \in Seq(Message) /\ Len(Append(rx.q, m)) = Len(rx.q) + 1
        /\ Unread(pushed) = Unread(rx) \cup {m}
    BY <1>0, <2>1, Appended DEF Unread
  <2> HIDE DEF pushed
  <2>3. Bounded(pushed, Message, capacity)
    BY <1>0, <1>1, <2>1, <2>2 DEF Bounded, Receiver
  <2>4. pushed.missed = rx.missed
    BY <2>1
  <2>5. QED
    BY <1>0, <2>2, <2>3, <2>4 DEF pushed
<1>2. CASE Len(rx.q) = capacity
  <2>1. pushed = [q |-> Append(Tail(rx.q), m), missed |-> TRUE]
    BY <1>0, <1>2 DEF Push
  <2>2. rx.q # <<>>
    BY <1>0, <1>2
  <2>3. /\ Tail(rx.q) \in Seq(Message) /\ Len(Tail(rx.q)) = Len(rx.q) - 1
        /\ { Tail(rx.q)[i] : i \in 1 .. Len(Tail(rx.q)) } \subseteq Unread(rx)
    BY <1>0, <2>2, HeadAndTail DEF Unread
  <2>4. /\ Append(Tail(rx.q), m) \in Seq(Message)
        /\ Len(Append(Tail(rx.q), m)) = Len(rx.q)
        /\ Unread(pushed) = { Tail(rx.q)[i] : i \in 1 .. Len(Tail(rx.q)) } \cup {m}
    BY <1>0, <2>1, <2>3, Appended DEF Unread
  <2> HIDE DEF pushed
  <2>5. Bounded(pushed, Message, capacity)
    BY <1>0, <2>1, <2>4 DEF Bounded, Receiver
  <2>6. pushed.missed = TRUE
    BY <2>1
  <2>7. QED
    BY <2>3, <2>4, <2>5, <2>6 DEF pushed
<1>3. QED
  BY <1>0, <1>1, <1>2

\* A recv that fails with Lagged.
LEMMA LagEffect ==
  ASSUME NEW Message, NEW capacity, NEW rx, Bounded(rx, Message, capacity), Lags(rx)
  PROVE  /\ Bounded(Received(rx), Message, capacity)
         /\ Unread(Received(rx)) = Unread(rx) /\ ~Received(rx).missed
BY DEF Bounded, Receiver, Lags, Received, Unread

\* A recv that returns m: all else stays.
LEMMA DeliverEffect ==
  ASSUME NEW Message, NEW capacity \in Nat, NEW rx, NEW m,
         Bounded(rx, Message, capacity), Delivers(rx, m)
  PROVE  /\ Bounded(Received(rx), Message, capacity)
         /\ Unread(rx) = Unread(Received(rx)) \cup {m}
         /\ ~rx.missed /\ ~Received(rx).missed
<1> DEFINE left == Received(rx)
<1>0. /\ rx.q \in Seq(Message) /\ rx.q # <<>> /\ m = Head(rx.q) /\ ~rx.missed
      /\ rx = [q |-> rx.q, missed |-> rx.missed] /\ Len(rx.q) <= capacity
  BY DEF Bounded, Receiver, Delivers
<1>1. left = [q |-> Tail(rx.q), missed |-> rx.missed]
  BY <1>0 DEF Received
<1>2. /\ Tail(rx.q) \in Seq(Message) /\ Len(Tail(rx.q)) = Len(rx.q) - 1
      /\ Unread(rx) = Unread(left) \cup {m}
  <2>1. left.q = Tail(rx.q)
    BY <1>1
  <2> HIDE DEF left
  <2>2. /\ Tail(rx.q) \in Seq(Message) /\ Len(Tail(rx.q)) = Len(rx.q) - 1
        /\ { rx.q[i] : i \in 1 .. Len(rx.q) } =
             { Tail(rx.q)[i] : i \in 1 .. Len(Tail(rx.q)) } \cup {Head(rx.q)}
    BY <1>0, HeadAndTail
  <2>3. QED
    BY <1>0, <2>1, <2>2 DEF Unread
<1> HIDE DEF left
<1>3. Bounded(left, Message, capacity)
  BY <1>0, <1>1, <1>2 DEF Bounded, Receiver
<1>4. QED
  BY <1>0, <1>1, <1>2, <1>3 DEF left

=============================================================================
