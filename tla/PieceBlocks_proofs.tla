-------------------------- MODULE PieceBlocks_proofs --------------------------
(* Theorems about PieceBlocks, for any set of torrents, any word size and  *)
(* any size of blocks.                                                     *)
EXTENDS PieceBlocks, TLAPS

LEMMA ModIsSmall == ASSUME NEW a \in Nat, NEW n \in Nat \ {0}
                    PROVE  a % n \in 0 .. n - 1 /\ a % n \in Nat /\ (a < n => a % n = a)
OBVIOUS

LEMMA ModFixed == ASSUME NEW a \in Nat, NEW n \in Nat \ {0}, a % n = a PROVE a < n
BY ModIsSmall

LEMMA Product == ASSUME NEW a \in Nat, NEW b \in Nat PROVE a * b \in Nat
OBVIOUS

LEMMA Cancel == ASSUME NEW a \in Nat, NEW b \in Nat, NEW p \in Nat \ {0}, a * p = p * b
                PROVE  a = b
OBVIOUS
(* The numbers of a piece.                                                 *)
LEMMA PieceNumbers ==
  ASSUME TypeOK, NEW i \in Nat, IsPiece(i)
  PROVE  /\ torrent.piece \in Nat \ {0} /\ FirstByte(i) \in Nat
         /\ FullSize(i) \in Nat \ {0}
         /\ Size(i) \in 0 .. WordSize - 1
         /\ Fits(i) => Size(i) = FullSize(i)
<1>1. torrent.piece \in Nat \ {0} /\ torrent.length \in Nat
  BY TorrentAssumption DEF TypeOK
<1>2. torrent.piece * i \in Nat
  BY <1>1, Product
<1>3. FullSize(i) \in Nat \ {0}
  BY <1>1, <1>2 DEF IsPiece, FullSize, Least
<1>4. Size(i) \in 0 .. WordSize - 1 /\ (FullSize(i) < WordSize => Size(i) = FullSize(i))
  BY <1>3, ModIsSmall, WordAssumption DEF Size
<1> QED BY <1>1, <1>2, <1>3, <1>4 DEF FirstByte, Fits

(* Where the uploader finds the first byte of a piece.                     *)
Start(i) == (i % WordSize) * torrent.piece

LEMMA StartOfPiece ==
  ASSUME TypeOK, NEW i \in Nat, IsPiece(i)
  PROVE  /\ Start(i) \in Nat
         /\ i < WordSize => Start(i) = FirstByte(i)
         /\ Start(i) = FirstByte(i) => i < WordSize
<1>1. torrent.piece \in Nat \ {0} /\ FirstByte(i) \in Nat
  BY PieceNumbers
<1>2. i % WordSize \in Nat /\ (i < WordSize => i % WordSize = i)
  BY ModIsSmall, WordAssumption
<1>3. Start(i) \in Nat
  BY <1>1, <1>2, Product DEF Start
<1>4. ASSUME i < WordSize PROVE Start(i) = FirstByte(i)
  BY <1>1, <1>2, <1>4 DEF Start, FirstByte
<1>5. ASSUME Start(i) = FirstByte(i) PROVE i < WordSize
  <2>1. i % WordSize = i
    BY <1>1, <1>2, <1>5, Cancel DEF Start, FirstByte
  <2> QED BY <2>1, ModFixed, WordAssumption
<1> QED BY <1>3, <1>4, <1>5

(* The inductive invariant.  The properties speak of sets of bytes; what   *)
(* makes them inductive is that the bytes asked for so far are those from  *)
(* the start of the piece up to begin_offset, and that begin_offset and    *)
(* remain add up to the size that PieceRequest::new computed.              *)
Asked(n) == Start(index) .. Start(index) + n - 1

Progress ==
  /\ pc = "loop" => /\ IsPiece(index)
                    /\ begin + remain = Size(index)
                    /\ asked = Asked(begin)
  /\ pc \in {"right", "mismatch"} =>
       /\ IsPiece(index)
       /\ asked = Asked(Size(index))
       /\ (pc = "right") <=> (asked = BytesOf(index))

IInv == TypeOK /\ Progress

LEMMA InitOK == Init => IInv
BY WordAssumption DEF Init, IInv, TypeOK, Progress

LEMMA TakePieceOK ==
  ASSUME IInv, NEW i \in 0 .. torrent.length, TakePiece(i) PROVE IInv'
<1>1. torrent.length \in Nat
  BY TorrentAssumption DEF IInv, TypeOK
<1>2. i \in Nat
  BY <1>1
<1>3. Size(i) \in 0 .. WordSize - 1 /\ Start(i) \in Nat
  BY <1>2, PieceNumbers, StartOfPiece DEF TakePiece, IInv
<1>4. TypeOK'
  BY <1>2, <1>3, WordAssumption DEF IInv, TypeOK, TakePiece
<1>5. Progress'
  <2>1. index' = i /\ begin' = 0 /\ remain' = Size(i) /\ asked' = {} /\ pc' = "loop"
        /\ torrent' = torrent /\ IsPiece(i)
    BY DEF TakePiece
  <2>2. Size(i)' = Size(i) /\ IsPiece(i)' = IsPiece(i) /\ Start(i)' = Start(i)
    BY <2>1 DEF Size, FullSize, IsPiece, Start
  <2>3. Size(index)' = Size(i) /\ IsPiece(index)'
    BY <2>1, <2>2 DEF Size, FullSize, IsPiece
  <2>4. Start(index)' = Start(i)
    BY <2>1 DEF Start
  <2>5. Asked(begin)' = {}
    BY <1>3, <2>1, <2>4 DEF Asked
  <2> QED BY <1>3, <2>1, <2>3, <2>5 DEF Progress
<1> QED BY <1>4, <1>5 DEF IInv

(* What one turn of the loop asks for.                                     *)
LEMMA NextBlock ==
  ASSUME IInv, pc = "loop", remain # 0
  PROVE  /\ BlockSize \in 1 .. remain
         /\ Start(index) \in Nat
         /\ Block = Start(index) + begin .. Start(index) + begin + BlockSize - 1
<1>1. remain \in 1 .. WordSize - 1 /\ begin \in Nat /\ index \in Nat
  BY WordAssumption DEF IInv, TypeOK
<1>2. BlockSize \in 1 .. remain
  BY <1>1, BlockAssumption, WordAssumption DEF BlockSize, Least
<1>3. Start(index) \in Nat
  BY <1>1, StartOfPiece DEF IInv, Progress
<1> QED BY <1>1, <1>2, <1>3 DEF Block, Offset, Start

LEMMA AskBlockOK == ASSUME IInv, AskBlock PROVE IInv'
<1> DEFINE s == Start(index)
           n == BlockSize
<1>1. /\ pc = "loop" /\ pc' = "loop" /\ remain # 0
      /\ torrent' = torrent /\ index' = index
      /\ begin' = begin + n /\ remain' = remain - n
      /\ asked' = asked \cup Block
  BY DEF AskBlock
<1>2. n \in 1 .. remain /\ s \in Nat /\ Block = s + begin .. s + begin + n - 1
  BY <1>1, NextBlock
<1>3. /\ IsPiece(index) /\ begin + remain = Size(index) /\ asked = s .. s + begin - 1
      /\ begin \in 0 .. WordSize - 1 /\ remain \in 0 .. WordSize - 1 /\ index \in Nat
  BY <1>1 DEF IInv, TypeOK, Progress, Asked
<1>4. Size(index) \in 0 .. WordSize - 1
  BY <1>3, PieceNumbers DEF IInv
<1>5. Size(index)' = Size(index) /\ IsPiece(index)' /\ Start(index)' = s
  BY <1>1, <1>3 DEF Size, FullSize, IsPiece, Start
<1> HIDE DEF s, n
<1>6. begin' \in 0 .. WordSize - 1 /\ remain' \in 0 .. WordSize - 1
      /\ begin' + remain' = Size(index)
  BY <1>1, <1>2, <1>3, <1>4, WordAssumption
<1>7. asked' = s .. s + begin' - 1
  BY <1>1, <1>2, <1>3
<1>8. TypeOK'
  <2>1. asked' \subseteq Nat
    <3>1. asked \subseteq Nat /\ Block \subseteq Nat
      BY <1>2, <1>3 DEF IInv, TypeOK
    <3> QED BY <1>1, <3>1
  <2> QED BY <1>1, <1>6, <2>1 DEF IInv, TypeOK
<1>9. Progress'
  BY <1>1, <1>5, <1>6, <1>7 DEF Progress, Asked
<1> QED BY <1>8, <1>9 DEF IInv

LEMMA CheckHashOK == ASSUME IInv, CheckHash PROVE IInv'
<1>1. /\ pc = "loop" /\ remain = 0 /\ UNCHANGED <<torrent, index, begin, remain, asked>>
      /\ pc' = IF asked = BytesOf(index) THEN "right" ELSE "mismatch"
  BY DEF CheckHash
<1>2. IsPiece(index) /\ asked = Asked(begin) /\ begin + remain = Size(index)
  BY <1>1 DEF IInv, Progress
<1>3. begin = Size(index)
  BY <1>1, <1>2, WordAssumption DEF IInv, TypeOK
<1>4. /\ IsPiece(index)' = IsPiece(index) /\ BytesOf(index)' = BytesOf(index)
      /\ Asked(Size(index))' = Asked(Size(index))
  BY <1>1 DEF IsPiece, BytesOf, FirstByte, FullSize, Asked, Size, Start
<1>5. Progress'
  BY <1>1, <1>2, <1>3, <1>4 DEF Progress
<1>6. TypeOK'
  BY <1>1 DEF IInv, TypeOK
<1> QED BY <1>5, <1>6 DEF IInv

LEMMA NextOK == ASSUME IInv, [Next]_vars PROVE IInv'
<1>1. ASSUME NEW i \in 0 .. torrent.length, TakePiece(i) PROVE IInv'
  BY <1>1, TakePieceOK
<1>2. CASE AskBlock
  BY <1>2, AskBlockOK
<1>3. CASE CheckHash
  BY <1>3, CheckHashOK
<1>4. CASE SendOn
  BY <1>4 DEF SendOn, IInv, TypeOK, Progress
<1>5. CASE UNCHANGED vars
  BY <1>5 DEF vars, IInv, TypeOK, Progress, IsPiece, Size, FullSize, Asked, Start,
              BytesOf, FirstByte
<1> QED BY <1>1, <1>2, <1>3, <1>4, <1>5 DEF Next

LEMMA Inductive == Spec => []IInv
BY InitOK, NextOK, PTL DEF Spec
-----------------------------------------------------------------------------
(* begin_offset and remain stay in their 32 bits: the additions of         *)
(* download_piece never overflow and the subtraction never goes below 0.   *)
THEOREM TypeCorrect == Spec => []TypeOK
<1>1. IInv => TypeOK
  BY DEF IInv
<1> QED BY <1>1, Inductive, PTL

(* Every block that is asked for lies in its piece.                        *)
THEOREM Inside == Spec => []BlocksAreInThePiece
<1>1. ASSUME IInv PROVE BlocksAreInThePiece
  <2> SUFFICES ASSUME pc = "loop", Fits(index), remain # 0
               PROVE  Block \subseteq BytesOf(index)
    BY DEF BlocksAreInThePiece
  <2>1. /\ IsPiece(index) /\ begin + remain = Size(index) /\ index \in Nat
        /\ begin \in Nat /\ remain \in Nat
    BY <1>1, WordAssumption DEF IInv, TypeOK, Progress
  <2>2. Size(index) = FullSize(index) /\ Start(index) = FirstByte(index)
    BY <1>1, <2>1, PieceNumbers, StartOfPiece DEF IInv, Fits
  <2>3. /\ BlockSize \in 1 .. remain /\ Start(index) \in Nat
        /\ Block = Start(index) + begin .. Start(index) + begin + BlockSize - 1
    BY <1>1, NextBlock
  <2> QED BY <2>1, <2>2, <2>3 DEF BytesOf
<1> QED BY <1>1, Inductive, PTL

(* No byte of a piece is asked for twice.                                  *)
THEOREM Disjoint == Spec => []NoByteTwice
<1>1. ASSUME IInv PROVE NoByteTwice
  <2> SUFFICES ASSUME pc = "loop", remain # 0 PROVE Block \cap asked = {}
    BY DEF NoByteTwice
  <2>1. asked = Start(index) .. Start(index) + begin - 1 /\ begin \in Nat
    BY <1>1, WordAssumption DEF IInv, TypeOK, Progress, Asked
  <2>2. /\ BlockSize \in 1 .. remain /\ Start(index) \in Nat /\ remain \in Nat
        /\ Block = Start(index) + begin .. Start(index) + begin + BlockSize - 1
    BY <1>1, NextBlock, WordAssumption DEF IInv, TypeOK
  <2> QED BY <2>1, <2>2
<1> QED BY <1>1, Inductive, PTL

(* A piece that fits in 32 bits is asked for as a whole, so that its hash  *)
(* matches if the uploader's file is that of the torrent.                  *)
THEOREM Whole == Spec => []PieceIsWhole
<1>1. ASSUME IInv PROVE PieceIsWhole
  <2> SUFFICES ASSUME Fits(index), pc = "mismatch" PROVE FALSE
    BY DEF PieceIsWhole
  <2>1. IsPiece(index) /\ asked = Asked(Size(index)) /\ asked # BytesOf(index) /\ index \in Nat
    BY <1>1 DEF IInv, TypeOK, Progress
  <2>2. Size(index) = FullSize(index) /\ Start(index) = FirstByte(index)
    BY <1>1, <2>1, PieceNumbers, StartOfPiece DEF IInv, Fits
  <2> QED BY <2>1, <2>2 DEF Asked, BytesOf
<1> QED BY <1>1, Inductive, PTL

(* A piece that does not fit never passes for right.                       *)
THEOREM Noticed == Spec => []CutIsNoticed
<1>1. ASSUME IInv PROVE CutIsNoticed
  <2> SUFFICES ASSUME pc = "right" PROVE Fits(index)
    BY DEF CutIsNoticed
  <2> DEFINE a == Start(index)
             b == FirstByte(index)
             m == Size(index)
             n == FullSize(index)
  <2>1. IsPiece(index) /\ a .. a + m - 1 = b .. b + n - 1 /\ index \in Nat
    BY <1>1 DEF IInv, TypeOK, Progress, Asked, BytesOf
  <2>2. a \in Nat /\ b \in Nat /\ m \in 0 .. WordSize - 1 /\ n \in Nat \ {0}
    BY <1>1, <2>1, PieceNumbers, StartOfPiece DEF IInv
  <2> HIDE DEF a, b, m, n
  <2>3. b \in a .. a + m - 1 /\ b + n - 1 \in a .. a + m - 1
    BY <2>1, <2>2, WordAssumption
  <2>4. a \in b .. b + n - 1 /\ a + m - 1 \in b .. b + n - 1
    BY <2>1, <2>2, <2>3, WordAssumption
  <2>5. a = b /\ m = n
    BY <2>2, <2>3, <2>4, WordAssumption
  <2>6. index < WordSize
    BY <1>1, <2>1, <2>5, StartOfPiece DEF IInv, a, b
  <2> QED BY <2>2, <2>5, <2>6, WordAssumption DEF Fits, m, n
<1> QED BY <1>1, Inductive, PTL
=============================================================================
