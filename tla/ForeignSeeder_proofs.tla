------------------------ MODULE ForeignSeeder_proofs ------------------------
(* Theorems about the downloader on a connection to a peer of another      *)
(* program, for any habits of that peer and any number of messages that    *)
(* nobody asked for.                                                       *)
EXTENDS ForeignSeeder, SequenceTheorems, TLAPS

P == INSTANCE PeerSession_proofs

LEMMA Sizes ==
  /\ FileLength \in Nat /\ PieceLength \in Nat \ {0}
  /\ BlockMaxSize \in Nat \ {0} /\ MaxConsecutiveTimeouts \in Nat \ {0}
  /\ NoPiece \notin P!Piece
BY SessionAssumption DEF S!Piece, P!Piece, S!PieceCount, P!PieceCount

LEMMA ShortSequences ==
  ASSUME NEW a, NEW b
  PROVE  /\ Append(<<>>, a) = <<a>> /\ Append(<<a>>, b) = <<a, b>>
         /\ <<>> \o <<a, b>> = <<a, b>>
         /\ Head(<<a>>) = a /\ Tail(<<a>>) = <<>>
         /\ Tail(<<a, b>>) = <<b>> /\ <<a, b>>[2] = b
         /\ <<a>> # <<>> /\ <<a, b>> # <<>>
         /\ Len(<<>>) = 0 /\ Len(<<a>>) = 1
<1>1. <<a, b>>[2] = b
  OBVIOUS
<1> QED BY <1>1, Sizes, P!ShortSequences

(* The request of the downloader's turn, as in PeerSession_proofs.         *)
InTurn == job \in S!Piece /\ begin \in 0 .. S!PieceSize(job) - 1
Asked == S!RequestOf(job, begin, S!BlockSize)

LEMMA TurnBounds ==
  /\ \A i \in S!Piece : /\ S!PieceSize(i) \in Nat /\ 1 <= S!PieceSize(i)
                        /\ S!PieceSize(i) <= PieceLength /\ i \in Nat
  /\ InTurn => /\ Asked \in S!Request
               /\ S!BlockSize \in Nat /\ 1 <= S!BlockSize
               /\ begin \in Nat /\ begin + S!BlockSize <= S!PieceSize(job)
<1> USE DEF S!Piece, P!Piece, S!PieceCount, P!PieceCount, S!PieceSize, P!PieceSize,
            S!Least, P!Least
<1>1. ASSUME NEW i \in S!Piece
      PROVE  /\ S!PieceSize(i) \in Nat /\ 1 <= S!PieceSize(i)
             /\ S!PieceSize(i) <= PieceLength /\ i \in Nat
  <2>1. i \in P!Piece
    OBVIOUS
  <2>2. P!PieceSize(i) = S!PieceSize(i)
    OBVIOUS
  <2> QED BY ONLY <2>1, <2>2, Sizes, P!PieceIsInFile
<1>2. ASSUME InTurn
      PROVE  /\ Asked \in S!Request
             /\ S!BlockSize \in Nat /\ 1 <= S!BlockSize
             /\ begin \in Nat /\ begin + S!BlockSize <= S!PieceSize(job)
  <2>1. P!InTurn /\ P!PieceSize(job) = S!PieceSize(job)
    BY <1>2 DEF InTurn, P!InTurn
  <2>2. P!BlockSize = S!BlockSize
    BY DEF P!BlockSize, S!BlockSize
  <2>3. P!Asked = Asked /\ P!Request = S!Request
    BY <2>2 DEF P!Asked, Asked, P!RequestOf, S!RequestOf, P!Request, S!Request
  <2> QED BY ONLY <2>1, <2>2, <2>3, Sizes, P!RequestIsInFile
<1> QED BY <1>1, <1>2

(* A block of the seeder's copy, where it has one, is made of bytes.       *)
LEMMA BlockTyped ==
  ASSUME NEW r \in S!Request, disk \in Seq(S!Byte), S!Readable(r)
  PROVE  /\ S!Block(r) \in Seq(S!Byte) /\ Len(S!Block(r)) = r.length
         /\ S!PieceOf(r.index, r.begin, S!Block(r)) \in S!Answer
<1> DEFINE m == S!Offset(r) + 1
           n == S!Offset(r) + r.length
<1>1. r.index \in S!Piece /\ r.begin \in Nat /\ r.length \in Nat
  BY DEF S!Request
<1>2. S!Offset(r) \in Nat
  <2>1. r.index \in Nat /\ PieceLength \in Nat
    BY <1>1, TurnBounds, Sizes
  <2>2. r.index * PieceLength \in Nat
    BY <2>1
  <2> QED BY <1>1, <2>2 DEF S!Offset
<1>3. m \in Nat /\ n \in Nat /\ 1 <= m /\ n = m - 1 + r.length
  BY <1>1, <1>2
<1>4. n <= Len(disk)
  BY DEF S!Readable
<1>5. S!Block(r) = SubSeq(disk, m, n)
  BY DEF S!Block
<1> HIDE DEF m, n
<1>6. \A k \in m .. n : disk[k] \in S!Byte
  BY <1>3, <1>4, ElementOfSeq
<1>7. SubSeq(disk, m, n) \in Seq(S!Byte) /\ Len(SubSeq(disk, m, n)) = r.length
  BY <1>1, <1>3, <1>6, SubSeqProperties
<1>8. S!PieceOf(r.index, r.begin, S!Block(r)) \in S!Answer
  BY <1>1, <1>5, <1>7 DEF S!PieceOf, S!Answer
<1> QED BY <1>5, <1>7, <1>8

(* A block that starts where it may is put into the piece.                 *)
LEMMA SpliceTyped ==
  ASSUME NEW b \in Seq(S!Byte), piece \in Seq(S!Byte), begin \in Nat, begin <= Len(piece)
  PROVE  /\ S!Spliced(b) \in Seq(S!Byte)
         /\ Len(S!Spliced(b)) = Len(piece) + Len(b)
<1>1. Len(piece) \in Nat
  BY LenProperties
<1>2. SubSeq(piece, 1, begin) \in Seq(S!Byte) /\ Len(SubSeq(piece, 1, begin)) = begin
  <2>1. \A k \in 1 .. begin : piece[k] \in S!Byte
    BY <1>1, ElementOfSeq
  <2> QED BY <2>1, SubSeqProperties
<1>3. /\ SubSeq(piece, begin + 1, Len(piece)) \in Seq(S!Byte)
      /\ Len(SubSeq(piece, begin + 1, Len(piece))) = Len(piece) - begin
  <2>1. \A k \in begin + 1 .. Len(piece) : piece[k] \in S!Byte
    BY <1>1, ElementOfSeq
  <2> QED BY <1>1, <2>1, SubSeqProperties
<1>4. /\ SubSeq(piece, 1, begin) \o b \in Seq(S!Byte)
      /\ Len(SubSeq(piece, 1, begin) \o b) = begin + Len(b)
  BY <1>2, ConcatProperties
<1>5. Len(b) \in Nat
  BY LenProperties
<1> DEFINE x == SubSeq(piece, 1, begin) \o b
           y == SubSeq(piece, begin + 1, Len(piece))
<1>6. S!Spliced(b) = x \o y
  BY DEF S!Spliced
<1> HIDE DEF x, y
<1>7. x \o y \in Seq(S!Byte) /\ Len(x \o y) = Len(x) + Len(y)
  BY <1>3, <1>4, ConcatProperties DEF x, y
<1>8. Len(x) = begin + Len(b) /\ Len(y) = Len(piece) - begin
  BY <1>3, <1>4 DEF x, y
<1>9. Len(x) + Len(y) = Len(piece) + Len(b)
  BY <1>1, <1>5, <1>8
<1> QED BY <1>6, <1>7, <1>9

-----------------------------------------------------------------------------
(* What holds with any seeder: between taking a request and returning its  *)
(* piece the downloader has a block to ask for, and none before.           *)
Turns ==
  /\ down \in S!Connecting => job = NoPiece
  /\ down \in S!Fetching => InTurn

IInv == TypeOK /\ disk \in Seq(S!Byte) /\ Turns

UpItem == {S!Handshake, S!Size, S!Interested} \cup S!Request
DownItem == Item \cup S!Answer

LEMMA ItemsTyped ==
  /\ S!Handshake \in UpItem /\ S!Size \in UpItem /\ S!Interested \in UpItem
  /\ {S!Handshake, BinaryHandshake, S!Bitfield, S!Unchoke, KeepAlive, Have, Choke} \subseteq DownItem
BY DEF UpItem, DownItem, Item

LEMMA TwoMore ==
  ASSUME NEW T, NEW q \in Seq(T), NEW a \in T, NEW b \in T
  PROVE  Append(q, a) \in Seq(T) /\ q \o <<a, b>> \in Seq(T)
<1>1. <<a, b>> \in Seq(T)
  OBVIOUS
<1> QED BY <1>1, AppendProperties, ConcatProperties

(* Only a block is taken for one.                                          *)
LEMMA OnlyAnswers ==
  ASSUME NEW m \in DownItem, m.type = "piece" PROVE m \in S!Answer
<1>1. ASSUME m \in Item PROVE m.type # "piece"
  <2>1. /\ S!Handshake.type # "piece" /\ BinaryHandshake.type # "piece"
        /\ S!Bitfield.type # "piece" /\ S!Unchoke.type # "piece"
        /\ KeepAlive.type # "piece" /\ Have.type # "piece" /\ Choke.type # "piece"
    BY DEF S!Handshake, BinaryHandshake, S!Bitfield, S!Unchoke, KeepAlive, Have, Choke
  <2> QED BY <1>1, <2>1 DEF Item
<1> QED BY <1>1 DEF DownItem

LEMMA InitIInv == Init => IInv
<1> SUFFICES ASSUME Init PROVE IInv
  OBVIOUS
<1>1. S!Original \in Seq(S!Byte) /\ Len(S!Original) = FileLength
  <2>1. FileLength \in Nat
    BY Sizes
  <2>2. \A k \in 1 .. FileLength : k - 1 \in S!Byte
    BY <2>1 DEF S!Byte
  <2> QED BY <2>1, <2>2 DEF S!Original
<1>2. ASSUME NEW k \in 1 .. FileLength
      PROVE  [S!Original EXCEPT ![k] = Corrupt] \in Seq(S!Byte)
  <2>1. Corrupt \in S!Byte
    BY DEF S!Byte
  <2> QED BY <1>1, <2>1, ExceptSeq
<1>3. disk \in Seq(S!Byte)
  BY <1>1, <1>2 DEF Init
<1>4. TypeOK
  <2>1. <<>> \in Seq(S!Byte) /\ <<>> \in Seq(UpItem) /\ <<>> \in Seq(DownItem)
        /\ 0 \in 0 .. PieceLength /\ 0 \in 0 .. MaxExtras
    BY EmptySeq, Sizes, MaxExtrasAssumption
  <2> QED BY <2>1 DEF Init, TypeOK, UpItem, DownItem, S!Connecting
<1>5. Turns
  BY DEF Init, Turns, S!Connecting, S!Fetching
<1> QED BY <1>3, <1>4, <1>5 DEF IInv

LEMMA SameTurns ==
  ASSUME UNCHANGED <<down, job, begin>>
  PROVE  /\ Turns <=> Turns'
         /\ Asked' = Asked /\ (InTurn <=> InTurn') /\ S!BlockSize' = S!BlockSize
BY DEF Turns, InTurn, Asked, S!BlockSize, S!RequestOf

LEMMA ReceiveTyped ==
  ASSUME TypeOK, S!Receive
  PROVE  Head(toDown) \in DownItem /\ toDown' \in Seq(DownItem)
BY HeadTailProperties DEF TypeOK, DownItem, S!Receive

LEMMA SessionOK == ASSUME IInv, Session PROVE IInv'
<1> USE DEF S!Connecting, S!Fetching
<1>1. UNCHANGED <<habits, choking, interested, extras>>
  BY DEF Session
<1>2. toUp \in Seq(UpItem) /\ toDown \in Seq(DownItem) /\ TypeOK /\ disk \in Seq(S!Byte)
  BY DEF IInv, TypeOK, UpItem, DownItem
<1>3. CASE S!Connect
  <2>1. toUp' \in Seq(UpItem)
    BY <1>2, <1>3, ItemsTyped, AppendProperties DEF S!Connect
  <2> QED BY <1>1, <1>3, <2>1 DEF S!Connect, IInv, TypeOK, UpItem, Turns, S!upVars
<1>4. CASE S!DownHandshake \/ S!DownUnchoke
  <2>1. toDown' \in Seq(DownItem)
    BY <1>2, <1>4, ReceiveTyped DEF S!DownHandshake, S!DownUnchoke
  <2> QED BY <1>1, <1>4, <2>1
          DEF S!DownHandshake, S!DownUnchoke, IInv, TypeOK, DownItem, Turns, S!upVars
<1>5. CASE S!DownBitfield
  <2>1. toDown' \in Seq(DownItem)
    BY <1>2, <1>5, ReceiveTyped DEF S!DownBitfield
  <2>2. toUp' \in Seq(UpItem)
    BY <1>2, <1>5, ItemsTyped, TwoMore DEF S!DownBitfield
  <2> QED BY <1>1, <1>5, <2>1, <2>2
          DEF S!DownBitfield, IInv, TypeOK, UpItem, DownItem, Turns, S!upVars
<1>6. CASE S!SendSize
  <2>1. toUp' \in Seq(UpItem)
    BY <1>2, <1>6, ItemsTyped, AppendProperties DEF S!SendSize
  <2>2. InTurn'
    BY <1>6 DEF IInv, Turns, InTurn, S!SendSize
  <2> QED BY <1>1, <1>6, <2>1, <2>2 DEF S!SendSize, IInv, TypeOK, UpItem, Turns, S!upVars
<1>7. CASE S!SendBody
  <2>1. InTurn /\ InTurn'
    BY <1>7 DEF IInv, Turns, InTurn, S!SendBody
  <2>2. Asked \in UpItem
    BY <2>1, TurnBounds DEF UpItem
  <2>3. toUp' \in Seq(UpItem)
    BY <1>2, <1>7, <2>2, AppendProperties DEF S!SendBody, Asked
  <2> QED BY <1>1, <1>7, <2>1, <2>3 DEF S!SendBody, IInv, TypeOK, UpItem, Turns, S!upVars
<1>8. CASE S!ReceiveBlock
  <2>1. toDown' \in Seq(DownItem) /\ Head(toDown) \in DownItem
    BY <1>2, <1>8, ReceiveTyped DEF S!ReceiveBlock
  <2>2. InTurn
    BY <1>8 DEF IInv, Turns, S!ReceiveBlock
  <2>3. /\ begin \in Nat /\ S!BlockSize \in Nat /\ begin + S!BlockSize <= S!PieceSize(job)
        /\ S!PieceSize(job) \in Nat /\ S!PieceSize(job) <= PieceLength /\ PieceLength \in Nat
    BY <2>2, TurnBounds, Sizes DEF InTurn
  <2>4. CASE S!Expected(Head(toDown))
    <3>1. Head(toDown).block \in Seq(S!Byte)
      BY <2>1, <2>4, OnlyAnswers DEF S!Expected, S!Answer
    <3>2. piece' \in Seq(S!Byte)
      <4>1. begin <= Len(piece) /\ piece \in Seq(S!Byte)
        BY <2>4 DEF S!Expected, IInv, TypeOK
      <4> QED BY <1>8, <2>3, <2>4, <3>1, <4>1, SpliceTyped DEF S!ReceiveBlock
    <3>3. begin' = begin + S!BlockSize /\ down' \in {"size", "ready", "mismatch"}
          /\ (down' = "size" => begin' # S!PieceSize(job)) /\ job' = job
      BY <1>8, <2>4 DEF S!ReceiveBlock
    <3>4. begin' \in 0 .. PieceLength /\ (down' = "size" => InTurn')
      BY <2>2, <2>3, <3>3 DEF InTurn, S!PieceSize
    <3> QED BY <1>1, <1>8, <2>1, <3>2, <3>3, <3>4
            DEF S!ReceiveBlock, IInv, TypeOK, DownItem, Turns, S!upVars
  <2>5. CASE ~S!Expected(Head(toDown))
    BY <1>1, <1>8, <2>1, <2>5 DEF S!ReceiveBlock, IInv, TypeOK, DownItem, Turns, S!upVars
  <2> QED BY <2>4, <2>5
<1>9. CASE S!DownError \/ S!DownHandshakeTimeout
  BY <1>1, <1>9 DEF S!DownError, S!DownHandshakeTimeout, IInv, TypeOK, Turns, S!upVars
<1> QED BY <1>3, <1>4, <1>5, <1>6, <1>7, <1>8, <1>9 DEF Session, S!Downloader

LEMMA TakeRequestOK == ASSUME IInv, NEW i \in S!Piece, TakeRequest(i) PROVE IInv'
<1>1. /\ down = "ready" /\ down' = "size" /\ job' = i /\ begin' = 0 /\ piece' = <<>>
      /\ UNCHANGED <<up, toUp, toDown, link, disk, habits, choking, interested, extras>>
  BY DEF TakeRequest, S!TakeRequest, S!upVars
<1>2. S!PieceSize(i) \in Nat /\ 1 <= S!PieceSize(i)
  BY TurnBounds
<1>3. InTurn'
  BY <1>1, <1>2 DEF InTurn, S!PieceSize
<1>4. <<>> \in Seq(S!Byte) /\ 0 \in 0 .. PieceLength
  BY EmptySeq, Sizes
<1> QED BY <1>1, <1>3, <1>4 DEF IInv, TypeOK, Turns, S!Connecting, S!Fetching

(* The seeder's steps, and the others that leave the downloader alone.     *)
LEMMA OthersOK ==
  ASSUME IInv,
         \/ SkipKeepAlive \/ Greet \/ SendBitfield \/ ReadInterested
         \/ SendUnchoke \/ ReadRequest \/ SendKeepAlive \/ SendHave \/ SendChoke \/ Leave
         \/ BreakLink \/ UNCHANGED vars
  PROVE  IInv' /\ UNCHANGED <<down, job, begin, piece>>
<1>1. UNCHANGED <<down, job, begin, piece, disk, habits>>
  BY DEF SkipKeepAlive, Greet, SendBitfield, ReadInterested, SendUnchoke, ReadRequest,
     SendKeepAlive, SendHave, SendChoke, Extra, Leave, BreakLink, S!BreakLink, vars,
     downVars, seederVars, S!downVars
<1>2. Turns'
  BY <1>1, SameTurns DEF IInv
<1>3. /\ TypeOK /\ toUp \in Seq(UpItem) /\ toDown \in Seq(DownItem)
      /\ disk \in Seq(S!Byte)
  BY DEF IInv, TypeOK, UpItem, DownItem
<1>4. ASSUME NEW m \in DownItem PROVE Append(toDown, m) \in Seq(DownItem)
  BY <1>3, AppendProperties
<1>5. toDown' \in Seq(DownItem)
  <2>1. CASE SkipKeepAlive
    BY <1>3, <2>1, ReceiveTyped DEF SkipKeepAlive, Receives
  <2>2. CASE Greet \/ SendBitfield \/ SendUnchoke
    BY <1>3, <1>4, <2>2, ItemsTyped DEF Greet, SendBitfield, SendUnchoke, Sends
  <2>3. CASE SendKeepAlive \/ SendHave \/ SendChoke
    BY <1>4, <2>3, ItemsTyped DEF SendKeepAlive, SendHave, SendChoke, Extra, Sends
  <2>4. CASE ReadRequest
    <3>1. toUp[2] \in UpItem /\ toUp[2].type = "request"
      <4>1. Len(toUp) >= 2 /\ Len(toUp) \in Nat
        BY <1>3, <2>4, LenProperties DEF ReadRequest
      <4> QED BY <1>3, <2>4, <4>1, ElementOfSeq DEF ReadRequest
    <3>2. toUp[2] \in S!Request
      <4>1. /\ S!Handshake.type # "request" /\ S!Size.type # "request"
            /\ S!Interested.type # "request"
        BY DEF S!Handshake, S!Size, S!Interested
      <4> QED BY <3>1, <4>1 DEF UpItem
    <3> DEFINE a == S!PieceOf(toUp[2].index, toUp[2].begin, S!Block(toUp[2]))
    <3>3. toDown' = toDown \/ (S!Readable(toUp[2]) /\ toDown' = Append(toDown, a))
      BY <2>4 DEF ReadRequest, Sends
    <3>4. S!Readable(toUp[2]) => a \in DownItem
      BY <1>3, <3>2, BlockTyped DEF DownItem
    <3> HIDE DEF a
    <3> QED BY <1>3, <1>4, <3>3, <3>4
  <2>5. CASE ReadInterested \/ Leave \/ BreakLink \/ UNCHANGED vars
    BY <1>3, <2>5 DEF ReadInterested, Leave, BreakLink, S!BreakLink, vars
  <2> QED BY <2>1, <2>2, <2>3, <2>4, <2>5
<1>6. toUp' \in Seq(UpItem)
  <2>1. CASE Greet
    BY <1>3, <2>1, HeadTailProperties DEF Greet
  <2>2. CASE ReadInterested \/ ReadRequest
    <3>1. Len(toUp) >= 2 /\ toUp' = Tail(Tail(toUp))
      BY <2>2 DEF ReadInterested, ReadRequest
    <3>2. toUp # <<>> /\ Len(<<>>) = 0
      BY <3>1, ShortSequences
    <3>3. Tail(toUp) \in Seq(UpItem) /\ Len(Tail(toUp)) = Len(toUp) - 1
      BY <1>3, <3>2, HeadTailProperties
    <3>4. Tail(toUp) # <<>>
      <4> DEFINE t == Tail(toUp)
      <4>1. Len(toUp) \in Nat /\ Len(t) = Len(toUp) - 1
        BY <1>3, <3>3, LenProperties
      <4> HIDE DEF t
      <4>2. Len(t) # 0
        BY <3>1, <4>1
      <4>3. t # <<>>
        BY <3>2, <4>2
      <4> QED BY <4>3 DEF t
    <3> QED BY <3>1, <3>3, <3>4, HeadTailProperties
  <2>3. CASE \/ SkipKeepAlive \/ SendBitfield \/ SendUnchoke \/ SendKeepAlive \/ SendHave
             \/ SendChoke \/ Leave \/ BreakLink \/ UNCHANGED vars
    BY <1>3, <2>3 DEF SkipKeepAlive, SendBitfield, SendUnchoke, SendKeepAlive, SendHave,
       SendChoke, Leave, BreakLink, S!BreakLink, vars
  <2> QED BY <2>1, <2>2, <2>3
<1>7. /\ up' \in {"accept", "greeted", "open", "closed"}
      /\ link' \in {"up", "reset", "silent"}
      /\ choking' \in BOOLEAN /\ interested' \in BOOLEAN /\ extras' \in 0 .. MaxExtras
  <2>1. CASE SendKeepAlive \/ SendHave \/ SendChoke
    <3>1. /\ extras < MaxExtras /\ extras' = extras + 1 /\ UNCHANGED <<up, link, interested>>
          /\ choking' = choking \/ choking' = TRUE
      BY <2>1 DEF SendKeepAlive, SendHave, SendChoke, Extra
    <3>2. extras' \in 0 .. MaxExtras
      BY <1>3, <3>1, MaxExtrasAssumption DEF TypeOK
    <3> QED BY <1>3, <3>1, <3>2 DEF TypeOK
  <2>2. CASE BreakLink
    BY <1>3, <2>2 DEF BreakLink, S!BreakLink, S!upVars, TypeOK
  <2>3. CASE Greet \/ SendBitfield \/ ReadInterested \/ SendUnchoke \/ Leave
    BY <1>3, <2>3 DEF Greet, SendBitfield, ReadInterested, SendUnchoke, Leave, TypeOK
  <2>4. CASE SkipKeepAlive \/ ReadRequest \/ UNCHANGED vars
    BY <1>3, <2>4 DEF SkipKeepAlive, ReadRequest, vars, seederVars, TypeOK
  <2> QED BY <2>1, <2>2, <2>3, <2>4
<1>8. TypeOK'
  BY <1>1, <1>3, <1>5, <1>6, <1>7 DEF TypeOK, UpItem, DownItem
<1> QED BY <1>1, <1>2, <1>3, <1>8 DEF IInv

LEMMA NextIInv == IInv /\ [Next]_vars => IInv'
<1> SUFFICES ASSUME IInv, [Next]_vars PROVE IInv'
  OBVIOUS
<1>1. CASE Session
  BY <1>1, SessionOK
<1>2. CASE \E i \in S!Piece : TakeRequest(i)
  BY <1>2, TakeRequestOK
<1>3. CASE EndStream
  BY <1>3 DEF EndStream, S!EndStream, S!upVars, IInv, TypeOK, Turns, S!Connecting, S!Fetching
<1>4. CASE RejectPeerId
  <2>1. toDown' \in Seq(DownItem)
    BY <1>4, ReceiveTyped DEF RejectPeerId, Receives, IInv
  <2> QED BY <1>4, <2>1 DEF RejectPeerId, seederVars, IInv, TypeOK, DownItem, Turns,
          S!Connecting, S!Fetching
<1>5. CASE \/ SkipKeepAlive \/ Greet \/ SendBitfield \/ ReadInterested
           \/ SendUnchoke \/ ReadRequest \/ SendKeepAlive \/ SendHave \/ SendChoke \/ Leave
           \/ BreakLink \/ UNCHANGED vars
  BY <1>5, OthersOK
<1> QED BY <1>1, <1>2, <1>3, <1>4, <1>5 DEF Next

THEOREM Invariance == Spec => []IInv
BY InitIInv, NextIInv, PTL DEF Spec

(* Every variable keeps its type, whatever the seeder sends: no block of   *)
(* it puts begin_offset past the end of a piece.                           *)
THEOREM TypeCorrect == Spec => []TypeOK
<1>1. IInv => TypeOK
  BY DEF IInv
<1> QED BY <1>1, Invariance, PTL

-----------------------------------------------------------------------------
LEMMA InitIsTaskInit == Init => S!Task!Init
BY DEF Init, S!Task!Init, S!Connecting

LEMMA SessionIsTaskStep ==
  ASSUME IInv, S!Downloader PROVE [S!Task!Next]_(S!Task!vars)
<1> USE DEF S!Task!vars, S!Connecting, S!Fetching
<1>1. ASSUME S!Connect \/ S!DownHandshake PROVE UNCHANGED S!Task!vars
  BY <1>1 DEF S!Connect, S!DownHandshake
<1>2. ASSUME S!DownBitfield PROVE UNCHANGED S!Task!vars \/ S!Task!Fail
  BY <1>2 DEF S!DownBitfield, S!Task!Fail
<1>3. ASSUME S!DownUnchoke PROVE S!Task!Connected \/ S!Task!Fail
  <2>1. job = NoPiece
    BY <1>3 DEF S!DownUnchoke, IInv, Turns
  <2> QED BY <1>3, <2>1 DEF S!DownUnchoke, S!Task!Connected, S!Task!Fail
<1>4. ASSUME S!SendSize \/ S!SendBody PROVE UNCHANGED S!Task!vars
  BY <1>4 DEF S!SendSize, S!SendBody
<1>5. ASSUME S!ReceiveBlock PROVE S!Task!Deliver \/ S!Task!Fail \/ UNCHANGED S!Task!vars
  <2>1. down = "receive" /\ UNCHANGED job /\ job # NoPiece
    BY <1>5, SessionAssumption DEF S!ReceiveBlock, IInv, Turns, InTurn
  <2>2. \/ down' \in {"size", "mismatch", "unexpected"}
        \/ down' = "ready" /\ piece' = S!PieceBytes[job]
    BY <1>5 DEF S!ReceiveBlock, S!HashMatches
  <2> QED BY <2>1, <2>2 DEF S!Task!Deliver, S!Task!Fail
<1>6. ASSUME S!DownError \/ S!DownHandshakeTimeout PROVE S!Task!Fail
  BY <1>6 DEF S!DownError, S!DownHandshakeTimeout, S!Task!Fail
<1> QED BY <1>1, <1>2, <1>3, <1>4, <1>5, <1>6 DEF S!Downloader, S!Task!Next

LEMMA StepIsTaskStep ==
  ASSUME IInv, [Next]_vars PROVE [S!Task!Next]_(S!Task!vars)
<1> USE DEF S!Connecting, S!Fetching
<1>1. CASE Session
  BY <1>1, SessionIsTaskStep DEF Session
<1>2. ASSUME NEW i \in S!Piece, TakeRequest(i) PROVE S!Task!Next
  <2>1. S!Task!Take(i)
    BY <1>2 DEF TakeRequest, S!TakeRequest, S!Task!Take
  <2>2. i \in DOMAIN S!PieceBytes
    BY DEF S!PieceBytes
  <2> QED BY <2>1, <2>2 DEF S!Task!Next
<1>3. CASE EndStream
  <2>1. S!Task!End
    BY <1>3 DEF EndStream, S!EndStream, S!Task!End
  <2> QED BY <2>1 DEF S!Task!Next
<1>4. CASE RejectPeerId
  <2>1. S!Task!Fail
    BY <1>4 DEF RejectPeerId, S!Task!Fail
  <2> QED BY <2>1 DEF S!Task!Next
<1>5. CASE \/ SkipKeepAlive \/ Greet \/ SendBitfield \/ ReadInterested
           \/ SendUnchoke \/ ReadRequest \/ SendKeepAlive \/ SendHave \/ SendChoke \/ Leave
           \/ BreakLink \/ UNCHANGED vars
  BY <1>5, OthersOK DEF S!Task!vars
<1> QED BY <1>1, <1>2, <1>3, <1>4, <1>5 DEF Next

(* Whoever is at the other end and whatever it sends, a piece that the     *)
(* stream returns has the bytes of the file the torrent was made of.       *)
THEOREM IsAStreamTask == Spec => TaskSpec
BY InitIsTaskInit, StepIsTaskStep, Invariance, PTL
   DEF Spec, TaskSpec, S!TaskSpec, S!Task!Spec

-----------------------------------------------------------------------------
(* A seeder that adds keep-alives only.  What is on the way to the         *)
(* downloader is then at most one message (two while it awaits the         *)
(* handshake) with keep-alives before and behind it.                       *)
Idle(q) == \A k \in 1 .. Len(q) : q[k] = KeepAlive

Says(q, M) ==
  \E k \in 1 .. Len(q) : q[k] \in M /\ \A j \in 1 .. Len(q) : j # k => q[j] = KeepAlive

LEMMA IdleAppend ==
  ASSUME NEW q \in Seq(DownItem), Idle(q), NEW m \in DownItem, NEW M
  PROVE  /\ m = KeepAlive => Idle(Append(q, m))
         /\ m \in M => Says(Append(q, m), M)
<1> DEFINE a == Append(q, m)
           n == Len(q)
<1>1. n \in Nat /\ Len(a) = n + 1 /\ (\A i \in 1 .. n : a[i] = q[i]) /\ a[n + 1] = m
  BY AppendProperties, LenProperties
<1>2. \A i \in 1 .. n : a[i] = KeepAlive
  BY <1>1 DEF Idle
<1> HIDE DEF a, n
<1>3. ASSUME m = KeepAlive PROVE Idle(a)
  BY <1>1, <1>2, <1>3 DEF Idle
<1>4. ASSUME m \in M PROVE Says(a, M)
  <2>1. n + 1 \in 1 .. Len(a) /\ a[n + 1] \in M
    BY <1>1, <1>4
  <2>2. \A j \in 1 .. Len(a) : j # n + 1 => a[j] = KeepAlive
    BY <1>1, <1>2
  <2> QED BY <2>1, <2>2 DEF Says
<1> QED BY <1>3, <1>4 DEF a

LEMMA SaysAppend ==
  ASSUME NEW q \in Seq(DownItem), NEW M, Says(q, M)
  PROVE  Says(Append(q, KeepAlive), M)
<1> DEFINE a == Append(q, KeepAlive)
           n == Len(q)
<1>1. /\ n \in Nat /\ Len(a) = n + 1 /\ (\A i \in 1 .. n : a[i] = q[i])
      /\ a[n + 1] = KeepAlive
  BY ItemsTyped, AppendProperties, LenProperties
<1>2. PICK k \in 1 .. n : q[k] \in M /\ \A j \in 1 .. n : j # k => q[j] = KeepAlive
  BY DEF Says
<1> HIDE DEF a, n
<1>3. k \in 1 .. Len(a) /\ a[k] \in M
  BY <1>1, <1>2
<1>4. \A j \in 1 .. Len(a) : j # k => a[j] = KeepAlive
  BY <1>1, <1>2
<1>5. Says(a, M)
  BY <1>3, <1>4 DEF Says
<1> QED BY <1>5 DEF a

LEMMA IdleTail ==
  ASSUME NEW q \in Seq(DownItem), q # <<>>, Idle(q)
  PROVE  Head(q) = KeepAlive /\ Idle(Tail(q))
<1> DEFINE t == Tail(q)
           n == Len(q)
<1>1. n \in Nat \ {0} /\ Head(q) = q[1]
  BY EmptySeq
<1>2. Len(t) = n - 1 /\ \A i \in 1 .. Len(t) : t[i] = q[i + 1]
  BY HeadTailProperties
<1>3. \A i \in 1 .. n : q[i] = KeepAlive
  BY DEF Idle
<1> HIDE DEF t, n
<1>4. Idle(t)
  BY <1>1, <1>2, <1>3 DEF Idle
<1> QED BY <1>1, <1>3, <1>4 DEF t

LEMMA SaysTail ==
  ASSUME NEW q \in Seq(DownItem), NEW M, Says(q, M)
  PROVE  /\ q # <<>>
         /\ \/ Head(q) \in M /\ Idle(Tail(q))
            \/ Head(q) = KeepAlive /\ Says(Tail(q), M)
<1> DEFINE t == Tail(q)
           n == Len(q)
<1>1. PICK k \in 1 .. n : q[k] \in M /\ \A j \in 1 .. n : j # k => q[j] = KeepAlive
  BY DEF Says
<1>2. n \in Nat /\ Len(<<>>) = 0
  BY LenProperties, EmptySeq
<1>3. q # <<>>
  <2>1. n # 0
    BY <1>1, <1>2
  <2> QED BY <1>2, <2>1
<1>4. n \in Nat \ {0} /\ Head(q) = q[1]
  BY <1>3, EmptySeq
<1>5. Len(t) = n - 1 /\ \A i \in 1 .. Len(t) : t[i] = q[i + 1]
  BY <1>3, HeadTailProperties
<1> HIDE DEF t, n
<1>6. CASE k = 1
  <2>1. Idle(t)
    BY <1>1, <1>4, <1>5, <1>6 DEF Idle
  <2> QED BY <1>1, <1>3, <1>4, <1>6, <2>1 DEF t
<1>7. CASE k # 1
  <2>1. k - 1 \in 1 .. Len(t) /\ t[k - 1] \in M
    BY <1>1, <1>4, <1>5, <1>7
  <2>2. \A j \in 1 .. Len(t) : j # k - 1 => t[j] = KeepAlive
    BY <1>1, <1>4, <1>5
  <2>3. Says(t, M)
    BY <2>1, <2>2 DEF Says
  <2>4. q[1] = KeepAlive
    BY <1>1, <1>4, <1>7
  <2> QED BY <1>3, <1>4, <2>3, <2>4 DEF t
<1> QED BY <1>6, <1>7

LEMMA Nothing == Idle(<<>>) /\ <<>> \in Seq(DownItem)
BY ShortSequences DEF Idle

Answers ==
  {a \in S!Answer : a.index = job /\ a.begin = begin /\ Len(a.block) = S!BlockSize}

Here == up \in {"open", "closed"}

Conversation ==
  /\ down = "connect" => up \in {"accept", "closed"} /\ toUp = <<>> /\ toDown = <<>>
  /\ down = "handshake" =>
       \/ up \in {"accept", "closed"} /\ toUp = <<S!Handshake>> /\ toDown = <<>>
       \/ up \in {"greeted", "closed"} /\ toUp = <<>> /\ toDown = <<S!Handshake>>
       \/ /\ Here /\ toUp = <<>> /\ toDown # <<>>
          /\ Head(toDown) = S!Handshake /\ Says(Tail(toDown), {S!Bitfield})
  /\ down = "bitfield" =>
       \/ up \in {"greeted", "closed"} /\ toUp = <<>> /\ toDown = <<>>
       \/ Here /\ toUp = <<>> /\ Says(toDown, {S!Bitfield})
  /\ down \in {"connect", "handshake", "bitfield"} => choking /\ ~interested
  /\ down = "unchoke" =>
       \/ /\ Here /\ toUp = <<S!Size, S!Interested>> /\ Idle(toDown)
          /\ choking /\ ~interested
       \/ Here /\ toUp = <<>> /\ Idle(toDown) /\ choking
       \/ Here /\ toUp = <<>> /\ Says(toDown, {S!Unchoke}) /\ ~choking
  /\ down \in {"ready", "size"} => Here /\ toUp = <<>> /\ Idle(toDown) /\ ~choking
  /\ down = "body" => Here /\ toUp = <<S!Size>> /\ Idle(toDown) /\ ~choking
  /\ down = "receive" =>
       \/ Here /\ toUp = <<S!Size, Asked>> /\ Idle(toDown) /\ ~choking
       \/ Here /\ toUp = <<>> /\ (Idle(toDown) \/ Says(toDown, Answers)) /\ ~choking

Orderly ==
  /\ Conversation
  /\ down \in S!Fetching => Len(piece) = begin
  /\ down # "unexpected"

Polite == habits \subseteq {"keepalive"}

LEMMA InitOrderly == Init => Orderly
BY DEF Init, Orderly, Conversation, S!Fetching

LEMMA SameRequest ==
  ASSUME UNCHANGED <<job, begin>>
  PROVE  Asked' = Asked /\ Answers' = Answers
BY DEF Asked, Answers, S!BlockSize, S!RequestOf

(* The downloader takes nothing for a message that is a keep-alive.        *)
LEMMA SessionReceives ==
  ASSUME IInv, Session, S!Receive
  PROVE  /\ toDown # <<>> /\ toDown' = Tail(toDown)
         /\ Head(toDown) # KeepAlive /\ toDown \in Seq(DownItem)
<1>1. toDown # <<>> /\ toDown' = Tail(toDown)
  BY DEF S!Receive
<1>2. toDown \in Seq(DownItem)
  BY DEF IInv, TypeOK, DownItem
<1>3. toDown' # toDown
  <2>1. Len(Tail(toDown)) = Len(toDown) - 1 /\ Len(toDown) \in Nat
    BY <1>1, <1>2, HeadTailProperties, LenProperties
  <2>2. Len(Tail(toDown)) # Len(toDown)
    BY <2>1
  <2> QED BY <1>1, <2>2
<1> QED BY <1>1, <1>2, <1>3 DEF Session

LEMMA GreetingOrderly ==
  ASSUME IInv, Orderly, Session, S!Connect \/ S!DownHandshake PROVE Orderly'
<1>1. UNCHANGED <<up, choking, interested>>
  BY DEF Session, S!Connect, S!DownHandshake, S!upVars
<1>2. CASE S!Connect
  <2>1. /\ down = "connect" /\ down' = "handshake" /\ toUp' = <<S!Handshake>>
        /\ toDown' = toDown
    BY <1>2, ShortSequences DEF S!Connect, Orderly, Conversation
  <2> QED BY <1>1, <2>1 DEF Orderly, Conversation, S!Fetching
<1>3. CASE S!DownHandshake
  <2>1. /\ down = "handshake" /\ down' = "bitfield" /\ toUp' = toUp
        /\ toDown # <<>> /\ toDown' = Tail(toDown)
    BY <1>3, SessionReceives DEF S!DownHandshake
  <2>2. Tail(<<S!Handshake>>) = <<>>
    BY ShortSequences
  <2>3. \/ up \in {"greeted", "closed"} /\ toUp = <<>> /\ toDown' = <<>>
        \/ Here /\ toUp = <<>> /\ Says(toDown', {S!Bitfield})
    BY <2>1, <2>2 DEF Orderly, Conversation
  <2> QED BY <1>1, <2>1, <2>3 DEF Orderly, Conversation, S!Fetching, Here
<1> QED BY <1>2, <1>3

LEMMA UnchokingOrderly ==
  ASSUME IInv, Orderly, Session, S!DownBitfield \/ S!DownUnchoke PROVE Orderly'
<1>1. UNCHANGED <<up, choking, interested>>
  BY DEF Session, S!DownBitfield, S!DownUnchoke, S!upVars
<1>2. /\ toDown # <<>> /\ toDown' = Tail(toDown)
      /\ Head(toDown) # KeepAlive /\ toDown \in Seq(DownItem)
  BY SessionReceives DEF S!DownBitfield, S!DownUnchoke
<1>3. ASSUME NEW M, Says(toDown, M) PROVE Head(toDown) \in M /\ Idle(toDown')
  BY <1>2, <1>3, SaysTail
<1>4. ~Idle(toDown)
  BY <1>2, IdleTail
<1>5. CASE S!DownBitfield
  <2>1. Here /\ toUp = <<>> /\ Says(toDown, {S!Bitfield}) /\ choking /\ ~interested
    BY <1>2, <1>5 DEF S!DownBitfield, Orderly, Conversation
  <2>2. Head(toDown) = S!Bitfield /\ Idle(toDown')
    BY <1>3, <2>1
  <2>3. down' = "unchoke" /\ toUp' = <<S!Size, S!Interested>>
    BY <1>5, <2>1, <2>2, ShortSequences DEF S!DownBitfield
  <2> QED BY <1>1, <2>1, <2>2, <2>3 DEF Orderly, Conversation, S!Fetching, Here
<1>6. CASE S!DownUnchoke
  <2>1. Here /\ toUp = <<>> /\ Says(toDown, {S!Unchoke}) /\ ~choking
    BY <1>4, <1>6 DEF S!DownUnchoke, Orderly, Conversation
  <2>2. Head(toDown) = S!Unchoke /\ Idle(toDown')
    BY <1>3, <2>1
  <2>3. down' = "ready" /\ toUp' = <<>>
    BY <1>6, <2>1, <2>2 DEF S!DownUnchoke
  <2> QED BY <1>1, <2>1, <2>2, <2>3 DEF Orderly, Conversation, S!Fetching, Here
<1> QED BY <1>5, <1>6

LEMMA AskingOrderly ==
  ASSUME IInv, Orderly, Session, S!SendSize \/ S!SendBody PROVE Orderly'
<1>1. UNCHANGED <<up, choking, toDown, job, begin, piece>>
  BY DEF Session, S!SendSize, S!SendBody, S!upVars
<1>2. CASE S!SendSize
  <2>1. /\ down = "size" /\ down' = "body" /\ toUp' = <<S!Size>>
        /\ Here /\ Idle(toDown) /\ ~choking
    BY <1>2, ShortSequences DEF S!SendSize, Orderly, Conversation
  <2> QED BY <1>1, <2>1 DEF Orderly, Conversation, S!Fetching, Here
<1>3. CASE S!SendBody
  <2>1. /\ down = "body" /\ down' = "receive" /\ toUp' = <<S!Size, Asked>>
        /\ Here /\ Idle(toDown) /\ ~choking
    BY <1>3, ShortSequences DEF S!SendBody, Orderly, Conversation, Asked
  <2>2. Asked' = Asked
    BY <1>1, SameRequest
  <2> QED BY <1>1, <2>1, <2>2 DEF Orderly, Conversation, S!Fetching, Here
<1> QED BY <1>2, <1>3

LEMMA BlockOrderly ==
  ASSUME IInv, Orderly, Session, S!ReceiveBlock PROVE Orderly'
<1> DEFINE m == Head(toDown)
<1>1. UNCHANGED <<up, choking, interested, toUp, job>> /\ down = "receive"
  BY DEF Session, S!ReceiveBlock, S!upVars
<1>2. /\ toDown # <<>> /\ toDown' = Tail(toDown)
      /\ m # KeepAlive /\ toDown \in Seq(DownItem)
  BY SessionReceives DEF S!ReceiveBlock
<1>3. Here /\ toUp = <<>> /\ ~choking /\ Says(toDown, Answers)
  <2>1. ~Idle(toDown)
    BY <1>2, IdleTail
  <2> QED BY <1>1, <2>1 DEF Orderly, Conversation
<1>4. m \in Answers /\ Idle(toDown')
  BY <1>2, <1>3, SaysTail
<1>5. /\ InTurn /\ Len(piece) = begin /\ piece \in Seq(S!Byte)
  BY <1>1 DEF IInv, TypeOK, Turns, Orderly, S!Fetching
<1>6. begin \in Nat /\ S!BlockSize \in Nat
  BY <1>5, TurnBounds
<1>7. /\ m.type = "piece" /\ m.index = job /\ m.begin = begin
      /\ m.block \in Seq(S!Byte) /\ Len(m.block) = S!BlockSize
  BY <1>4 DEF Answers, S!Answer
<1>8. S!Expected(m)
  BY <1>5, <1>6, <1>7 DEF S!Expected
<1>9. /\ piece' = S!Spliced(m.block) /\ begin' = begin + S!BlockSize
      /\ down' \in {"size", "ready", "mismatch"}
  BY <1>8 DEF S!ReceiveBlock
<1> HIDE DEF m
<1>10. Len(piece') = begin'
  <2>1. begin <= Len(piece)
    BY <1>5, <1>6
  <2>2. Len(piece') = Len(piece) + Len(m.block)
    BY <1>5, <1>6, <1>7, <1>9, <2>1, SpliceTyped
  <2> QED BY <1>5, <1>7, <1>9, <2>2
<1> QED BY <1>1, <1>3, <1>4, <1>9, <1>10 DEF Orderly, Conversation, Here

LEMMA SessionOrderly == ASSUME IInv, Orderly, Session PROVE Orderly'
<1>1. CASE S!DownError \/ S!DownHandshakeTimeout
  <2>1. down' = "failed"
    BY <1>1 DEF S!DownError, S!DownHandshakeTimeout
  <2> QED BY <2>1 DEF Orderly, Conversation, S!Fetching
<1> QED BY <1>1, GreetingOrderly, UnchokingOrderly, AskingOrderly, BlockOrderly
        DEF Session, S!Downloader

LEMMA TakeRequestOrderly ==
  ASSUME Orderly, NEW i \in S!Piece, TakeRequest(i) PROVE Orderly'
<1>1. /\ down = "ready" /\ down' = "size" /\ begin' = 0 /\ piece' = <<>>
      /\ UNCHANGED <<up, toUp, toDown, choking>>
  BY DEF TakeRequest, S!TakeRequest, S!upVars
<1>2. Len(<<>>) = 0
  BY ShortSequences
<1> QED BY <1>1, <1>2 DEF Orderly, Conversation, S!Fetching, Here

(* The two steps of the downloader that are not in PeerSession.            *)
LEMMA SkippingOrderly ==
  ASSUME IInv, Orderly, SkipKeepAlive PROVE Orderly'
<1>1. /\ down \in {"bitfield", "unchoke", "receive"}
      /\ toDown # <<>> /\ toDown' = Tail(toDown) /\ Head(toDown) = KeepAlive
      /\ UNCHANGED <<down, job, begin, piece, up, choking, interested, toUp>>
  BY DEF SkipKeepAlive, Receives, S!Receive, downVars, seederVars
<1>2. toDown \in Seq(DownItem)
  BY DEF IInv, TypeOK, DownItem
<1>3. Idle(toDown) => Idle(toDown')
  BY <1>1, <1>2, IdleTail
<1>4. ASSUME NEW M, Says(toDown, M), KeepAlive \notin M PROVE Says(toDown', M)
  BY <1>1, <1>2, <1>4, SaysTail
<1>5. KeepAlive \notin {S!Bitfield} /\ KeepAlive \notin {S!Unchoke}
  BY DEF KeepAlive, S!Bitfield, S!Unchoke
<1>6. KeepAlive \notin Answers
  <2>1. KeepAlive.type # "piece"
    BY DEF KeepAlive
  <2>2. \A a \in Answers : a.type = "piece"
    BY DEF Answers, S!Answer
  <2> QED BY <2>1, <2>2
<1>7. /\ Says(toDown, {S!Bitfield}) => Says(toDown', {S!Bitfield})
      /\ Says(toDown, {S!Unchoke}) => Says(toDown', {S!Unchoke})
      /\ Says(toDown, Answers) => Says(toDown', Answers)
  BY <1>4, <1>5, <1>6
<1>8. Asked' = Asked /\ Answers' = Answers
  BY <1>1, SameRequest
<1> QED BY <1>1, <1>3, <1>7, <1>8 DEF Orderly, Conversation, S!Fetching, Here

LEMMA PeerIdOrderly ==
  ASSUME IInv, Orderly, RejectPeerId PROVE FALSE
<1>1. down = "handshake" /\ toDown # <<>> /\ Head(toDown) = BinaryHandshake
  BY DEF RejectPeerId, Receives, S!Receive
<1>2. Head(toDown) = S!Handshake
  BY <1>1, ShortSequences DEF Orderly, Conversation
<1>3. BinaryHandshake # S!Handshake
  <2>1. BinaryHandshake.type # S!Handshake.type
    BY DEF BinaryHandshake, S!Handshake
  <2> QED BY <2>1
<1> QED BY <1>1, <1>2, <1>3

(* The seeder answers.                                                     *)
LEMMA GreetOrderly == ASSUME Orderly, Polite, Greet PROVE Orderly'
<1>1. /\ up = "accept" /\ toUp # <<>> /\ up' = "greeted" /\ toUp' = Tail(toUp)
      /\ toDown' = Append(toDown, S!Handshake)
      /\ UNCHANGED <<down, job, begin, piece, choking, interested>>
  BY DEF Greet, Sends, Polite, downVars
<1>2. down \notin {"connect", "bitfield", "unchoke", "ready", "size", "body", "receive"}
  BY <1>1 DEF Orderly, Conversation, Here
<1>3. down = "handshake" => /\ toUp' = <<>> /\ toDown' = <<S!Handshake>>
                            /\ choking /\ ~interested
  BY <1>1, ShortSequences DEF Orderly, Conversation, Here
<1> QED BY <1>1, <1>2, <1>3 DEF Orderly, Conversation, S!Fetching

LEMMA BitfieldOrderly == ASSUME Orderly, Polite, SendBitfield PROVE Orderly'
<1>1. /\ up = "greeted" /\ up' = "open" /\ toDown' = Append(toDown, S!Bitfield)
      /\ UNCHANGED <<down, job, begin, piece, toUp, choking, interested>>
  BY DEF SendBitfield, Sends, Polite, downVars
<1>2. down \notin {"connect", "unchoke", "ready", "size", "body", "receive"}
  BY <1>1 DEF Orderly, Conversation, Here
<1>3. Says(<<S!Bitfield>>, {S!Bitfield})
  <2>1. S!Bitfield \in DownItem /\ S!Bitfield \in {S!Bitfield}
    BY ItemsTyped
  <2>2. Says(Append(<<>>, S!Bitfield), {S!Bitfield})
    BY Nothing, IdleAppend, <2>1
  <2>3. Append(<<>>, S!Bitfield) = <<S!Bitfield>>
    BY ShortSequences
  <2> QED BY <2>2, <2>3
<1>4. down = "handshake" =>
        /\ toUp = <<>> /\ toDown' = <<S!Handshake, S!Bitfield>>
        /\ choking /\ ~interested
  BY <1>1, ShortSequences DEF Orderly, Conversation, Here
<1>5. down = "bitfield" => /\ toUp = <<>> /\ toDown' = <<S!Bitfield>>
                           /\ choking /\ ~interested
  BY <1>1, ShortSequences DEF Orderly, Conversation, Here
<1>6. /\ Tail(<<S!Handshake, S!Bitfield>>) = <<S!Bitfield>>
      /\ Head(<<S!Handshake, S!Bitfield>>) = S!Handshake
      /\ <<S!Handshake, S!Bitfield>> # <<>>
  BY ShortSequences
<1> QED BY <1>1, <1>2, <1>3, <1>4, <1>5, <1>6 DEF Orderly, Conversation, S!Fetching, Here

LEMMA InterestedOrderly == ASSUME Orderly, ReadInterested PROVE Orderly'
<1>1. /\ up = "open" /\ Len(toUp) >= 2 /\ toUp[2] = S!Interested
      /\ toUp' = Tail(Tail(toUp))
      /\ UNCHANGED <<down, job, begin, piece, up, choking, toDown>>
  BY DEF ReadInterested, downVars
<1>2. /\ toUp # <<>> /\ toUp # <<S!Size>> /\ toUp # <<S!Size, Asked>>
  <2>1. Len(<<>>) = 0 /\ Len(<<S!Size>>) = 1 /\ <<S!Size, Asked>>[2] = Asked
    BY ShortSequences
  <2>2. Asked # S!Interested
    BY DEF Asked, S!RequestOf, S!Interested
  <2> QED BY <1>1, <2>1, <2>2
<1>3. /\ down \notin {"connect", "handshake", "bitfield", "ready", "size", "body", "receive"}
      /\ down = "unchoke" => toUp = <<S!Size, S!Interested>> /\ Idle(toDown) /\ choking
  BY <1>1, <1>2 DEF Orderly, Conversation, Here
<1>4. Tail(Tail(<<S!Size, S!Interested>>)) = <<>>
  BY ShortSequences
<1> QED BY <1>1, <1>3, <1>4 DEF Orderly, Conversation, S!Fetching, Here

LEMMA UnchokeOrderly == ASSUME IInv, Orderly, SendUnchoke PROVE Orderly'
<1>1. /\ up = "open" /\ choking /\ interested /\ choking' = FALSE
      /\ toDown' = Append(toDown, S!Unchoke)
      /\ UNCHANGED <<down, job, begin, piece, up, toUp>>
  BY DEF SendUnchoke, Sends, downVars
<1>2. /\ down \notin {"connect", "handshake", "bitfield", "ready", "size", "body", "receive"}
      /\ down = "unchoke" => toUp = <<>> /\ Idle(toDown)
  BY <1>1 DEF Orderly, Conversation
<1>3. toDown \in Seq(DownItem)
  BY DEF IInv, TypeOK, DownItem
<1>4. Idle(toDown) => Says(toDown', {S!Unchoke})
  BY <1>1, <1>3, IdleAppend, ItemsTyped
<1> QED BY <1>1, <1>2, <1>4 DEF Orderly, Conversation, S!Fetching, Here

LEMMA AnswerOrderly == ASSUME IInv, Orderly, ReadRequest PROVE Orderly'
<1>1. /\ up = "open" /\ Len(toUp) >= 2 /\ toUp[2].type = "request"
      /\ toUp' = Tail(Tail(toUp))
      /\ UNCHANGED <<down, job, begin, piece, up, choking, interested>>
  BY DEF ReadRequest, downVars, seederVars
<1>2. /\ toUp # <<>> /\ toUp # <<S!Size>> /\ toUp # <<S!Size, S!Interested>>
  <2>1. /\ Len(<<>>) = 0 /\ Len(<<S!Size>>) = 1
        /\ <<S!Size, S!Interested>>[2] = S!Interested
    BY ShortSequences
  <2>2. S!Interested.type # "request"
    BY DEF S!Interested
  <2> QED BY <1>1, <2>1, <2>2
<1>3. /\ down \notin {"connect", "handshake", "bitfield", "unchoke", "ready", "size", "body"}
      /\ down = "receive" => toUp = <<S!Size, Asked>> /\ Idle(toDown) /\ ~choking
  BY <1>1, <1>2 DEF Orderly, Conversation, Here
<1>4. CASE down = "receive"
  <2>1. toUp' = <<>> /\ toUp[2] = Asked
    <3>1. Tail(Tail(<<S!Size, Asked>>)) = <<>> /\ <<S!Size, Asked>>[2] = Asked
      BY ShortSequences
    <3> QED BY <1>1, <1>3, <1>4, <3>1
  <2>2. InTurn
    BY <1>4 DEF IInv, Turns, S!Fetching
  <2>3. Asked \in S!Request /\ disk \in Seq(S!Byte) /\ toDown \in Seq(DownItem)
    BY <2>2, TurnBounds DEF IInv, TypeOK, DownItem
  <2> DEFINE b == S!Block(Asked)
             a == S!PieceOf(job, begin, b)
  <2>4. /\ Asked.index = job /\ Asked.begin = begin /\ Asked.length = S!BlockSize
    BY DEF Asked, S!RequestOf
  <2>5. toDown' = toDown \/ (S!Readable(Asked) /\ toDown' = Append(toDown, a))
    BY <2>1, <2>4 DEF ReadRequest, Sends
  <2>6. S!Readable(Asked) => a \in Answers /\ a \in DownItem
    <3>1. S!Readable(Asked) => a \in S!Answer /\ Len(b) = S!BlockSize
      BY <2>3, <2>4, BlockTyped
    <3>2. a.index = job /\ a.begin = begin /\ a.block = b
      BY DEF S!PieceOf
    <3> HIDE DEF a, b
    <3> QED BY <3>1, <3>2 DEF Answers, DownItem
  <2> HIDE DEF a, b
  <2>7. Idle(toDown') \/ Says(toDown', Answers)
    BY <1>3, <1>4, <2>3, <2>5, <2>6, IdleAppend
  <2>8. Asked' = Asked /\ Answers' = Answers
    BY <1>1, SameRequest
  <2> QED BY <1>1, <1>3, <1>4, <2>1, <2>7, <2>8 DEF Orderly, Conversation, S!Fetching, Here
<1>5. CASE down # "receive"
  BY <1>1, <1>3, <1>5 DEF Orderly, Conversation, S!Fetching
<1> QED BY <1>4, <1>5

(* A keep-alive may come at any time once the seeder is open.              *)
LEMMA KeepAliveOrderly == ASSUME IInv, Orderly, SendKeepAlive PROVE Orderly'
<1>1. /\ up = "open" /\ toDown' = Append(toDown, KeepAlive)
      /\ UNCHANGED <<down, job, begin, piece, up, choking, interested, toUp>>
  BY DEF SendKeepAlive, Extra, Sends, downVars
<1>2. toDown \in Seq(DownItem)
  BY DEF IInv, TypeOK, DownItem
<1>3. Idle(toDown) => Idle(toDown')
  BY <1>1, <1>2, IdleAppend, ItemsTyped
<1>4. ASSUME NEW M, Says(toDown, M) PROVE Says(toDown', M)
  BY <1>1, <1>2, <1>4, SaysAppend
<1>5. ASSUME toDown # <<>>, Says(Tail(toDown), {S!Bitfield})
      PROVE  /\ toDown' # <<>> /\ Head(toDown') = Head(toDown)
             /\ Says(Tail(toDown'), {S!Bitfield})
  <2>1. /\ Head(toDown') = Head(toDown)
        /\ Tail(toDown') = Append(Tail(toDown), KeepAlive)
    BY <1>1, <1>2, <1>5, HeadTailAppend
  <2>2. Tail(toDown) \in Seq(DownItem)
    BY <1>2, <1>5, HeadTailProperties
  <2>3. Says(Append(Tail(toDown), KeepAlive), {S!Bitfield})
    BY <1>5, <2>2, SaysAppend
  <2>4. toDown' # <<>>
    BY <1>1, <1>2, AppendProperties, ItemsTyped
  <2> QED BY <2>1, <2>3, <2>4
<1>6. Asked' = Asked /\ Answers' = Answers
  BY <1>1, SameRequest
<1>7. /\ Says(toDown, {S!Bitfield}) => Says(toDown', {S!Bitfield})
      /\ Says(toDown, {S!Unchoke}) => Says(toDown', {S!Unchoke})
      /\ Says(toDown, Answers) => Says(toDown', Answers)
  BY <1>4
<1> QED BY <1>1, <1>3, <1>5, <1>6, <1>7 DEF Orderly, Conversation, S!Fetching, Here

LEMMA SilentOrderly ==
  ASSUME Orderly, Leave \/ BreakLink \/ UNCHANGED vars PROVE Orderly'
<1>1. /\ UNCHANGED <<down, job, begin, piece, toUp, toDown, choking, interested>>
      /\ up' = up \/ up' = "closed"
  BY DEF Leave, BreakLink, S!BreakLink, S!downVars, S!upVars, vars, downVars, seederVars
<1>2. Asked' = Asked /\ Answers' = Answers
  BY <1>1, SameRequest
<1> QED BY <1>1, <1>2 DEF Orderly, Conversation, S!Fetching, Here

LEMMA NextOrderly ==
  ASSUME IInv, Polite => Orderly, [Next]_vars
  PROVE  Polite' => Orderly'
<1>1. habits' = habits
  BY DEF Next, Session, SkipKeepAlive, RejectPeerId, TakeRequest, EndStream, Greet,
     SendBitfield, ReadInterested, SendUnchoke, ReadRequest, SendKeepAlive, SendHave,
     SendChoke, Extra, Leave, BreakLink, vars, seederVars
<1> SUFFICES ASSUME Polite PROVE Orderly'
  BY <1>1 DEF Polite
<1>2. CASE Session
  BY <1>2, SessionOrderly
<1>3. CASE \E i \in S!Piece : TakeRequest(i)
  BY <1>3, TakeRequestOrderly
<1>4. CASE EndStream
  BY <1>4 DEF EndStream, S!EndStream, Orderly, Conversation, S!Fetching
<1>5. CASE SkipKeepAlive \/ RejectPeerId
  BY <1>5, SkippingOrderly, PeerIdOrderly
<1>6. CASE Greet \/ SendBitfield \/ ReadInterested \/ SendUnchoke \/ ReadRequest
  BY <1>6, GreetOrderly, BitfieldOrderly, InterestedOrderly, UnchokeOrderly, AnswerOrderly
<1>7. CASE SendKeepAlive
  BY <1>7, KeepAliveOrderly
<1>8. CASE SendHave \/ SendChoke
  BY <1>8 DEF SendHave, SendChoke, Extra, Polite
<1>9. CASE Leave \/ BreakLink \/ UNCHANGED vars
  BY <1>9, SilentOrderly
<1> QED BY <1>2, <1>3, <1>4, <1>5, <1>6, <1>7, <1>8, <1>9 DEF Next

(* Keep-alives between any two messages are harmless: the downloader never *)
(* takes one for a message, and never loses or cuts the one behind it.     *)
THEOREM KeepAlivesAreHarmless == Spec => []NoUnexpectedMessage
<1>1. Init => (Polite => Orderly)
  BY InitOrderly
<1>2. IInv /\ (Polite => Orderly) /\ [Next]_vars => (Polite => Orderly)'
  BY NextOrderly
<1>3. (Polite => Orderly) => NoUnexpectedMessage
  BY DEF Polite, Orderly, NoUnexpectedMessage
<1> QED BY <1>1, <1>2, <1>3, Invariance, PTL DEF Spec
=============================================================================
