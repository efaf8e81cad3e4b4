------------------------- MODULE PeerSession_proofs -------------------------
(* Theorems about one connection between a downloader and an uploader of   *)
(* this project, for a file of any length, pieces and blocks of any size,  *)
(* any number of timeouts and any failure of the network or of the disk.   *)
EXTENDS PeerSession, SequenceTheorems, TLAPS

(* There is no piece past the end of the file, and none is empty.          *)
LEMMA Multiples ==
  ASSUME NEW p \in Nat \ {0}, NEW a \in Nat, NEW b \in Nat, a + 1 <= b
  PROVE  p * a \in Nat /\ p * b \in Nat /\ p * a + p <= p * b
OBVIOUS

LEMMA Rounding ==
  ASSUME NEW n \in Nat, NEW p \in Nat \ {0}
  PROVE  n \div p \in Nat /\ p * (n \div p) <= n
OBVIOUS

LEMMA PieceIsInFile ==
  ASSUME NEW i \in Piece
  PROVE  /\ i \in Nat /\ PieceLength * i \in Nat
         /\ PieceSize(i) \in Nat /\ 1 <= PieceSize(i) /\ PieceSize(i) <= PieceLength
         /\ PieceLength * i + PieceSize(i) <= FileLength
         /\ FileLength \in Nat /\ PieceLength \in Nat \ {0}
         /\ i * PieceLength = PieceLength * i
<1>1. FileLength \in Nat /\ PieceLength \in Nat \ {0}
  BY LengthAssumption, PieceLengthAssumption
<1>2. FileLength + PieceLength - 1 \in Nat
  BY <1>1
<1>3. PieceCount \in Nat /\ PieceLength * PieceCount <= FileLength + PieceLength - 1
  BY <1>1, <1>2, Rounding DEF PieceCount
<1>4. i \in Nat /\ i + 1 <= PieceCount
  BY <1>3 DEF Piece
<1>5. /\ PieceLength * i \in Nat /\ PieceLength * PieceCount \in Nat
      /\ PieceLength * i + PieceLength <= PieceLength * PieceCount
  BY <1>1, <1>3, <1>4, Multiples
<1>6. PieceLength * i < FileLength
  BY <1>1, <1>3, <1>5
<1>7. i * PieceLength = PieceLength * i
  BY <1>1, <1>4
<1> QED BY <1>1, <1>4, <1>5, <1>6, <1>7 DEF PieceSize, Least

LEMMA OriginalTyped == Original \in Seq(Byte) /\ Len(Original) = FileLength
<1>1. FileLength \in Nat
  BY LengthAssumption
<1>2. \A k \in 1 .. FileLength : k - 1 \in Byte
  BY <1>1 DEF Byte
<1> QED BY <1>1, <1>2 DEF Original

(* The messages that one end writes before the other reads.                *)
LEMMA ShortSequences ==
  ASSUME NEW a, NEW b
  PROVE  /\ Append(<<>>, a) = <<a>> /\ Append(<<a>>, b) = <<a, b>>
         /\ <<>> \o <<a, b>> = <<a, b>>
         /\ Head(<<a>>) = a /\ Tail(<<a>>) = <<>>
         /\ Head(<<a, b>>) = a /\ Tail(<<a, b>>) = <<b>>
         /\ <<a>> # <<>> /\ <<a, b>> # <<>> /\ <<a>>[1] = a
         /\ Len(<<>>) = 0 /\ Len(<<a>>) = 1 /\ Len(<<a, b>>) = 2
<1>1. Append(<<>>, a) = <<a>>
  OBVIOUS
<1>2. Append(<<a>>, b) = <<a, b>>
  <2> DEFINE s == Append(<<a>>, b)
             t == <<a, b>>
  <2>1. <<a>> \in Seq({a, b}) /\ t \in Seq({a, b}) /\ b \in {a, b}
    OBVIOUS
  <2>2. s \in Seq({a, b}) /\ Len(s) = Len(<<a>>) + 1
        /\ (\A i \in 1 .. Len(<<a>>) : s[i] = <<a>>[i]) /\ s[Len(<<a>>) + 1] = b
    BY <2>1, AppendProperties
  <2>3. Len(<<a>>) = 1 /\ <<a>>[1] = a /\ Len(t) = 2 /\ t[1] = a /\ t[2] = b
    OBVIOUS
  <2> HIDE DEF s, t
  <2>4. Len(s) = 2 /\ s[1] = a /\ s[2] = b
    BY <2>2, <2>3
  <2>5. \A i \in 1 .. 2 : s[i] = t[i]
    BY <2>3, <2>4
  <2>6. s = t
    BY <2>1, <2>2, <2>3, <2>4, <2>5, SeqEqual
  <2> QED BY <2>6 DEF s, t
<1>3. <<>> \o <<a, b>> = <<a, b>>
  <2>1. <<a, b>> \in Seq({a, b})
    OBVIOUS
  <2> QED BY <2>1, ConcatEmptySeq
<1>4. Head(<<a>>) = a /\ Head(<<a, b>>) = a
  OBVIOUS
<1>5. Tail(<<a>>) = <<>>
  OBVIOUS
<1>6. Tail(<<a, b>>) = <<b>>
  OBVIOUS
<1>7. Len(<<>>) = 0 /\ Len(<<a>>) = 1 /\ Len(<<a, b>>) = 2
  OBVIOUS
<1>8. <<a>> # <<>> /\ <<a, b>> # <<>> /\ <<a>>[1] = a
  OBVIOUS
<1> QED BY <1>1, <1>2, <1>3, <1>4, <1>5, <1>6, <1>7, <1>8

-----------------------------------------------------------------------------
(* The inductive invariant.  The four properties speak of what each end    *)
(* sees of the other; what makes them inductive is the whole conversation: *)
(* which messages can be on the way, and where the uploader then is, for   *)
(* each place of the downloader.                                           *)

(* The downloader is in a piece and has a block to ask for: this one.      *)
InTurn == job \in Piece /\ begin \in 0 .. PieceSize(job) - 1
Asked == RequestOf(job, begin, BlockSize)

(* The answer to it is on the way.  Its block has the length that was      *)
(* asked for even if the file was edited, and is right if it was not.      *)
Answered ==
  /\ toDown = <<PieceOf(job, begin, toDown[1].block)>>
  /\ toDown[1].block \in Seq(Byte) /\ Len(toDown[1].block) = BlockSize
  /\ disk = Original => toDown[1].block = Block(Asked)

Quiet == toUp = <<>> /\ toDown = <<>>

(* The uploader waits for a size, or has left its loop.                    *)
Looping == up \in {"size", "idle", "closed"}

Conversation ==
  /\ down = "connect" => up = "accept" /\ Quiet
  /\ down = "handshake" =>
       \/ up = "accept" /\ toUp = <<Handshake>> /\ toDown = <<>>
       \/ up \in {"handshake", "closed"} /\ toUp = <<Handshake>> /\ toDown = <<Handshake>>
       \/ up \in {"interested", "closed"} /\ toUp = <<>> /\ toDown = <<Handshake, Bitfield>>
  /\ down = "bitfield" =>
       \/ up \in {"handshake", "closed"} /\ toUp = <<Handshake>> /\ toDown = <<>>
       \/ up \in {"interested", "closed"} /\ toUp = <<>> /\ toDown = <<Bitfield>>
  /\ down = "unchoke" =>
       \/ up \in {"interested", "closed"} /\ toUp = <<Size, Interested>> /\ toDown = <<>>
       \/ Looping /\ toUp = <<>> /\ toDown = <<Unchoke>>
  /\ down \in {"ready", "size"} => Looping /\ Quiet
  /\ down = "body" =>
       \/ Looping /\ toUp = <<Size>> /\ toDown = <<>>
       \/ (Looping \/ up = "body") /\ Quiet
  /\ down = "receive" =>
       \/ Looping /\ toUp = <<Size, Asked>> /\ toDown = <<>>
       \/ (Looping \/ up = "body") /\ toUp = <<Asked>> /\ toDown = <<>>
       \/ (Looping \/ up \in {"body", "refused", "panicked"}) /\ Quiet
       \/ Looping /\ toUp = <<>> /\ Answered

(* What the uploader still finds to read, if the downloader is gone too.   *)
Unread ==
  /\ up \in {"accept", "handshake"} => toUp = <<>> \/ toUp = <<Handshake>>
  /\ up = "interested" => toUp = <<>> \/ toUp = <<Size, Interested>>
  /\ up = "size" => \/ toUp = <<>> \/ toUp = <<Size>>
                    \/ InTurn /\ (toUp = <<Asked>> \/ toUp = <<Size, Asked>>)
  /\ up = "body" => toUp = <<>> \/ (InTurn /\ toUp = <<Asked>>)

Patience == up # "idle" => timeouts < MaxConsecutiveTimeouts

Progress ==
  /\ down \in Connecting => job = NoPiece
  /\ down \in Fetching => InTurn /\ Len(piece) = begin
  /\ down \in Fetching /\ disk = Original =>
       piece = SubSeq(Original, PieceLength * job + 1, PieceLength * job + begin)
  /\ down = "ready" /\ job # NoPiece => piece = PieceBytes[job]

IInv ==
  /\ TypeOK /\ Conversation /\ Unread /\ Patience /\ Progress
  /\ NoUnexpectedMessage /\ ServesTheFile

(* What the invariant says of the request that can be on the way.          *)
LEMMA RequestIsInFile ==
  ASSUME InTurn
  PROVE  /\ Asked \in Request
         /\ BlockSize \in Nat /\ 1 <= BlockSize
         /\ begin \in Nat /\ begin + BlockSize <= PieceSize(job)
         /\ Offset(Asked) = PieceLength * job + begin
         /\ PieceLength * job + begin \in Nat
         /\ PieceLength * job + begin + BlockSize <= FileLength
         /\ Asked.index = job /\ Asked.begin = begin /\ Asked.length = BlockSize
<1>1. job \in Piece /\ begin \in 0 .. PieceSize(job) - 1
  BY DEF InTurn
<1>2. /\ PieceLength * job \in Nat /\ PieceSize(job) \in Nat
      /\ PieceLength * job + PieceSize(job) <= FileLength
      /\ job * PieceLength = PieceLength * job /\ FileLength \in Nat
  BY <1>1, PieceIsInFile
<1>3. /\ BlockSize \in Nat /\ 1 <= BlockSize /\ begin \in Nat
      /\ begin + BlockSize <= PieceSize(job)
  BY <1>1, <1>2, BlockAssumption DEF BlockSize, Least
<1>4. Asked \in Request /\ Asked.index = job /\ Asked.begin = begin /\ Asked.length = BlockSize
  BY <1>1, <1>3 DEF Asked, RequestOf, Request
<1> QED BY <1>2, <1>3, <1>4 DEF Offset

LEMMA BlockIsRead ==
  ASSUME disk \in Seq(Byte), InTurn, Readable(Asked)
  PROVE  /\ Block(Asked) \in Seq(Byte) /\ Len(Block(Asked)) = BlockSize
         /\ PieceOf(job, begin, Block(Asked)) \in Answer
<1> DEFINE f == PieceLength * job + begin
           m == f + 1
           n == f + BlockSize
<1>0. /\ f \in Nat /\ BlockSize \in Nat /\ 1 <= BlockSize
      /\ Offset(Asked) = f /\ Asked.length = BlockSize
      /\ begin \in Nat /\ job \in Piece
  BY RequestIsInFile DEF InTurn
<1> HIDE DEF f
<1>1. /\ m \in Nat /\ n \in Nat /\ 1 <= m /\ m <= n /\ n - m + 1 = BlockSize
      /\ Offset(Asked) + 1 = m /\ Offset(Asked) + Asked.length = n
      /\ begin \in Nat /\ job \in Piece
  BY <1>0
<1>2. n <= Len(disk) /\ disk \in Seq(Byte)
  BY <1>1 DEF Readable
<1> HIDE DEF m, n
<1>3. \A k \in m .. n : disk[k] \in Byte
  BY <1>1, <1>2, ElementOfSeq
<1>4. SubSeq(disk, m, n) \in Seq(Byte) /\ Len(SubSeq(disk, m, n)) = BlockSize
  BY <1>1, <1>3, SubSeqProperties
<1>5. Block(Asked) = SubSeq(disk, m, n)
  BY <1>1 DEF Block
<1> QED BY <1>1, <1>4, <1>5 DEF PieceOf, Answer

(* What a step that leaves the downloader alone leaves as it is.           *)
LEMMA SameRequest ==
  ASSUME UNCHANGED <<job, begin>>
  PROVE  Asked' = Asked /\ (InTurn <=> InTurn') /\ BlockSize' = BlockSize
BY DEF Asked, InTurn, BlockSize, RequestOf

LEMMA SameAnswer ==
  ASSUME UNCHANGED <<job, begin, toDown, disk>>
  PROVE  Answered' <=> Answered
BY SameRequest DEF Answered, Block, Offset, PieceOf

LEMMA SameProgress ==
  ASSUME UNCHANGED <<down, job, begin, piece>>, disk' = disk \/ disk = Original
  PROVE  Progress => Progress'
BY SameRequest DEF Progress

LEMMA InitIInv == Init => IInv
<1> SUFFICES ASSUME Init PROVE IInv
  OBVIOUS
<1>1. TypeOK
  BY EmptySeq, OriginalTyped, PieceLengthAssumption, TimeoutsAssumption
     DEF Init, TypeOK, Connecting, Fetching
<1>2. Conversation /\ Unread /\ NoUnexpectedMessage /\ ServesTheFile
  BY DEF Init, Conversation, Unread, NoUnexpectedMessage, ServesTheFile, Quiet
<1>3. Patience /\ Progress
  BY TimeoutsAssumption DEF Init, Patience, Progress, Connecting, Fetching
<1> QED BY <1>1, <1>2, <1>3 DEF IInv

-----------------------------------------------------------------------------
(* Each step of the downloader keeps the invariant.                        *)
UpItem == {Handshake, Size, Interested} \cup Request
DownItem == {Handshake, Bitfield, Unchoke} \cup Answer

LEMMA ShortTyped ==
  ASSUME NEW S, NEW a \in S, NEW b \in S
  PROVE  <<>> \in Seq(S) /\ <<a>> \in Seq(S) /\ <<a, b>> \in Seq(S)
OBVIOUS

LEMMA TailTyped ==
  ASSUME NEW S, NEW s \in Seq(S), s # <<>>
  PROVE  Head(s) \in S /\ Tail(s) \in Seq(S)
BY HeadTailProperties

LEMMA ConnectOK == ASSUME IInv, Connect PROVE IInv'
<1>1. /\ down = "connect" /\ up = "accept" /\ Quiet /\ down' = "handshake"
      /\ toUp' = <<Handshake>>
      /\ UNCHANGED <<job, begin, piece, up, timeouts, toDown, link, disk>>
  BY ShortSequences DEF IInv, Conversation, Connect, Quiet, upVars
<1>2. TypeOK'
  <2>1. <<Handshake>> \in Seq(UpItem)
    BY ShortTyped DEF UpItem
  <2> QED BY <1>1, <2>1 DEF IInv, TypeOK, UpItem, Connecting
<1>3. Conversation' /\ Unread' /\ NoUnexpectedMessage' /\ ServesTheFile'
  BY <1>1 DEF Conversation, Unread, NoUnexpectedMessage, ServesTheFile, Quiet
<1>4. Patience' /\ Progress'
  BY <1>1 DEF IInv, Patience, Progress, Connecting, Fetching
<1> QED BY <1>2, <1>3, <1>4 DEF IInv

LEMMA DownHandshakeOK == ASSUME IInv, DownHandshake PROVE IInv'
<1>1. /\ down = "handshake" /\ toDown # <<>> /\ down' = "bitfield" /\ toDown' = Tail(toDown)
      /\ UNCHANGED <<job, begin, piece, up, timeouts, toUp, link, disk>>
  BY DEF DownHandshake, Receive, upVars
<1>2. TypeOK'
  <2>1. toDown' \in Seq(DownItem)
    BY <1>1, TailTyped DEF IInv, TypeOK, DownItem
  <2> QED BY <1>1, <2>1 DEF IInv, TypeOK, DownItem, Connecting
<1>3. \/ up \in {"handshake", "closed"} /\ toUp = <<Handshake>> /\ toDown' = <<>>
      \/ up \in {"interested", "closed"} /\ toUp = <<>> /\ toDown' = <<Bitfield>>
  <2>1. Tail(<<Handshake>>) = <<>> /\ Tail(<<Handshake, Bitfield>>) = <<Bitfield>>
    BY ShortSequences
  <2> QED BY <1>1, <2>1 DEF IInv, Conversation
<1>4. Conversation' /\ Unread' /\ NoUnexpectedMessage' /\ ServesTheFile'
  BY <1>1, <1>3 DEF IInv, Conversation, Unread, NoUnexpectedMessage, ServesTheFile
<1>5. Patience' /\ Progress'
  BY <1>1 DEF IInv, Patience, Progress, Connecting, Fetching
<1> QED BY <1>2, <1>4, <1>5 DEF IInv

LEMMA DownBitfieldOK == ASSUME IInv, DownBitfield PROVE IInv'
<1>1. /\ down = "bitfield" /\ up \in {"interested", "closed"}
      /\ toUp = <<>> /\ toDown = <<Bitfield>>
  BY DEF IInv, Conversation, DownBitfield, Receive
<1>2. /\ down' = "unchoke" /\ toUp' = <<Size, Interested>> /\ toDown' = <<>>
      /\ UNCHANGED <<job, begin, piece, up, timeouts, link, disk>>
  BY <1>1, ShortSequences DEF DownBitfield, Receive, upVars
<1>3. TypeOK'
  <2>1. <<Size, Interested>> \in Seq(UpItem) /\ <<>> \in Seq(DownItem)
    BY ShortTyped DEF UpItem, DownItem
  <2> QED BY <1>2, <2>1 DEF IInv, TypeOK, UpItem, DownItem, Connecting
<1>4. Conversation' /\ Unread' /\ NoUnexpectedMessage' /\ ServesTheFile'
  BY <1>1, <1>2 DEF IInv, Conversation, Unread, NoUnexpectedMessage, ServesTheFile
<1>5. Patience' /\ Progress'
  BY <1>1, <1>2 DEF IInv, Patience, Progress, Connecting, Fetching
<1> QED BY <1>3, <1>4, <1>5 DEF IInv

LEMMA DownUnchokeOK == ASSUME IInv, DownUnchoke PROVE IInv'
<1>1. down = "unchoke" /\ Looping /\ toUp = <<>> /\ toDown = <<Unchoke>>
  BY DEF IInv, Conversation, DownUnchoke, Receive
<1>2. /\ down' = "ready" /\ toDown' = <<>>
      /\ UNCHANGED <<job, begin, piece, up, timeouts, toUp, link, disk>>
  BY <1>1, ShortSequences DEF DownUnchoke, Receive, upVars
<1>3. TypeOK'
  <2>1. <<>> \in Seq(DownItem)
    BY EmptySeq
  <2> QED BY <1>2, <2>1 DEF IInv, TypeOK, DownItem
<1>4. Conversation' /\ Unread' /\ NoUnexpectedMessage' /\ ServesTheFile'
  BY <1>1, <1>2
     DEF IInv, Conversation, Unread, NoUnexpectedMessage, ServesTheFile, Looping, Quiet
<1>5. Patience' /\ Progress'
  BY <1>1, <1>2 DEF IInv, Patience, Progress, Connecting, Fetching
<1> QED BY <1>3, <1>4, <1>5 DEF IInv

LEMMA TakeRequestOK == ASSUME IInv, NEW i \in Piece, TakeRequest(i) PROVE IInv'
<1>1. /\ down = "ready" /\ Looping /\ Quiet
      /\ down' = "size" /\ job' = i /\ begin' = 0 /\ piece' = <<>>
      /\ UNCHANGED <<up, timeouts, toUp, toDown, link, disk>>
  BY DEF IInv, Conversation, TakeRequest, upVars
<1>2. /\ PieceLength * i \in Nat /\ PieceLength \in Nat /\ PieceSize(i) \in Nat
      /\ 1 <= PieceSize(i)
  BY PieceIsInFile
<1>3. TypeOK'
  <2>1. <<>> \in Seq(Byte) /\ 0 \in 0 .. PieceLength
    BY <1>2, EmptySeq
  <2> QED BY <1>1, <2>1 DEF IInv, TypeOK, Fetching
<1>4. Conversation' /\ Unread' /\ NoUnexpectedMessage' /\ ServesTheFile'
  BY <1>1 DEF IInv, Conversation, Unread, NoUnexpectedMessage, ServesTheFile, Looping, Quiet
<1>5. Progress'
  <2>1. InTurn' /\ Len(piece') = begin'
    BY <1>1, <1>2 DEF InTurn, PieceSize
  <2>2. <<>> = SubSeq(Original, PieceLength * i + 1, PieceLength * i + 0)
    BY <1>2, SubSeqEmpty
  <2> QED BY <1>1, <2>1, <2>2 DEF Progress, Connecting, Fetching
<1>6. Patience'
  BY <1>1 DEF IInv, Patience
<1> QED BY <1>3, <1>4, <1>5, <1>6 DEF IInv

LEMMA EndStreamOK == ASSUME IInv, EndStream PROVE IInv'
<1>1. /\ down = "ready" /\ down' = "ended"
      /\ UNCHANGED <<job, begin, piece, up, timeouts, toUp, toDown, link, disk>>
  BY DEF EndStream, upVars
<1>2. TypeOK' /\ Patience' /\ Progress'
  BY <1>1 DEF IInv, TypeOK, Patience, Progress, Connecting, Fetching
<1>3. Asked' = Asked /\ (InTurn <=> InTurn')
  BY <1>1, SameRequest
<1>4. Conversation' /\ Unread' /\ NoUnexpectedMessage' /\ ServesTheFile'
  BY <1>1, <1>3 DEF IInv, Conversation, Unread, NoUnexpectedMessage, ServesTheFile
<1> QED BY <1>2, <1>4 DEF IInv

LEMMA SendSizeOK == ASSUME IInv, SendSize PROVE IInv'
<1>1. /\ down = "size" /\ Looping /\ Quiet
      /\ down' = "body" /\ toUp' = <<Size>>
      /\ UNCHANGED <<job, begin, piece, up, timeouts, toDown, link, disk>>
  BY ShortSequences DEF IInv, Conversation, SendSize, Quiet, upVars
<1>2. TypeOK'
  <2>1. <<Size>> \in Seq(UpItem)
    BY ShortTyped DEF UpItem
  <2> QED BY <1>1, <2>1 DEF IInv, TypeOK, UpItem, Fetching
<1>3. Conversation' /\ Unread' /\ NoUnexpectedMessage' /\ ServesTheFile'
  BY <1>1 DEF IInv, Conversation, Unread, NoUnexpectedMessage, ServesTheFile, Looping, Quiet
<1>4. InTurn <=> InTurn'
  BY <1>1, SameRequest
<1>5. Patience' /\ Progress'
  BY <1>1, <1>4 DEF IInv, Patience, Progress, Connecting, Fetching
<1> QED BY <1>2, <1>3, <1>5 DEF IInv

LEMMA SendBodyOK == ASSUME IInv, SendBody PROVE IInv'
<1>1. /\ down = "body" /\ toDown = <<>> /\ down' = "receive" /\ toUp' = Append(toUp, Asked)
      /\ UNCHANGED <<job, begin, piece, up, timeouts, toDown, link, disk>>
  BY DEF IInv, Conversation, SendBody, Quiet, upVars, Asked
<1>2. \/ Looping /\ toUp' = <<Size, Asked>>
      \/ (Looping \/ up = "body") /\ toUp' = <<Asked>>
  BY <1>1, ShortSequences DEF IInv, Conversation, Quiet
<1>3. InTurn /\ Asked' = Asked /\ InTurn'
  BY <1>1, SameRequest DEF IInv, Progress, Fetching
<1>4. TypeOK'
  <2>1. <<Size, Asked>> \in Seq(UpItem) /\ <<Asked>> \in Seq(UpItem)
    BY <1>3, RequestIsInFile, ShortTyped DEF UpItem
  <2> QED BY <1>1, <1>2, <2>1 DEF IInv, TypeOK, UpItem, Fetching
<1>5. Conversation' /\ Unread' /\ NoUnexpectedMessage' /\ ServesTheFile'
  BY <1>1, <1>2, <1>3
     DEF IInv, Conversation, Unread, NoUnexpectedMessage, ServesTheFile, Looping
<1>6. Patience' /\ Progress'
  BY <1>1, <1>3 DEF IInv, Patience, Progress, Connecting, Fetching
<1> QED BY <1>4, <1>5, <1>6 DEF IInv

(* A block that is received is put behind the bytes that came before it.   *)
LEMMA SpliceAppends ==
  ASSUME NEW b \in Seq(Byte), piece \in Seq(Byte), begin = Len(piece)
  PROVE  /\ Spliced(b) = piece \o b
         /\ Spliced(b) \in Seq(Byte) /\ Len(Spliced(b)) = begin + Len(b)
<1>1. Len(piece) \in Nat
  BY LenProperties
<1>2. SubSeq(piece, 1, begin) = piece
  BY SubSeqFull
<1>3. SubSeq(piece, begin + 1, Len(piece)) = <<>>
  BY <1>1, SubSeqEmpty
<1>4. piece \o b \in Seq(Byte) /\ Len(piece \o b) = Len(piece) + Len(b)
  BY ConcatProperties
<1>5. (piece \o b) \o <<>> = piece \o b
  BY <1>4, ConcatEmptySeq
<1> QED BY <1>2, <1>3, <1>4, <1>5 DEF Spliced

(* The bytes of two blocks that follow one another in the file.            *)
LEMMA NextBytes ==
  ASSUME NEW f \in Nat, NEW a \in Nat, NEW n \in Nat, f + a + n <= FileLength
  PROVE  SubSeq(Original, f + 1, f + a) \o SubSeq(Original, f + a + 1, f + a + n)
           = SubSeq(Original, f + 1, f + a + n)
<1> DEFINE m == f + 1
           k == f + a
           q == f + a + n
<1>1. /\ m \in 1 .. Len(Original) + 1 /\ k \in m - 1 .. Len(Original)
      /\ q \in k .. Len(Original) /\ Original \in Seq(Byte)
  BY OriginalTyped, LengthAssumption
<1> HIDE DEF m, k, q
<1>2. SubSeq(Original, m, k) \o SubSeq(Original, k + 1, q) = SubSeq(Original, m, q)
  BY <1>1, ConcatAdjacentSubSeq
<1> QED BY <1>2 DEF m, k, q

LEMMA ReceiveBlockOK == ASSUME IInv, ReceiveBlock PROVE IInv'
<1> DEFINE b == toDown[1].block
<1>1. down = "receive" /\ toDown # <<>>
  BY DEF ReceiveBlock, Receive
<1>2. /\ InTurn /\ Len(piece) = begin /\ piece \in Seq(Byte)
      /\ disk = Original =>
           piece = SubSeq(Original, PieceLength * job + 1, PieceLength * job + begin)
  BY <1>1 DEF IInv, TypeOK, Progress, Fetching
<1>3. Looping /\ toUp = <<>> /\ Answered
  BY <1>1 DEF IInv, Conversation, Quiet
<1>4. Head(toDown) = PieceOf(job, begin, b) /\ Tail(toDown) = <<>>
  <2>1. toDown = <<PieceOf(job, begin, b)>>
    BY <1>3 DEF Answered
  <2> HIDE DEF b
  <2> QED BY <2>1, ShortSequences
<1>5. /\ b \in Seq(Byte) /\ Len(b) = BlockSize
      /\ disk = Original => b = Block(Asked)
  BY <1>3 DEF Answered
<1> HIDE DEF b
<1>6. /\ BlockSize \in Nat /\ 1 <= BlockSize
      /\ begin \in Nat /\ begin + BlockSize <= PieceSize(job)
      /\ Offset(Asked) = PieceLength * job + begin /\ Asked.length = BlockSize
      /\ PieceLength * job + begin + BlockSize <= FileLength
  BY <1>2, RequestIsInFile
<1>7. /\ job \in Piece /\ PieceSize(job) \in Nat /\ PieceLength * job \in Nat
      /\ PieceSize(job) <= PieceLength /\ PieceLength \in Nat
  BY <1>2, PieceIsInFile DEF InTurn
<1>8. Expected(Head(toDown)) /\ Head(toDown).block = b
  BY <1>2, <1>4, <1>6 DEF Expected, PieceOf
<1>9. /\ piece' = Spliced(b) /\ begin' = begin + BlockSize
      /\ down' = IF begin' # PieceSize(job) THEN "size"
                 ELSE IF HashMatches(job, piece') THEN "ready" ELSE "mismatch"
      /\ toDown' = <<>>
      /\ UNCHANGED <<job, up, timeouts, toUp, link, disk>>
  BY <1>4, <1>8 DEF ReceiveBlock, Receive, upVars
<1>10. piece' = piece \o b /\ piece' \in Seq(Byte) /\ Len(piece') = begin'
  BY <1>2, <1>5, <1>9, SpliceAppends
<1>11. ASSUME disk = Original
       PROVE  piece' = SubSeq(Original, PieceLength * job + 1, PieceLength * job + begin')
  <2> DEFINE f == PieceLength * job
  <2>1. b = SubSeq(Original, f + begin + 1, f + begin + BlockSize)
    BY <1>5, <1>6, <1>11 DEF Block
  <2>2. /\ f \in Nat /\ begin \in Nat /\ BlockSize \in Nat
        /\ f + begin + BlockSize <= FileLength
        /\ piece = SubSeq(Original, f + 1, f + begin)
        /\ f + begin' = f + begin + BlockSize
    BY <1>2, <1>6, <1>7, <1>9, <1>11
  <2> HIDE DEF f
  <2>3. piece \o b = SubSeq(Original, f + 1, f + begin + BlockSize)
    BY <2>1, <2>2, NextBytes
  <2>4. piece' = SubSeq(Original, f + 1, f + begin')
    BY <1>10, <2>2, <2>3
  <2> QED BY <2>4 DEF f
<1>12. TypeOK'
  <2>1. <<>> \in Seq(DownItem) /\ begin' \in 0 .. PieceLength
    BY <1>6, <1>7, <1>9, EmptySeq
  <2> QED BY <1>9, <1>10, <2>1 DEF IInv, TypeOK, DownItem, Fetching
<1>13. Conversation' /\ Unread' /\ NoUnexpectedMessage'
  BY <1>3, <1>9 DEF Conversation, Unread, NoUnexpectedMessage, Looping, Quiet
<1>14. ServesTheFile'
  <2>1. ASSUME disk = Original, begin' = PieceSize(job) PROVE HashMatches(job, piece')
    BY <1>7, <1>11, <2>1 DEF HashMatches, PieceBytes
  <2> QED BY <1>3, <1>9, <2>1 DEF ServesTheFile, Looping
<1>15. Progress'
  <2>1. begin' # PieceSize(job) => InTurn'
    BY <1>6, <1>7, <1>9 DEF InTurn, PieceSize
  <2>2. HashMatches(job, piece') => piece' = PieceBytes[job]
    BY DEF HashMatches
  <2> QED BY <1>9, <1>10, <1>11, <2>1, <2>2 DEF Progress, Connecting, Fetching
<1>16. Patience'
  BY <1>9 DEF IInv, Patience
<1> QED BY <1>12, <1>13, <1>14, <1>15, <1>16 DEF IInv

LEMMA DownFailsOK ==
  ASSUME IInv, DownError \/ DownHandshakeTimeout PROVE IInv'
<1>1. /\ down' = "failed"
      /\ UNCHANGED <<job, begin, piece, up, timeouts, toUp, toDown, link, disk>>
  BY DEF DownError, DownHandshakeTimeout, upVars
<1>2. TypeOK' /\ Patience' /\ Progress'
  BY <1>1 DEF IInv, TypeOK, Patience, Progress, Connecting, Fetching
<1>3. Asked' = Asked /\ (InTurn <=> InTurn')
  BY <1>1, SameRequest
<1>4. Conversation' /\ Unread' /\ NoUnexpectedMessage' /\ ServesTheFile'
  BY <1>1, <1>3 DEF IInv, Conversation, Unread, NoUnexpectedMessage, ServesTheFile
<1> QED BY <1>2, <1>4 DEF IInv

-----------------------------------------------------------------------------
(* Each step of the uploader keeps it.  It leaves the downloader and the   *)
(* disk alone: what it says of them stays.                                 *)
LEMMA UploaderKeepsProgress ==
  ASSUME IInv, UNCHANGED <<downVars, link, disk>>
  PROVE  /\ Progress' /\ NoUnexpectedMessage'
         /\ UNCHANGED <<down, job, begin, piece, link, disk>>
         /\ Asked' = Asked /\ (InTurn <=> InTurn')
BY SameProgress, SameRequest DEF IInv, downVars, NoUnexpectedMessage

LEMMA AcceptOK == ASSUME IInv, Accept PROVE IInv'
<1>1. /\ up = "accept" /\ down # "connect" /\ up' = "handshake"
      /\ toDown' = Append(toDown, Handshake)
      /\ UNCHANGED <<downVars, timeouts, toUp, link, disk>>
  BY DEF Accept
<1>2. /\ Progress' /\ NoUnexpectedMessage'
      /\ UNCHANGED <<down, job, begin, piece, link, disk>>
      /\ Asked' = Asked /\ (InTurn <=> InTurn')
  BY <1>1, UploaderKeepsProgress
<1>3. TypeOK'
  <2>1. toDown' \in Seq(DownItem)
    BY <1>1, AppendProperties DEF IInv, TypeOK, DownItem
  <2> QED BY <1>1, <1>2, <2>1 DEF IInv, TypeOK, DownItem
<1>4. Conversation'
  <2>1. down = "handshake" => toUp = <<Handshake>> /\ toDown' = <<Handshake>>
    BY <1>1, ShortSequences DEF IInv, Conversation
  <2> QED BY <1>1, <1>2, <2>1 DEF IInv, Conversation, Looping
<1>5. Unread' /\ Patience' /\ ServesTheFile'
  BY <1>1, <1>2 DEF IInv, Unread, Patience, ServesTheFile
<1> QED BY <1>2, <1>3, <1>4, <1>5 DEF IInv

LEMMA UpHandshakeOK == ASSUME IInv, UpHandshake PROVE IInv'
<1>1. /\ up = "handshake" /\ toUp # <<>> /\ up' = "interested"
      /\ toUp' = Tail(toUp) /\ toDown' = Append(toDown, Bitfield)
      /\ UNCHANGED <<downVars, timeouts, link, disk>>
  BY DEF UpHandshake
<1>2. /\ Progress' /\ NoUnexpectedMessage'
      /\ UNCHANGED <<down, job, begin, piece, link, disk>>
      /\ Asked' = Asked /\ (InTurn <=> InTurn')
  BY <1>1, UploaderKeepsProgress
<1>3. toUp = <<Handshake>> /\ toUp' = <<>>
  BY <1>1, ShortSequences DEF IInv, Unread
<1>4. TypeOK'
  <2>1. toDown' \in Seq(DownItem) /\ <<>> \in Seq(UpItem)
    BY <1>1, AppendProperties, EmptySeq DEF IInv, TypeOK, DownItem
  <2> QED BY <1>1, <1>2, <1>3, <2>1 DEF IInv, TypeOK, DownItem, UpItem
<1>5. Conversation'
  <2>1. /\ down = "handshake" => toDown' = <<Handshake, Bitfield>>
        /\ down = "bitfield" => toDown' = <<Bitfield>>
    BY <1>1, ShortSequences DEF IInv, Conversation
  <2> QED BY <1>1, <1>2, <1>3, <2>1, ShortSequences DEF IInv, Conversation, Looping, Quiet
<1>6. Unread' /\ Patience' /\ ServesTheFile'
  BY <1>1, <1>2, <1>3 DEF IInv, Unread, Patience, ServesTheFile
<1> QED BY <1>2, <1>4, <1>5, <1>6 DEF IInv

LEMMA UpInterestedOK == ASSUME IInv, UpInterested PROVE IInv'
<1>1. up = "interested" /\ Len(toUp) >= 2
  BY DEF UpInterested
<1>2. toUp = <<Size, Interested>> /\ Tail(toUp) = <<Interested>>
  <2>1. Tail(<<Size, Interested>>) = <<Interested>> /\ ~(Len(<<>>) >= 2)
    BY ShortSequences
  <2> QED BY <1>1, <2>1 DEF IInv, Unread
<1>3. /\ toUp' = <<>> /\ up' = "size" /\ toDown' = Append(toDown, Unchoke)
      /\ UNCHANGED <<downVars, timeouts, link, disk>>
  BY <1>2, ShortSequences DEF UpInterested
<1>4. /\ Progress' /\ NoUnexpectedMessage'
      /\ UNCHANGED <<down, job, begin, piece, link, disk>>
      /\ Asked' = Asked /\ (InTurn <=> InTurn')
  BY <1>3, UploaderKeepsProgress
<1>5. TypeOK'
  <2>1. toDown' \in Seq(DownItem) /\ <<>> \in Seq(UpItem)
    BY <1>3, AppendProperties, EmptySeq DEF IInv, TypeOK, DownItem
  <2> QED BY <1>3, <1>4, <2>1 DEF IInv, TypeOK, DownItem, UpItem
<1>6. Conversation'
  <2>1. down = "unchoke" => toDown' = <<Unchoke>>
    BY <1>1, <1>2, <1>3, ShortSequences DEF IInv, Conversation
  <2>2. down \notin {"connect", "handshake", "bitfield", "ready", "size", "body", "receive"}
    BY <1>1, <1>2, ShortSequences DEF IInv, Conversation, Looping, Quiet
  <2> QED BY <1>3, <1>4, <2>1, <2>2 DEF Conversation, Looping
<1>7. Unread' /\ Patience' /\ ServesTheFile'
  BY <1>1, <1>3, <1>4 DEF IInv, Unread, Patience, ServesTheFile
<1> QED BY <1>4, <1>5, <1>6, <1>7 DEF IInv

LEMMA ReadSizeOK == ASSUME IInv, ReadSize PROVE IInv'
<1>1. /\ up = "size" /\ toUp # <<>> /\ Head(toUp) = Size /\ up' = "body"
      /\ toUp' = Tail(toUp)
      /\ UNCHANGED <<downVars, timeouts, toDown, link, disk>>
  BY DEF ReadSize, Incoming
<1>2. /\ Progress' /\ NoUnexpectedMessage'
      /\ UNCHANGED <<down, job, begin, piece, link, disk>>
      /\ Asked' = Asked /\ (InTurn <=> InTurn')
  BY <1>1, UploaderKeepsProgress
<1>3. TypeOK'
  <2>1. toUp' \in Seq(UpItem)
    BY <1>1, TailTyped DEF IInv, TypeOK, UpItem
  <2> QED BY <1>1, <1>2, <2>1 DEF IInv, TypeOK, UpItem
<1>4. Size # Asked
  BY DEF Size, Asked, RequestOf
<1>5. /\ Tail(<<Size>>) = <<>> /\ Tail(<<Size, Asked>>) = <<Asked>>
      /\ Head(<<Asked>>) = Asked /\ Tail(<<Asked>>) = <<>>
  BY ShortSequences
<1>6. toUp = <<Size>> \/ (InTurn /\ toUp = <<Size, Asked>>)
  BY <1>1, <1>4, <1>5 DEF IInv, Unread
<1>7. Unread' /\ Patience' /\ ServesTheFile'
  BY <1>1, <1>2, <1>5, <1>6 DEF IInv, Unread, Patience, ServesTheFile
<1>8. Conversation'
  <2>1. toUp # <<>> /\ toUp # <<Asked>>
    BY <1>1, <1>4, <1>5
  <2>2. down \notin {"connect", "handshake", "bitfield", "unchoke", "ready", "size"}
    BY <1>1, <2>1 DEF IInv, Conversation, Looping, Quiet
  <2>3. down = "body" => toUp' = <<>> /\ toDown = <<>>
    BY <1>1, <1>5, <2>1 DEF IInv, Conversation, Quiet
  <2>4. down = "receive" => toUp' = <<Asked>> /\ toDown = <<>>
    BY <1>1, <1>5, <2>1 DEF IInv, Conversation, Quiet
  <2> QED BY <1>1, <1>2, <2>2, <2>3, <2>4 DEF Conversation, Quiet
<1> QED BY <1>2, <1>3, <1>7, <1>8 DEF IInv

LEMMA HandleRequestOK == ASSUME IInv, HandleRequest PROVE IInv'
<1>1. up = "body" /\ toUp # <<>> /\ toUp' = Tail(toUp)
  BY DEF HandleRequest, Incoming
<1>2. InTurn /\ toUp = <<Asked>> /\ toUp' = <<>> /\ Head(toUp) = Asked
  BY <1>1, ShortSequences DEF IInv, Unread
<1>3. /\ timeouts' = 0
      /\ IF Readable(Asked)
         THEN /\ up' = "size"
              /\ toDown' = Append(toDown, PieceOf(job, begin, Block(Asked)))
         ELSE up' = "refused" /\ UNCHANGED toDown
      /\ UNCHANGED <<downVars, link, disk>>
  <2>1. Asked.index = job /\ Asked.begin = begin
    BY DEF Asked, RequestOf
  <2> QED BY <1>2, <2>1 DEF HandleRequest
<1>4. /\ Progress' /\ NoUnexpectedMessage'
      /\ UNCHANGED <<down, job, begin, piece, link, disk>>
      /\ Asked' = Asked /\ (InTurn <=> InTurn')
  BY <1>3, UploaderKeepsProgress
<1>5. TypeOK'
  <2>1. toDown' \in Seq(DownItem)
    <3>1. CASE Readable(Asked)
      <4>1. PieceOf(job, begin, Block(Asked)) \in DownItem
        BY <1>2, <3>1, BlockIsRead DEF IInv, TypeOK, DownItem
      <4>2. toDown \in Seq(DownItem)
        BY DEF IInv, TypeOK, DownItem
      <4> QED BY <1>3, <3>1, <4>1, <4>2, AppendProperties
    <3>2. CASE ~Readable(Asked)
      BY <1>3, <3>2 DEF IInv, TypeOK, DownItem
    <3> QED BY <3>1, <3>2
  <2>2. <<>> \in Seq(UpItem) /\ 0 \in 0 .. MaxConsecutiveTimeouts
    BY EmptySeq, TimeoutsAssumption
  <2> QED BY <1>2, <1>3, <1>4, <2>1, <2>2 DEF IInv, TypeOK, DownItem, UpItem
<1>6. Unread' /\ Patience'
  BY <1>2, <1>3, <1>4, TimeoutsAssumption DEF Unread, Patience
<1>7. ServesTheFile'
  <2>1. disk = Original => Readable(Asked)
    BY <1>2, RequestIsInFile, OriginalTyped DEF Readable
  <2> QED BY <1>3, <1>4, <2>1 DEF IInv, ServesTheFile
<1>8. down \notin {"connect", "handshake", "bitfield", "unchoke", "ready", "size", "body"}
  BY <1>1, <1>2 DEF IInv, Conversation, Looping, Quiet
<1>9. down = "receive" => toDown = <<>>
  BY <1>1, <1>2 DEF IInv, Conversation, Looping, Quiet
<1>10. Conversation'
  <2>1. ASSUME Readable(Asked), down = "receive" PROVE Looping' /\ Answered'
    <3> DEFINE b == Block(Asked)
               a == PieceOf(job, begin, b)
    <3>1. b \in Seq(Byte) /\ Len(b) = BlockSize /\ a.block = b
      BY <1>2, <2>1, BlockIsRead DEF IInv, TypeOK, PieceOf
    <3>2. toDown' = <<a>> /\ toDown'[1] = a
      BY <1>3, <1>9, <2>1, ShortSequences
    <3>3. BlockSize' = BlockSize /\ Block(Asked)' = b
      BY <1>4, SameRequest DEF Block, Offset
    <3> HIDE DEF b
    <3>4. toDown'[1].block = b /\ PieceOf(job, begin, toDown[1].block)' = a
      BY <1>4, <3>1, <3>2 DEF PieceOf
    <3> HIDE DEF a
    <3>5. Answered'
      BY <1>4, <3>1, <3>2, <3>3, <3>4, <2>1 DEF Answered
    <3> QED BY <1>3, <2>1, <3>5 DEF Looping
  <2> QED BY <1>2, <1>3, <1>4, <1>8, <1>9, <2>1 DEF Conversation, Looping, Quiet
<1> QED BY <1>4, <1>5, <1>6, <1>7, <1>10 DEF IInv

LEMMA MisreadOK ==
  ASSUME IInv, MisreadIgnored \/ MisreadStalled \/ MisreadPanic PROVE IInv'
<1>1. /\ up = "size" /\ toUp # <<>> /\ Head(toUp) # Size /\ toUp' = Tail(toUp)
      /\ up' \in {"body", "panicked"} /\ timeouts' \in {0, timeouts}
      /\ UNCHANGED <<downVars, toDown, link, disk>>
  BY DEF MisreadIgnored, MisreadStalled, MisreadPanic, Misread, Incoming
<1>2. /\ Progress' /\ NoUnexpectedMessage'
      /\ UNCHANGED <<down, job, begin, piece, link, disk>>
      /\ Asked' = Asked /\ (InTurn <=> InTurn')
  BY <1>1, UploaderKeepsProgress
<1>3. /\ Head(<<Size>>) = Size /\ Head(<<Size, Asked>>) = Size /\ Tail(<<Asked>>) = <<>>
      /\ Head(<<Size, Interested>>) = Size
  BY ShortSequences
<1>4. InTurn /\ toUp = <<Asked>> /\ toUp' = <<>>
  BY <1>1, <1>3 DEF IInv, Unread
<1>5. TypeOK'
  <2>1. <<>> \in Seq(UpItem) /\ timeouts' \in 0 .. MaxConsecutiveTimeouts
    BY <1>1, EmptySeq, TimeoutsAssumption DEF IInv, TypeOK
  <2> QED BY <1>1, <1>2, <1>4, <2>1 DEF IInv, TypeOK, UpItem
<1>6. Unread' /\ Patience' /\ ServesTheFile'
  BY <1>1, <1>2, <1>4, TimeoutsAssumption DEF IInv, TypeOK, Unread, Patience, ServesTheFile
<1>7. Conversation'
  <2>1. toUp # <<>> /\ toUp # <<Size>>
    BY <1>1, <1>3
  <2>2. /\ down \notin {"connect", "handshake", "bitfield", "unchoke", "ready", "size", "body"}
        /\ down = "receive" => toDown = <<>>
    BY <1>1, <1>3, <2>1 DEF IInv, Conversation, Looping, Quiet
  <2> QED BY <1>1, <1>2, <1>4, <2>2 DEF Conversation, Looping, Quiet
<1> QED BY <1>2, <1>5, <1>6, <1>7 DEF IInv

LEMMA UpTimeoutOK == ASSUME IInv, UpTimeout PROVE IInv'
<1>1. /\ up \in {"size", "body"} /\ up' \in {"size", "idle"}
      /\ timeouts' = timeouts + 1
      /\ up' = IF timeouts' >= MaxConsecutiveTimeouts THEN "idle" ELSE "size"
      /\ UNCHANGED <<downVars, toUp, toDown, link, disk>>
  BY DEF UpTimeout
<1>2. /\ Progress' /\ NoUnexpectedMessage'
      /\ UNCHANGED <<down, job, begin, piece, link, disk>>
      /\ Asked' = Asked /\ (InTurn <=> InTurn')
  BY <1>1, UploaderKeepsProgress
<1>3. timeouts \in 0 .. MaxConsecutiveTimeouts - 1
  BY <1>1, TimeoutsAssumption DEF IInv, TypeOK, Patience
<1>4. TypeOK' /\ Patience'
  BY <1>1, <1>2, <1>3, TimeoutsAssumption DEF IInv, TypeOK, Patience
<1>5. Answered' <=> Answered
  BY <1>1, <1>2, SameAnswer
<1>6. Conversation' /\ Unread' /\ ServesTheFile'
  BY <1>1, <1>2, <1>5 DEF IInv, Conversation, Unread, ServesTheFile, Looping, Quiet
<1> QED BY <1>2, <1>4, <1>6 DEF IInv

LEMMA UpClosesOK == ASSUME IInv, UpHandshakeTimeout \/ UpError PROVE IInv'
<1>1. /\ up \in {"handshake", "interested", "size", "body"} /\ up' = "closed"
      /\ UNCHANGED <<downVars, timeouts, toUp, toDown, link, disk>>
  BY DEF UpHandshakeTimeout, UpError
<1>2. /\ Progress' /\ NoUnexpectedMessage'
      /\ UNCHANGED <<down, job, begin, piece, link, disk>>
      /\ Asked' = Asked /\ (InTurn <=> InTurn')
  BY <1>1, UploaderKeepsProgress
<1>3. TypeOK' /\ Patience'
  BY <1>1, <1>2 DEF IInv, TypeOK, Patience
<1>4. Answered' <=> Answered
  BY <1>1, <1>2, SameAnswer
<1>5. Conversation' /\ Unread' /\ ServesTheFile'
  BY <1>1, <1>2, <1>4 DEF IInv, Conversation, Unread, ServesTheFile, Looping, Quiet
<1> QED BY <1>2, <1>3, <1>5 DEF IInv

-----------------------------------------------------------------------------
(* The network and the disk may do what they like.  An edit is the only    *)
(* step that changes the disk, and nothing is claimed of an edited file.   *)
LEMMA BreakLinkOK == ASSUME IInv, BreakLink PROVE IInv'
<1>1. /\ link' \in {"up", "reset", "silent"}
      /\ UNCHANGED <<downVars, up, timeouts, toUp, toDown, disk>>
  BY DEF BreakLink, upVars
<1>2. UNCHANGED <<down, job, begin, piece>> /\ Progress' /\ NoUnexpectedMessage'
  BY <1>1, SameProgress DEF IInv, downVars, NoUnexpectedMessage
<1>3. Asked' = Asked /\ (InTurn <=> InTurn') /\ (Answered' <=> Answered)
  BY <1>1, <1>2, SameRequest, SameAnswer
<1>4. TypeOK'
  BY <1>1, <1>2 DEF IInv, TypeOK
<1>5. Conversation' /\ Unread' /\ Patience' /\ ServesTheFile'
  BY <1>1, <1>2, <1>3
     DEF IInv, Conversation, Unread, Patience, ServesTheFile, Looping, Quiet
<1> QED BY <1>2, <1>4, <1>5 DEF IInv

LEMMA EditFileOK == ASSUME IInv, EditFile PROVE IInv'
<1>1. disk = Original /\ UNCHANGED <<down, job, begin, piece, up, timeouts, toUp, toDown, link>>
  BY DEF EditFile, downVars, upVars
<1>2. Progress' /\ NoUnexpectedMessage' /\ Asked' = Asked /\ (InTurn <=> InTurn')
      /\ BlockSize' = BlockSize
  BY <1>1, SameProgress, SameRequest DEF IInv, NoUnexpectedMessage
<1>3. disk' \in Seq(Byte)
  <2>1. disk \in Seq(Byte) /\ Len(disk) = FileLength /\ FileLength \in Nat
    BY <1>1, OriginalTyped, LengthAssumption
  <2>2. ASSUME NEW k \in 1 .. FileLength PROVE [disk EXCEPT ![k] = Corrupt] \in Seq(Byte)
    <3>1. Corrupt \in Byte /\ k \in 1 .. Len(disk)
      BY <2>1 DEF Byte
    <3> QED BY <2>1, <3>1, ExceptSeq
  <2>3. ASSUME NEW n \in 0 .. FileLength - 1 PROVE SubSeq(disk, 1, n) \in Seq(Byte)
    <3>1. \A k \in 1 .. n : disk[k] \in Byte
      BY <2>1, ElementOfSeq
    <3> QED BY <2>1, <3>1, SubSeqProperties
  <2> QED BY <2>2, <2>3 DEF EditFile
<1>4. TypeOK'
  BY <1>1, <1>3 DEF IInv, TypeOK
<1>5. Answered => Answered'
  <2>1. ASSUME Answered, disk' = Original PROVE Answered'
    BY <1>1, <2>1, SameAnswer
  <2>2. ASSUME Answered, disk' # Original PROVE Answered'
    BY <1>1, <1>2, <2>2 DEF Answered, PieceOf
  <2> QED BY <2>1, <2>2
<1>6. Conversation' /\ Unread' /\ Patience' /\ ServesTheFile'
  BY <1>1, <1>2, <1>5
     DEF IInv, Conversation, Unread, Patience, ServesTheFile, Looping, Quiet
<1> QED BY <1>2, <1>4, <1>6 DEF IInv

LEMMA StutterOK == ASSUME IInv, UNCHANGED vars PROVE IInv'
<1>1. UNCHANGED <<down, job, begin, piece, up, timeouts, toUp, toDown, link, disk>>
  BY DEF vars
<1>2. /\ Progress' /\ Asked' = Asked /\ (InTurn <=> InTurn') /\ (Answered' <=> Answered)
  BY <1>1, SameProgress, SameRequest, SameAnswer DEF IInv
<1>3. TypeOK' /\ Patience' /\ NoUnexpectedMessage' /\ ServesTheFile'
  BY <1>1 DEF IInv, TypeOK, Patience, NoUnexpectedMessage, ServesTheFile
<1>4. Conversation' /\ Unread'
  BY <1>1, <1>2 DEF IInv, Conversation, Unread, Looping, Quiet
<1> QED BY <1>2, <1>3, <1>4 DEF IInv

LEMMA NextIInv == IInv /\ [Next]_vars => IInv'
<1> SUFFICES ASSUME IInv, [Next]_vars PROVE IInv'
  OBVIOUS
<1>1. CASE Downloader
  BY <1>1, ConnectOK, DownHandshakeOK, DownBitfieldOK, DownUnchokeOK, SendSizeOK,
     SendBodyOK, ReceiveBlockOK, DownFailsOK DEF Downloader
<1>2. CASE \E i \in Piece : TakeRequest(i)
  BY <1>2, TakeRequestOK
<1>3. CASE EndStream
  BY <1>3, EndStreamOK
<1>4. CASE Uploader
  BY <1>4, AcceptOK, UpHandshakeOK, UpInterestedOK, ReadSizeOK, HandleRequestOK,
     MisreadOK, UpTimeoutOK, UpClosesOK DEF Uploader
<1>5. CASE BreakLink
  BY <1>5, BreakLinkOK
<1>6. CASE EditFile
  BY <1>6, EditFileOK
<1>7. CASE UNCHANGED vars
  BY <1>7, StutterOK
<1> QED BY <1>1, <1>2, <1>3, <1>4, <1>5, <1>6, <1>7 DEF Next

THEOREM Invariance == Spec => []IInv
BY InitIInv, NextIInv, PTL DEF Spec

(* Every variable keeps its type: in particular begin_offset never passes  *)
(* the end of a piece, and the count of timeouts never its maximum.        *)
THEOREM TypeCorrect == Spec => []TypeOK
<1>1. IInv => TypeOK
  BY DEF IInv
<1> QED BY <1>1, Invariance, PTL

(* One request at a time: the downloader never takes up a piece or starts  *)
(* a request with anything of the last one still on the way, and a request *)
(* and an answer are never on the way together, whatever the uploader's    *)
(* timeouts cut off and its loop misread.                                  *)
THEOREM OneRequestAtATime == Spec => []LockStep
<1>1. IInv => LockStep
  <2> SUFFICES ASSUME IInv PROVE LockStep
    OBVIOUS
  <2>1. /\ Len(<<>>) = 0 /\ Len(<<Size>>) = 1 /\ Len(<<Asked>>) = 1 /\ Len(<<Size, Asked>>) = 2
    BY ShortSequences
  <2>2. Answered => Len(toDown) = 1
    <3> DEFINE a == PieceOf(job, begin, toDown[1].block)
    <3>1. Answered => toDown = <<a>>
      BY DEF Answered
    <3> HIDE DEF a
    <3> QED BY <3>1, ShortSequences
  <2>3. down \in {"ready", "size"} => toUp = <<>> /\ toDown = <<>>
    BY DEF IInv, Conversation, Quiet
  <2>4. ASSUME down \in {"body", "receive"}
        PROVE  \/ Len(toUp) \in {0, 1, 2} /\ Len(toDown) = 0
               \/ Len(toUp) = 0 /\ Len(toDown) = 1
    <3>1. \/ toUp \in {<<>>, <<Size>>, <<Asked>>, <<Size, Asked>>} /\ toDown = <<>>
          \/ toUp = <<>> /\ Answered
      BY <2>4 DEF IInv, Conversation, Quiet
    <3>2. toUp \in {<<>>, <<Size>>, <<Asked>>, <<Size, Asked>>} => Len(toUp) \in {0, 1, 2}
      BY <2>1
    <3> QED BY <2>1, <2>2, <3>1, <3>2
  <2>5. ASSUME down \in {"body", "receive"} PROVE Len(toUp) + 2 * Len(toDown) <= 2
    <3> DEFINE m == Len(toUp)
               n == Len(toDown)
    <3>1. (m \in {0, 1, 2} /\ n = 0) \/ (m = 0 /\ n = 1)
      BY <2>4, <2>5
    <3> HIDE DEF m, n
    <3>2. m + 2 * n <= 2
      BY <3>1
    <3> QED BY <3>2 DEF m, n
  <2> QED BY <2>3, <2>5 DEF LockStep
<1> QED BY <1>1, Invariance, PTL

(* The downloader's bails on a message that is not the expected one and    *)
(* its assertions on the index and the offset of a block are never reached.*)
THEOREM NoSurprise == Spec => []NoUnexpectedMessage
<1>1. IInv => NoUnexpectedMessage
  BY DEF IInv
<1> QED BY <1>1, Invariance, PTL

(* The blocks of download_piece tile each piece within the file and        *)
(* read_piece finds them there: no hash differs and no request is refused  *)
(* while the file is the one the torrent was made of.                      *)
THEOREM FileServed == Spec => []ServesTheFile
<1>1. IInv => ServesTheFile
  BY DEF IInv
<1> QED BY <1>1, Invariance, PTL

-----------------------------------------------------------------------------
(* The connection implements StreamTask.                                   *)
LEMMA InitIsTaskInit == Init => Task!Init
BY DEF Init, Task!Init, Connecting

LEMMA StepIsTaskStep ==
  ASSUME IInv, [Next]_vars PROVE [Task!Next]_(Task!vars)
<1> USE DEF Task!vars, Connecting, Fetching
<1>1. ASSUME Connect \/ DownHandshake PROVE UNCHANGED Task!vars
  BY <1>1 DEF Connect, DownHandshake
<1>2. ASSUME DownBitfield PROVE UNCHANGED Task!vars
  <2>1. down' = "unchoke"
    BY <1>2, DownBitfieldOK DEF DownBitfield, IInv, NoUnexpectedMessage
  <2> QED BY <1>2, <2>1 DEF DownBitfield
<1>3. ASSUME DownUnchoke PROVE Task!Connected
  <2>1. down' = "ready" /\ job = NoPiece
    BY <1>3, DownUnchokeOK DEF DownUnchoke, IInv, NoUnexpectedMessage, Progress
  <2> QED BY <1>3, <2>1 DEF DownUnchoke, Task!Connected
<1>4. ASSUME NEW i \in Piece, TakeRequest(i) PROVE Task!Next
  <2>1. Task!Take(i)
    BY <1>4 DEF TakeRequest, Task!Take
  <2>2. i \in DOMAIN PieceBytes
    BY DEF PieceBytes
  <2> QED BY <2>1, <2>2 DEF Task!Next
<1>5. ASSUME EndStream PROVE Task!End
  BY <1>5 DEF EndStream, Task!End
<1>6. ASSUME SendSize \/ SendBody PROVE UNCHANGED Task!vars
  BY <1>6 DEF SendSize, SendBody
<1>7. ASSUME ReceiveBlock PROVE Task!Deliver \/ Task!Fail \/ UNCHANGED Task!vars
  <2>1. down = "receive" /\ UNCHANGED job /\ job # NoPiece
    BY <1>7, NoPieceAssumption DEF ReceiveBlock, IInv, Progress, InTurn
  <2>2. \/ down' \in {"size", "mismatch", "unexpected"}
        \/ down' = "ready" /\ piece' = PieceBytes[job]
    BY <1>7 DEF ReceiveBlock, HashMatches
  <2> QED BY <2>1, <2>2 DEF Task!Deliver, Task!Fail
<1>8. ASSUME DownError \/ DownHandshakeTimeout PROVE Task!Fail
  BY <1>8 DEF DownError, DownHandshakeTimeout, Task!Fail
<1>9. ASSUME Uploader \/ BreakLink \/ EditFile \/ UNCHANGED vars PROVE UNCHANGED Task!vars
  <2>1. UNCHANGED <<down, job, begin, piece>>
    BY <1>9 DEF Uploader, BreakLink, EditFile, vars, downVars, Accept, UpHandshake,
       UpInterested, ReadSize, HandleRequest, MisreadIgnored, MisreadStalled,
       MisreadPanic, UpTimeout, UpHandshakeTimeout, UpError
  <2> QED BY <2>1
<1> QED BY <1>1, <1>2, <1>3, <1>4, <1>5, <1>6, <1>7, <1>8, <1>9
        DEF Next, Downloader, Task!Next

(* Whatever happens to the network, to the file and to the framing, what   *)
(* the stream returns for a piece is the bytes of that piece, and it takes *)
(* the next request only after that.                                       *)
THEOREM IsAStreamTask == Spec => TaskSpec
BY InitIsTaskInit, StepIsTaskStep, Invariance, PTL DEF Spec, TaskSpec, Task!Spec
=============================================================================
