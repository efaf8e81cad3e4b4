----------------------------- MODULE PeerSession -----------------------------
(***************************************************************************)
(* One connection between a downloader (init_peer and download_piece of    *)
(* bt/src/peer_download.rs) and this project's uploader (handle_peer of    *)
(* bt/src/peer_upload.rs), speaking the messages of bt/src/torrent.rs.     *)
(*                                                                         *)
(* A message is written in two writes, its size and its body.  Only the    *)
(* uploader's loop may give up between the two reads, when its timeout     *)
(* fires, so only requests are sent as two items; what was read of a       *)
(* message is then lost, and the body is taken for the size of the next.   *)
(*                                                                         *)
(* A byte is abstracted to its offset in the file the torrent was made of. *)
(***************************************************************************)
EXTENDS Integers, Sequences, Functions

CONSTANTS
  FileLength,   \* bytes of the file of the torrent
  PieceLength,
  BlockMaxSize, \* BLOCK_MAX_SIZE
  MaxConsecutiveTimeouts,
  Corrupt,      \* a byte that is not that of the file
  NoPiece       \* no request was taken yet

ASSUME LengthAssumption == FileLength \in Nat
ASSUME PieceLengthAssumption == PieceLength \in Nat \ {0}
ASSUME BlockAssumption == BlockMaxSize \in Nat \ {0}
ASSUME TimeoutsAssumption == MaxConsecutiveTimeouts \in Nat \ {0}

PieceCount == (FileLength + PieceLength - 1) \div PieceLength
Piece == 0 .. PieceCount - 1

ASSUME NoPieceAssumption == NoPiece \notin Piece

Byte == 0 .. FileLength - 1 \cup {Corrupt}
Original == [k \in 1 .. FileLength |-> k - 1]

Least(a, b) == IF a < b THEN a ELSE b

(* PieceRequest::new: every piece is full but the last one.                *)
PieceSize(i) == Least(PieceLength, FileLength - PieceLength * i)
PieceBytes == [i \in Piece |-> SubSeq(Original, PieceLength * i + 1,
                                      PieceLength * i + PieceSize(i))]

VARIABLES
  down,      \* where the downloader is
  job,       \* the index of the piece request it took last
  begin,     \* begin_offset, the bytes of that piece asked for so far
  piece,     \* the bytes of that piece received so far
  up,        \* where the uploader is
  timeouts,  \* consecutive_timeouts
  toUp,      \* what the uploader has not read yet
  toDown,    \* what the downloader has not read yet
  link,      \* the network: "up", "reset" or "silent"
  disk       \* the file the uploader serves

vars == <<down, job, begin, piece, up, timeouts, toUp, toDown, link, disk>>
downVars == <<down, job, begin, piece>>
upVars == <<up, timeouts>>

Handshake == [type |-> "handshake"]
Bitfield == [type |-> "bitfield"]
Interested == [type |-> "interested"]
Unchoke == [type |-> "unchoke"]
Size == [type |-> "size"]

\* Mutant: the last block of a piece is asked for in full.
MBlockSize == BlockMaxSize

BlockSize == Least(BlockMaxSize, PieceSize(job) - begin)
RequestOf(i, from, length) ==
  [type |-> "request", index |-> i, begin |-> from, length |-> length]
PieceOf(i, from, block) ==
  [type |-> "piece", index |-> i, begin |-> from, block |-> block]

DownGone == down \in {"failed", "mismatch", "unexpected", "ended"}
UpGone == up \in {"closed", "idle", "refused", "panicked"}

Init ==
  /\ down = "connect" /\ job = NoPiece /\ begin = 0 /\ piece = <<>>
  /\ up = "accept" /\ timeouts = 0
  /\ toUp = <<>> /\ toDown = <<>>
  /\ link = "up"
  /\ disk = Original
-----------------------------------------------------------------------------
(* The downloader: init_peer.                                              *)

Connect ==
  /\ down = "connect" /\ link = "up"
  /\ down' = "handshake"
  /\ toUp' = Append(toUp, Handshake)
  /\ UNCHANGED <<job, begin, piece, upVars, toDown, link, disk>>

Receive == link = "up" /\ toDown # <<>> /\ toDown' = Tail(toDown)

DownHandshake ==
  /\ down = "handshake" /\ Receive
  /\ down' = "bitfield"
  /\ UNCHANGED <<job, begin, piece, upVars, toUp, link, disk>>

DownBitfield ==
  /\ down = "bitfield" /\ Receive
  /\ IF Head(toDown) = Bitfield
     THEN down' = "unchoke" /\ toUp' = toUp \o <<Size, Interested>>
     ELSE down' = "unexpected" /\ UNCHANGED toUp
  /\ UNCHANGED <<job, begin, piece, upVars, link, disk>>

DownUnchoke ==
  /\ down = "unchoke" /\ Receive
  /\ down' = IF Head(toDown) = Unchoke THEN "ready" ELSE "unexpected"
  /\ UNCHANGED <<job, begin, piece, upVars, toUp, link, disk>>
-----------------------------------------------------------------------------
(* The downloader: start_stream_downloader and download_piece.             *)

TakeRequest(i) ==
  /\ down = "ready"
  /\ down' = "size" /\ job' = i /\ begin' = 0 /\ piece' = <<>>
  /\ UNCHANGED <<upVars, toUp, toDown, link, disk>>

EndStream ==
  /\ down = "ready"
  /\ down' = "ended"
  /\ UNCHANGED <<job, begin, piece, upVars, toUp, toDown, link, disk>>

SendSize ==
  /\ down = "size"
  /\ down' = "body"
  /\ toUp' = Append(toUp, Size)
  /\ UNCHANGED <<job, begin, piece, upVars, toDown, link, disk>>

SendBody ==
  /\ down = "body"
  /\ down' = "receive"
  /\ toUp' = Append(toUp, RequestOf(job, begin, BlockSize))
  /\ UNCHANGED <<job, begin, piece, upVars, toDown, link, disk>>

\* Mutant: only the length of the piece is compared.
MHashMatches(i, bytes) == Len(bytes) = PieceSize(i)

HashMatches(i, bytes) == bytes = PieceBytes[i]

(* The assertions on index and begin; splice panics past the end.          *)
Expected(m) ==
  m.type = "piece" /\ m.index = job /\ m.begin = begin /\ m.begin <= Len(piece)

Spliced(block) == SubSeq(piece, 1, begin) \o block \o SubSeq(piece, begin + 1, Len(piece))

ReceiveBlock ==
  /\ down = "receive" /\ Receive
  /\ IF Expected(Head(toDown))
     THEN /\ piece' = Spliced(Head(toDown).block)
          /\ begin' = begin + BlockSize
          /\ down' = IF begin' # PieceSize(job) THEN "size"
                     ELSE IF HashMatches(job, piece') THEN "ready" ELSE "mismatch"
     ELSE down' = "unexpected" /\ UNCHANGED <<begin, piece>>
  /\ UNCHANGED <<job, upVars, toUp, link, disk>>

(* Connecting, reading or writing fails: nobody listens, the peer closed   *)
(* the connection (what it had sent before may be lost), or the network    *)
(* reports an error.                                                       *)
DownError ==
  /\ down \in {"connect", "handshake", "bitfield", "unchoke", "size", "body", "receive"}
  /\ \/ down = "connect"
     \/ link = "reset"
     \/ link = "up" /\ UpGone
  /\ down' = "failed"
  /\ UNCHANGED <<job, begin, piece, upVars, toUp, toDown, link, disk>>

\* Mutant: a timeout on the block too, and the request is sent again.
MDownTimeout ==
  /\ down \in {"handshake", "receive"} /\ (toDown = <<>> \/ link = "silent")
  /\ down' = IF down = "receive" THEN "size" ELSE "failed"
  /\ UNCHANGED <<job, begin, piece, upVars, toUp, toDown, link, disk>>

DownHandshakeTimeout ==
  /\ down = "handshake" /\ (toDown = <<>> \/ link = "silent")
  /\ down' = "failed"
  /\ UNCHANGED <<job, begin, piece, upVars, toUp, toDown, link, disk>>
-----------------------------------------------------------------------------
(* The uploader: handle_peer up to its loop.                               *)

Accept ==
  /\ up = "accept" /\ down # "connect" /\ link = "up"
  /\ up' = "handshake"
  /\ toDown' = Append(toDown, Handshake)
  /\ UNCHANGED <<downVars, timeouts, toUp, link, disk>>

UpHandshake ==
  /\ up = "handshake" /\ link = "up" /\ toUp # <<>>
  /\ up' = "interested"
  /\ toUp' = Tail(toUp)
  /\ toDown' = Append(toDown, Bitfield)
  /\ UNCHANGED <<downVars, timeouts, link, disk>>

UpInterested ==
  /\ up = "interested" /\ link = "up" /\ Len(toUp) >= 2
  /\ toUp' = Tail(Tail(toUp))
  /\ IF Head(Tail(toUp)) = Interested
     THEN up' = "size" /\ toDown' = Append(toDown, Unchoke)
     ELSE up' = "closed" /\ UNCHANGED toDown
  /\ UNCHANGED <<downVars, timeouts, link, disk>>
-----------------------------------------------------------------------------
(* The uploader's loop.                                                    *)

Incoming == link = "up" /\ toUp # <<>> /\ toUp' = Tail(toUp)

ReadSize ==
  /\ up = "size" /\ Incoming /\ Head(toUp) = Size
  /\ up' = "body"
  /\ UNCHANGED <<downVars, timeouts, toDown, link, disk>>

(* read_piece: seek to the offset and read exactly `length' bytes.         *)
\* Mutant: the offset of the block in the piece is forgotten.
MOffset(r) == r.index * PieceLength

Offset(r) == r.index * PieceLength + r.begin
Readable(r) == Offset(r) + r.length <= Len(disk)
Block(r) == SubSeq(disk, Offset(r) + 1, Offset(r) + r.length)

\* Mutant: the answer carries the offset in the file for the one in the piece.
MHandleRequest ==
  /\ up = "body" /\ Incoming
  /\ timeouts' = 0
  /\ LET r == Head(toUp)
     IN  IF Readable(r)
         THEN up' = "size" /\ toDown' = Append(toDown, PieceOf(r.index, Offset(r), Block(r)))
         ELSE up' = "refused" /\ UNCHANGED toDown
  /\ UNCHANGED <<downVars, link, disk>>

HandleRequest ==
  /\ up = "body" /\ Incoming
  /\ timeouts' = 0
  /\ LET r == Head(toUp)
     IN  IF Readable(r)
         THEN up' = "size" /\ toDown' = Append(toDown, PieceOf(r.index, r.begin, Block(r)))
         ELSE up' = "refused" /\ UNCHANGED toDown
  /\ UNCHANGED <<downVars, link, disk>>

(* The body of a request read as if it started with a size: its tag and    *)
(* the high bytes of `index' are a size, the low byte of `index' is a tag. *)
(* What follows is `begin' (zero sizes are skipped) and `length'.          *)
Misread == up = "size" /\ Incoming /\ Head(toUp) # Size
MisreadTag == Head(toUp).index % 256

(* Unchoke and Interested have no payload, and the loop ignores them.  If  *)
(* begin is 0, length is the next size; or else the tag is its first byte, *)
(* which is 0.                                                             *)
MisreadIgnored ==
  /\ Misread /\ MisreadTag \in {1, 2} /\ Head(toUp).begin = 0
  /\ timeouts' = 0
  /\ up' = "body"
  /\ UNCHANGED <<downVars, toDown, link, disk>>

(* Bitfield, Request and Piece need more bytes than there are.             *)
MisreadStalled ==
  /\ Misread /\ MisreadTag \in {5, 6, 7}
  /\ up' = "body"
  /\ UNCHANGED <<downVars, timeouts, toDown, link, disk>>

MisreadPanic ==
  /\ Misread
  /\ MisreadTag \in {1, 2} => Head(toUp).begin # 0
  /\ MisreadTag \notin {5, 6, 7}
  /\ up' = "panicked"
  /\ UNCHANGED <<downVars, timeouts, toDown, link, disk>>

\* Mutants: one timeout too many is allowed; timeouts are not counted.
MUpTimeoutLate ==
  /\ up \in {"size", "body"} /\ (toUp = <<>> \/ link = "silent")
  /\ timeouts' = timeouts + 1
  /\ up' = IF timeouts' > MaxConsecutiveTimeouts THEN "idle" ELSE "size"
  /\ UNCHANGED <<downVars, toUp, toDown, link, disk>>
MUpTimeoutUncounted ==
  /\ up \in {"size", "body"} /\ (toUp = <<>> \/ link = "silent")
  /\ up' = "size"
  /\ UNCHANGED <<downVars, timeouts, toUp, toDown, link, disk>>

(* The timeout drops the receive, and with it a size that was read.        *)
UpTimeout ==
  /\ up \in {"size", "body"} /\ (toUp = <<>> \/ link = "silent")
  /\ timeouts' = timeouts + 1
  /\ up' = IF timeouts' >= MaxConsecutiveTimeouts THEN "idle" ELSE "size"
  /\ UNCHANGED <<downVars, toUp, toDown, link, disk>>

UpHandshakeTimeout ==
  /\ up = "handshake" /\ (toUp = <<>> \/ link = "silent")
  /\ up' = "closed"
  /\ UNCHANGED <<downVars, timeouts, toUp, toDown, link, disk>>

(* The downloader closed the connection, or the network reports an error.  *)
UpError ==
  /\ up \in {"handshake", "interested", "size", "body"}
  /\ link = "reset" \/ (link = "up" /\ DownGone)
  /\ up' = "closed"
  /\ UNCHANGED <<downVars, timeouts, toUp, toDown, link, disk>>
-----------------------------------------------------------------------------
(* The environment: the network fails, with an error, without a sign, or   *)
(* with an error after a while; the file is edited while it is served.     *)

BreakLink ==
  /\ link # "reset"
  /\ link' \in {"reset", "silent"} \ {link}
  /\ UNCHANGED <<downVars, upVars, toUp, toDown, disk>>

EditFile ==
  /\ disk = Original
  /\ \/ \E k \in 1 .. FileLength : disk' = [disk EXCEPT ![k] = Corrupt]
     \/ \E n \in 0 .. FileLength - 1 : disk' = SubSeq(disk, 1, n)
  /\ UNCHANGED <<downVars, upVars, toUp, toDown, link>>
-----------------------------------------------------------------------------
Downloader ==
  \/ Connect
  \/ DownHandshake
  \/ DownBitfield
  \/ DownUnchoke
  \/ SendSize
  \/ SendBody
  \/ ReceiveBlock
  \/ DownError
  \/ DownHandshakeTimeout

Uploader ==
  \/ Accept
  \/ UpHandshake
  \/ UpInterested
  \/ ReadSize
  \/ HandleRequest
  \/ MisreadIgnored
  \/ MisreadStalled
  \/ MisreadPanic
  \/ UpTimeout
  \/ UpHandshakeTimeout
  \/ UpError

Next ==
  \/ Downloader
  \/ \E i \in Piece : TakeRequest(i)
  \/ EndStream
  \/ Uploader
  \/ BreakLink
  \/ EditFile

Spec == Init /\ [][Next]_vars

(* Both tasks run when they can, and time passes.  The network need not    *)
(* fail, and the other tasks need not leave a request for this stream.     *)
FairSpec == Spec /\ WF_vars(Downloader) /\ WF_vars(Uploader)
-----------------------------------------------------------------------------
Connecting == {"connect", "handshake", "bitfield", "unchoke"}
Fetching == {"size", "body", "receive"}
Request == [type : {"request"}, index : Piece, begin : Nat, length : Nat]
Answer == [type : {"piece"}, index : Piece, begin : Nat, block : Seq(Byte)]

TypeOK ==
  /\ down \in Connecting \cup Fetching
               \cup {"ready", "ended", "failed", "mismatch", "unexpected"}
  /\ job \in Piece \cup {NoPiece}
  /\ begin \in 0 .. PieceLength
  /\ piece \in Seq(Byte)
  /\ up \in {"accept", "handshake", "interested", "size", "body",
             "closed", "idle", "refused", "panicked"}
  /\ timeouts \in 0 .. MaxConsecutiveTimeouts
  /\ toUp \in Seq({Handshake, Size, Interested} \cup Request)
  /\ toDown \in Seq({Handshake, Bitfield, Unchoke} \cup Answer)
  /\ link \in {"up", "reset", "silent"}
  /\ disk \in Seq(Byte)

(* Stop and wait: nothing is in flight when a request is about to be sent, *)
(* and a request is never in flight together with an answer.  No timeout   *)
(* of the uploader, and nothing it misreads, breaks this.                  *)
LockStep ==
  /\ down \in {"ready", "size"} => toUp = <<>> /\ toDown = <<>>
  /\ down \in {"body", "receive"} => Len(toUp) + 2 * Len(toDown) <= 2

(* With this uploader every message is the one the downloader waits for:   *)
(* neither the bails nor the assertions on a block are ever reached.       *)
NoUnexpectedMessage == down # "unexpected"

(* The blocks the downloader asks for tile the piece, within the file, and *)
(* the uploader reads them at the right place: as long as the file is not  *)
(* edited no request is refused and no hash differs.                       *)
ServesTheFile == disk = Original => down # "mismatch" /\ up # "refused"

(* A connection is a stream task as the download relies on it: a piece     *)
(* that is returned has the bytes of the original file, whatever happened  *)
(* to the network, to the file or to the framing meanwhile.                *)
Task == INSTANCE StreamTask WITH
          NoBytes <- NoPiece,
          task <- IF down \in Connecting THEN "connecting"
                  ELSE IF down \in Fetching THEN "fetch"
                  ELSE IF down = "ready" THEN "receive"
                  ELSE IF down = "ended" THEN "ended"
                  ELSE "failed",
          out <- IF down = "ready" /\ job # NoPiece THEN piece ELSE NoPiece

TaskSpec == Task!Spec

(* Whatever the uploader does wrong, the downloader learns of it: it       *)
(* never waits forever for a handshake, an unchoke or a block (it has no   *)
(* timeout of its own there), unless the network died without a sign.      *)
SessionProgress ==
  down \notin {"ready"} /\ ~DownGone ~> down = "ready" \/ DownGone \/ link = "silent"

(* The uploader does not keep a dead peer: once its loop runs, it ends     *)
(* even if the network dies without a sign.                                *)
UploaderLetsGo == up \in {"size", "body"} /\ link = "silent" ~> UpGone

(* torrent.rs:338-340 turns a tag that is not one of the protocol into an  *)
(* error ("failed to convert message tag to enum"), and the uploader's     *)
(* loop survives all timeouts but the last: the uploader does not panic.   *)
UploaderDoesNotPanic == up # "panicked"
=============================================================================
