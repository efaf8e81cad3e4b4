----------------------------- MODULE PieceBlocks -----------------------------
(***************************************************************************)
(* The arithmetic of download_piece (bt/src/peer_download.rs): the size of *)
(* a piece is an i64 cut to a u32, and its blocks are asked for until none *)
(* remains.  The uploader turns index and begin back into a place in the   *)
(* file (read_piece, bt/src/peer_upload.rs) in 64 bits.                    *)
(*                                                                         *)
(* Module PeerSession has the messages; here the numbers have their width, *)
(* and a byte is its place in the file.                                    *)
(***************************************************************************)
EXTENDS Integers

CONSTANTS
  Torrent,      \* torrents: the length of the file and of a piece
  WordSize,     \* 2^32
  BlockMaxSize  \* BLOCK_MAX_SIZE

ASSUME TorrentAssumption == Torrent \subseteq [length : Nat, piece : Nat \ {0}]
ASSUME WordAssumption == WordSize \in Nat \ {0}
ASSUME BlockAssumption == BlockMaxSize \in 1 .. WordSize - 1

VARIABLES
  torrent,  \* what is downloaded
  index,    \* piece_index
  begin,    \* begin_offset
  remain,   \* remain
  asked,    \* the bytes of the file that were asked for
  pc        \* "idle", "loop", "right" or "mismatch"

vars == <<torrent, index, begin, remain, asked, pc>>

Least(a, b) == IF a < b THEN a ELSE b

(* There is a hash for each piece that starts before the end of the file.  *)
IsPiece(i) == torrent.piece * i < torrent.length

FirstByte(i) == torrent.piece * i
FullSize(i) == Least(torrent.piece, torrent.length - torrent.piece * i)
BytesOf(i) == FirstByte(i) .. FirstByte(i) + FullSize(i) - 1

\* Mutant: the last piece is taken to be full.
MSize(i) == torrent.piece % WordSize

(* PieceRequest::new; `as u32' drops the high bits.                        *)
Size(i) == FullSize(i) % WordSize

Init ==
  /\ torrent \in Torrent
  /\ index = 0 /\ begin = 0 /\ remain = 0
  /\ asked = {}
  /\ pc = "idle"

TakePiece(i) ==
  /\ pc = "idle" /\ IsPiece(i)
  /\ index' = i /\ begin' = 0 /\ remain' = Size(i)
  /\ asked' = {}
  /\ pc' = "loop"
  /\ UNCHANGED torrent

\* Mutant: a last block that is short is asked for in full.
MBlockSize == BlockMaxSize

BlockSize == Least(BlockMaxSize, remain)

(* read_piece, with the index that went over the wire as a u32.            *)
Offset == (index % WordSize) * torrent.piece + begin
Block == Offset .. Offset + BlockSize - 1

\* Mutant: the offset of the next block is that of the last one.
MAskBlock ==
  /\ pc = "loop" /\ remain # 0
  /\ asked' = asked \cup Block
  /\ remain' = remain - BlockSize
  /\ UNCHANGED <<torrent, index, begin, pc>>

AskBlock ==
  /\ pc = "loop" /\ remain # 0
  /\ asked' = asked \cup Block
  /\ begin' = begin + BlockSize
  /\ remain' = remain - BlockSize
  /\ UNCHANGED <<torrent, index, pc>>

\* Mutant: the hash is not compared.
MCheckHash ==
  /\ pc = "loop" /\ remain = 0
  /\ pc' = "right"
  /\ UNCHANGED <<torrent, index, begin, remain, asked>>

(* The hash of the blocks is compared with that of the piece.              *)
CheckHash ==
  /\ pc = "loop" /\ remain = 0
  /\ pc' = IF asked = BytesOf(index) THEN "right" ELSE "mismatch"
  /\ UNCHANGED <<torrent, index, begin, remain, asked>>

(* A piece that is right is sent on, and the stream takes another one.     *)
SendOn ==
  /\ pc = "right"
  /\ pc' = "idle"
  /\ UNCHANGED <<torrent, index, begin, remain, asked>>

Next ==
  \/ \E i \in 0 .. torrent.length : TakePiece(i)
  \/ AskBlock
  \/ CheckHash
  \/ SendOn

Spec == Init /\ [][Next]_vars
-----------------------------------------------------------------------------
TypeOK ==
  /\ torrent \in Torrent
  /\ index \in Nat
  /\ begin \in 0 .. WordSize - 1
  /\ remain \in 0 .. WordSize - 1
  /\ asked \subseteq Nat
  /\ pc \in {"idle", "loop", "right", "mismatch"}

(* A piece whose size and whose number fit in 32 bits.                     *)
Fits(i) == FullSize(i) < WordSize /\ i < WordSize

(* The blocks of such a piece tile it: each lies in the piece (so within   *)
(* the file, where the uploader can read it), ...                          *)
BlocksAreInThePiece ==
  pc = "loop" /\ Fits(index) /\ remain # 0 => Block \subseteq BytesOf(index)

(* ... none of them is asked for twice, ...                                *)
NoByteTwice == pc = "loop" /\ remain # 0 => Block \cap asked = {}

(* ... and together they are the piece: its hash can match.                *)
PieceIsWhole == Fits(index) => pc # "mismatch"

(* Torrents whose pieces have 4 GiB or more, or are that many, cannot be   *)
(* downloaded, but the cut is never taken for the piece: each of these     *)
(* pieces ends in a mismatch.                                              *)
CutIsNoticed == ~Fits(index) => pc # "right"
=============================================================================
