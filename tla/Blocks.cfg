\* All torrents of up to 28 bytes; sizes and indexes of three bits, blocks of three bytes.
SPECIFICATION Spec
CONSTANTS
  Torrent <- MCTorrent
  WordSize = 8
  BlockMaxSize = 3
INVARIANTS
  TypeOK
  BlocksAreInThePiece
  NoByteTwice
  PieceIsWhole
  CutIsNoticed
\* A mismatch ends the stream task.
CHECK_DEADLOCK FALSE
