\* One connection: six pieces, the last of them one byte, blocks of two bytes.
SPECIFICATION FairSpec
CONSTANTS
  FileLength = 16
  PieceLength = 3
  BlockMaxSize = 2
  MaxConsecutiveTimeouts = 3
  Corrupt = Corrupt
  NoPiece = NoPiece
INVARIANTS
  TypeOK
  LockStep
  NoUnexpectedMessage
  ServesTheFile
PROPERTIES
  TaskSpec
  SessionProgress
  UploaderLetsGo
\* Both ends may be gone.
CHECK_DEADLOCK FALSE
