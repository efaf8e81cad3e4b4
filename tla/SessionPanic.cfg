\* The claim that the uploader survives a timeout, refuted.
SPECIFICATION Spec
CONSTANTS
  FileLength = 16
  PieceLength = 3
  BlockMaxSize = 2
  MaxConsecutiveTimeouts = 3
  Corrupt = Corrupt
  NoPiece = NoPiece
INVARIANT UploaderDoesNotPanic
CHECK_DEADLOCK FALSE
