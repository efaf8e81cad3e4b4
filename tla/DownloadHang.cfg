\* The claim that a download with a failed stream still ends, refuted.
SPECIFICATION FairSpec
CONSTANTS
  PieceCount = 3
  Worker = {w1, w2}
  Corrupt = Corrupt
  NoPiece = NoPiece
  Untouched = Untouched
PROPERTY DownloadReturns
CHECK_DEADLOCK FALSE
