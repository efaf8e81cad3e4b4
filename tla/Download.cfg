\* The parallel download: four pieces, three streams, any failures.
SPECIFICATION FairSpec
CONSTANTS
  PieceCount = 4
  Worker = {w1, w2, w3}
  Corrupt = Corrupt
  NoPiece = NoPiece
  Untouched = Untouched
INVARIANTS
  TypeOK
  NoPieceTwice
  NoPieceDropped
  CompleteFile
  OutputTouchedOnlyWhenComplete
  NoReturnAfterFailure
  BlockedOnlyAfterLoss
PROPERTIES
  FetchSpec
  ReturnsUnlessLoss
  SurvivorsDrain
\* A lost piece really does stop the program.
CHECK_DEADLOCK FALSE
