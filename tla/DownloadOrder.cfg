\* The claim that the file has its pieces in order, refuted.
SPECIFICATION Spec
CONSTANTS
  PieceCount = 3
  Worker = {w1, w2}
  Corrupt = Corrupt
  NoPiece = NoPiece
  Untouched = Untouched
SYMMETRY WorkerSymmetry
INVARIANT FileInOrder
CHECK_DEADLOCK FALSE
