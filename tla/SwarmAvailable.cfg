\* The claim that the download uses the peers that are available, refuted.
SPECIFICATION Spec
CONSTANTS
  Uploader = {u1, u2}
  Downloader = d
  File = {f1, f2}
  Wanted = f1
  Addr = {a1, a2}
  MaxUploads = 2
  MaxFaults = 0
  PieceCount = 2
  Corrupt = Corrupt
  NoPiece = NoPiece
  Untouched = Untouched
  BadAddr = BadAddr
  NoName = NoName
SYMMETRY SwarmSymmetry
INVARIANT UsesAvailablePeers
\* The command ends or waits, and nobody has to start an upload.
CHECK_DEADLOCK FALSE
