\* Two places to upload from, two files, two ports; two uploads, one of them ended or edited.
SPECIFICATION FairSpec
CONSTANTS
  Uploader = {u1, u2}
  Downloader = d
  File = {f1, f2}
  Wanted = f1
  Addr = {a1, a2}
  MaxUploads = 2
  MaxFaults = 1
  PieceCount = 2
  Corrupt = Corrupt
  NoPiece = NoPiece
  Untouched = Untouched
  BadAddr = BadAddr
  NoName = NoName
INVARIANTS
  TypeOK
  ListenersAreListed
  StuckOnlyByABadStream
PROPERTIES
  HealthySwarmDelivers
  CommandFetchesTheFile
\* The command ends or waits, and nobody has to start an upload.
CHECK_DEADLOCK FALSE
