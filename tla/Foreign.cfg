\* Two seeders: one that adds keep-alives only, one with all the liberties of the protocol.
SPECIFICATION FairSpec
CONSTANTS
  FileLength = 4
  PieceLength = 3
  BlockMaxSize = 2
  MaxConsecutiveTimeouts = 3
  Corrupt = Corrupt
  NoPiece = NoPiece
  Habits = {{"keepalive"}, {"keepalive", "have", "choke", "binary id", "no bitfield"}}
  MaxExtras = 3
INVARIANTS
  TypeOK
  NoUnexpectedMessage
PROPERTIES
  TaskSpec
  EndlessWaits
\* Both ends may be gone.
CHECK_DEADLOCK FALSE
