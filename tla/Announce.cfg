\* One announcement: a hash that is its own encoding, and one that is not.
SPECIFICATION Spec
CONSTANTS
  InfoHash = {h1, h2}
  PlainHash = {h1}
  PeerLists <- MCPeerLists
  ByteLists <- MCByteLists
INVARIANTS
  TypeOK
  TrackerIsUnderstood
  NothingIsMadeUp
\* An announcement ends.
CHECK_DEADLOCK FALSE
