\* The claim that every listed file has peers, refuted.
SPECIFICATION Spec
CONSTANTS
  Client = {c1, c2}
  InfoHash = {h1, h2}
  FileName = {n1, n2}
  Addr = {a1}
  BadAddr = BadAddr
  NoName = NoName
  MaxPosts = 2
SYMMETRY TrackerSymmetry
INVARIANT ListedFilesHavePeers
