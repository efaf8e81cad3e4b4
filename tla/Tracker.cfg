\* The tracker: two clients at a time, two files, names and addresses, two registrations.
SPECIFICATION FairSpec
CONSTANTS
  Client = {c1, c2}
  InfoHash = {h1, h2}
  FileName = {n1, n2}
  Addr = {a1, a2}
  BadAddr = BadAddr
  NoName = NoName
  MaxPosts = 2
INVARIANTS
  TypeOK
  PeersAreListed
  AnswersAreFresh
PROPERTIES
  RegistryOnlyGrows
  PoisonIsFinal
  ListedIsServed
