SPECIFICATION FairSpec
CONSTANTS
  At = At
  Unencodable = Unencodable
  NoPriority = NoPriority
  Slash = Slash
  Escape = Escape
  BadLabels = BadLabels
  Part <- MCPart
  ToUnicode <- MCToUnicode
  ToASCII <- MCToASCII
  Priority <- MCPriority
  BehindPriority <- MCBehindPriority
  Numeric = {"10", "20"}
  Word = {"a", "b"}
  Zone <- MCZone
  Config <- MCConfig
  BatchSize = 1
  Wishes <- MCWishes
  StartDNS <- MCStartDNS
  Edits <- MCEdits
  MaxDisturbances = 1
  MaxRestarts = 1
INVARIANTS
  TypeOK
  CycleMeansWished
  WishInv
  ListingComplete
PROPERTIES
  SettledIsQuiet
  WritesMeetTheirName
  Settles
