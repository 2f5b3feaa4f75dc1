SPECIFICATION Spec
CONSTANTS
  At = At
  Unencodable = Unencodable
  NoPriority = NoPriority
  Slash = Slash
  Escape = Escape
  BadLabels = BadLabels
  Part <- MCPart
  ToUnicode <- MCToUnicode
  ToASCII <- MCToASCII
  Priority <- MCPriority
  BehindPriority <- MCBehindPriority
  Numeric = {"10", "20"}
  Word = {"a", "b"}
  Zone <- MCZone
  Config <- MCConfig
  BatchSize = 1
  Wishes <- MCUnicodeMX
  StartDNS <- MCStartDNS
  Edits <- MCEdits
  MaxDisturbances = 0
  MaxRestarts = 0
INVARIANTS
  TargetsConform
