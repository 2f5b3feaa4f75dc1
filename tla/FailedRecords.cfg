SPECIFICATION Spec
CONSTANTS
  top = top  sub = sub  other = other
  deep = deep  flat = flat  away = away
  None = None
  Zone = {top, sub}
  Managed = {top, sub}
  Name = {deep}
  Suffixes <- MCSuffixes
  StartZones = {top}
  Handler = {h1}
  ZoneCacheTTL = 1
  MaxFailCount = 2
INVARIANTS
  FailedRecordsShutDown
