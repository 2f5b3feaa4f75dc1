SPECIFICATION Spec
CONSTANTS
  top = top  sub = sub  other = other
  deep = deep  flat = flat  away = away
  None = None
  Zone = {top, sub, other}
  Managed = {top, sub}
  Name = {deep, flat, away}
  Suffixes <- MCSuffixes
  StartZones = {top}
  Handler = {h1}
  ZoneCacheTTL = 2
  MaxFailCount = 2
INVARIANTS
  TypeOK
  CacheExpires
  ChangesMeetTheirZone
  ShutsDownInTime
  OneHandlerInv
