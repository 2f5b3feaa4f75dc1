SPECIFICATION FairSpec
CONSTANTS
  top = top  sub = sub  other = other
  deep = deep  flat = flat  away = away
  None = None
  Zone = {top}
  Managed = {top}
  Name = {flat}
  Suffixes <- MCSuffixes
  StartZones = {}
  Handler = {h1, h2}
  ZoneCacheTTL = 1
  MaxFailCount = 2
PROPERTIES
  Heals
  OutageShutsDown
