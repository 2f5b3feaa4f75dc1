SPECIFICATION FairSpec
CONSTANTS
  z1 = z1  z2 = z2  z3 = z3
  a = a  b = b  c = c  f = f
  r1 = r1  r2 = r2  bad = bad  t1 = t1  t2 = t2  l0 = l0  l1 = l1
  None = None
  BadLabels = BadLabels
  NoLabels = l0
  Zone = {z1, z3}
  Managed = {z1}
  Key = {a, b, c, f}
  Owned = {a, b, c}
  ZoneOf <- MCZoneOf
  ZoneTTL <- MCZoneTTL
  Recs = {r1, r2, bad}
  TTL = {t1, t2}
  Labels = {l0, l1}
  DryRun = FALSE
  Unparsable = {bad}
  Unreadable = {}
  MaxVersion = 1
  Unsupported = Unsupported
  Wishes <- MCWishes
  StartDNS <- MCStartDNS
  StartSerial <- MCStartSerial
  Edits <- MCEdits
  MaxDisturbances = 2
INVARIANTS
  TypeOK
  BulkCycleSyncs
  BulkInv
PROPERTIES
  FilteredZonesOnlyGrow
  ImportKeepsTheRest
  ImportRaisesSerial
  BulkConverges
