SPECIFICATION Spec
CONSTANTS
  z1 = z1  z2 = z2  z3 = z3
  a = a  b = b  c = c  f = f
  r1 = r1  r2 = r2  bad = bad  t1 = t1  t2 = t2  l0 = l0  l1 = l1
  None = None
  BadLabels = BadLabels
  NoLabels = l0
  Zone = {z1, z2}
  Managed = {z1, z2}
  Key = {a, b, f}
  Owned = {a, b}
  ZoneOf <- MCZoneOf
  ZoneTTL <- MCZoneTTL
  Recs = {r1, r2, bad}
  TTL = {t1, t2}
  Labels = {l0, l1}
  DryRun = FALSE
  Unparsable = {bad}
  Unreadable = {}
  MaxVersion = 1
  Unsupported = Unsupported
  Wishes <- WishLabels
  StartDNS <- MCStartDNS
  StartSerial <- MCSupported
  Edits <- MCEdits
  MaxDisturbances = 0
PROPERTIES
  LabelsAreNoReason
