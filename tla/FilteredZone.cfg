SPECIFICATION Spec
CONSTANTS
  z1 = z1  z2 = z2  zx = zx
  a = a  b = b  c = c  f = f  x = x
  r1 = r1  r2 = r2  t1 = t1  t2 = t2  l0 = l0  l1 = l1
  None = None
  BadLabels = BadLabels
  NoLabels = l0
  Zone = {z1, z2, zx}
  Managed = {z1, z2}
  Key = {a, b, c, x}
  Owned = {a, b, c, x}
  ZoneOf <- MCZoneOf
  ZoneTTL <- MCZoneTTL
  Rivals <- MCRivals
  Recs = {r1, r2}
  TTL = {t1, t2}
  Labels = {l0, l1}
  Handler = {h1, h2}
  DryRun = FALSE
  Wishes <- MCWishesX
  StartDNS <- MCStartDNS
  Edits <- MCEdits
  MaxDisturbances = 0
PROPERTIES
  OnlyManagedZones
