\* The connector is deleted, at any moment.
SPECIFICATION OpFairSpec

CONSTANTS
  r1 = r1
  r2 = r2
  z1 = z1
  z2 = z2
  p1 = p1
  p2 = p2
  d1 = d1
  d2 = d2
  dBad = dBad
  h1 = h1
  h2 = h2
  hBad = hBad
  e1 = e1
  e2 = e2
  v1 = v1
  v2 = v2
  g1 = g1
  gBad = gBad
  t1 = t1
  t2 = t2
  Record = {}
  Zone = {z1}
  Prefix = {p1}
  Data = {d1}
  BadData = {}
  Header = {h1}
  BadHeader = {}
  UserOp = {"deleteConnector"}
  MaxEdits = 1
  MaxClock = 1
  MaxFaults = 0
  Timely = {"watch", "roll", "con", "cm", "delay"}
  InitRecordSpec <- GoodRecordSpec
  InitZoneSpec <- GoodZoneSpec
  MaxCrashes = 0
  Domain = {e1, e2}
  DomainOf <- DomainOfHeader
  VolumeOf <- Volumes
  Plugins = {g1}
  BadPlugins = {}
  CoreText = {t1}
  Surge = FALSE
  InitConSpec <- GoodConSpec

PROPERTIES
  ZonesLearnOfRemoval

\* Once users stop and everything is reconciled, the operator waits.
CHECK_DEADLOCK FALSE
