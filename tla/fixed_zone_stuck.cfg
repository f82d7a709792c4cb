\* A zone is broken and fixed back to the spec it had.
SPECIFICATION FairSpec

CONSTANTS
  r1 = r1
  r2 = r2
  z1 = z1
  z2 = z2
  p1 = p1
  p2 = p2
  d1 = d1
  d2 = d2
  dBad = dBad
  h1 = h1
  h2 = h2
  hBad = hBad
  Record = {r1}
  Zone = {z1}
  Prefix = {p1}
  Data = {d1}
  BadData = {}
  Header = {h1, hBad}
  BadHeader = {hBad}
  UserOp = {"editZone"}
  MaxEdits = 2
  MaxClock = 1
  MaxFaults = 0
  Timely = {"cm", "delay"}
  InitRecordSpec <- GoodRecordSpec
  InitZoneSpec <- GoodZoneSpec
  MaxCrashes = 0

PROPERTIES
  FixedZoneRecovers

\* Once users stop and everything is reconciled, the operator waits.
CHECK_DEADLOCK FALSE
