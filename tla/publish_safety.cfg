\* Every user operation and the connector's reports, two of them anywhere;
\* the caches lag as they like.
SPECIFICATION HSpec

CONSTANTS
  r1 = r1
  r2 = r2
  z1 = z1
  z2 = z2
  p1 = p1
  p2 = p2
  d1 = d1
  d2 = d2
  dBad = dBad
  h1 = h1
  h2 = h2
  hBad = hBad
  Record = {r1}
  Zone = {z1}
  Prefix = {p1}
  Data = {d1, dBad}
  BadData = {dBad}
  Header = {h1, hBad}
  BadHeader = {hBad}
  UserOp = {"createRecord", "editRecord", "deleteRecord", "createZone", "editZone", "labelZone", "deleteZone", "deleteCM", "notify"}
  MaxEdits = 2
  MaxClock = 1
  MaxFaults = 0
  Timely = {}
  InitRecordSpec <- GoodRecordSpec
  InitZoneSpec <- GoodZoneSpec
  MaxCrashes = 0

INVARIANTS
  TypeOK
  PublishedFilesParse
  RestingNothingHeld
PROPERTIES
  UserIntentKept
  ImplementsPublication

\* Once users stop and everything is reconciled, the operator waits.
CHECK_DEADLOCK FALSE
