\* Two edits or deletions of records and zones, to good and bad specs and
\* back, and one failed API call, in any order.
SPECIFICATION FairSpec

CONSTANTS
  r1 = r1
  r2 = r2
  z1 = z1
  z2 = z2
  p1 = p1
  p2 = p2
  d1 = d1
  d2 = d2
  dBad = dBad
  h1 = h1
  h2 = h2
  hBad = hBad
  Record = {r1}
  Zone = {z1}
  Prefix = {p1}
  Data = {d1, dBad}
  BadData = {dBad}
  Header = {h1, h2, hBad}
  BadHeader = {hBad}
  UserOp = {"editRecord", "editZone", "deleteRecord", "createRecord", "deleteZone"}
  MaxEdits = 2
  MaxClock = 1
  MaxFaults = 1
  Timely = {"cm", "delay"}
  InitRecordSpec <- GoodRecordSpec
  InitZoneSpec <- GoodZoneSpec
  MaxCrashes = 0

PROPERTIES
  FilesConverge
  RecordStatusConverges
  DeletionsComplete
  CMsGoWithZone
  NoReadyWithoutZone

\* Once users stop and everything is reconciled, the operator waits.
CHECK_DEADLOCK FALSE
