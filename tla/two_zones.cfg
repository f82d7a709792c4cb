\* One record is edited, moved to the other zone, or both, and the operator
\* restarts at any moment.
SPECIFICATION Spec

CONSTANTS
  r1 = r1
  r2 = r2
  z1 = z1
  z2 = z2
  p1 = p1
  p2 = p2
  d1 = d1
  d2 = d2
  dBad = dBad
  h1 = h1
  h2 = h2
  hBad = hBad
  Record = {r1}
  Zone = {z1, z2}
  Prefix = {p1}
  Data = {d1, d2}
  BadData = {}
  Header = {h1}
  BadHeader = {}
  UserOp = {"editRecord"}
  MaxEdits = 1
  MaxClock = 1
  MaxFaults = 0
  Timely = {"cm", "delay"}
  InitRecordSpec <- GoodRecordSpec
  InitZoneSpec <- GoodZoneSpec
  MaxCrashes = 1

INVARIANTS
  QuiescentFilesRight
  QuiescentRecordsRight

\* Once users stop and everything is reconciled, the operator waits.
CHECK_DEADLOCK FALSE
