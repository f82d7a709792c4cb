\* Two records of one zone, one of which turns bad while the serial rises and
\* an API call fails.
SPECIFICATION Spec

CONSTANTS
  r1 = r1
  r2 = r2
  z1 = z1
  z2 = z2
  p1 = p1
  p2 = p2
  d1 = d1
  d2 = d2
  dBad = dBad
  h1 = h1
  h2 = h2
  hBad = hBad
  Record = {r1, r2}
  Zone = {z1}
  Prefix = {p1}
  Data = {d1, dBad}
  BadData = {dBad}
  Header = {h1}
  BadHeader = {}
  UserOp = {"editRecord"}
  MaxEdits = 1
  MaxClock = 2
  MaxFaults = 1
  Timely = {"cm", "delay"}
  InitRecordSpec <- GoodRecordSpec
  InitZoneSpec <- GoodZoneSpec
  MaxCrashes = 0

INVARIANTS
  QuiescentFilesRight
  QuiescentRecordsRight

\* Once users stop and everything is reconciled, the operator waits.
CHECK_DEADLOCK FALSE
