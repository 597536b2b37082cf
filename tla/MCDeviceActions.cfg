\* Two requests, two devices, every pair of operations.
SPECIFICATION MCSpec
CONSTANTS
  r1 = r1
  r2 = r2
  m1 = m1
  m2 = m2
  n1 = n1
  Requests = {r1, r2}
  Macs = {m1, m2}
  Names = {n1}
  MaxId = 2
  MaxRows = 2
  Files <- MCFiles
  NoMac = NoMac
  NoName = NoName
  NoRow = NoRow
  NoForm = NoForm
SYMMETRY Symmetry
INVARIANTS TypeOK AuditTellsStatus ControllerAgrees CommandsOnce
PROPERTIES AppliedAsWhole RequestsAdvance ImplementsTable
CHECK_DEADLOCK FALSE
