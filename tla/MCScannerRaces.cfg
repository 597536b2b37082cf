\* Two scan threads, two MACs, id reuse; time stands still.
SPECIFICATION Spec
CONSTANTS
  sched = sched
  manual = manual
  m1 = m1
  m2 = m2
  Scanners <- MCScanners
  Macs <- MCMacs
  NoMac = NoMac
  Oui = Oui
  NoOne = NoOne
  Decided = {"trusted"}
  Cooldown = 1
  Retention = 2
  MaxStall = 1
  MaxTime = 0
  MaxId = 3
  MaxChannel = 1
  MaxClients = 2
  AllowFaults = TRUE
SYMMETRY Symmetric
INVARIANTS
  TypeOK
  LockDiscipline
  OneRowPerMac
  SettledDevicesStaySilent
  FailedScanIsSilent
  OneAlertPerScan
PROPERTIES
  NoLostDecision
  TableKept
  ScansAdvance
