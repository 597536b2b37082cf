\* Liveness under the fairness of FairSpec.
SPECIFICATION FairSpec
CONSTANTS
  sched = sched
  manual = manual
  m1 = m1
  m2 = m2
  Scanners <- MCScanners
  Macs <- MCOneMac
  NoMac = NoMac
  Oui = Oui
  NoOne = NoOne
  Decided = {"trusted"}
  Cooldown = 1
  Retention = 2
  MaxStall = 1
  MaxTime = 0
  MaxId = 1
  MaxChannel = 1
  MaxClients = 1
  AllowFaults = TRUE
PROPERTIES
  EveryScanEnds
