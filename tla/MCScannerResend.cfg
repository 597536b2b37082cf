\* Expected violation, see README.md, Findings.
SPECIFICATION Spec
CONSTANTS
  sched = sched
  manual = manual
  m1 = m1
  m2 = m2
  Scanners <- MCOneScanner
  Macs <- MCMacs
  NoMac = NoMac
  Oui = Oui
  NoOne = NoOne
  Decided = {"trusted"}
  Cooldown = 1
  Retention = 0
  MaxStall = 1
  MaxTime = 2
  MaxId = 2
  MaxChannel = 1
  MaxClients = 2
  AllowFaults = FALSE
PROPERTIES
  MessagesRespectCooldown
