\* One device and two channels over time: cooldown, retention, crashes.
SPECIFICATION Spec
CONSTANTS
  sched = sched
  manual = manual
  m1 = m1
  m2 = m2
  Scanners <- MCOneScanner
  Macs <- MCOneMac
  NoMac = NoMac
  Oui = Oui
  NoOne = NoOne
  Decided = {"trusted"}
  Cooldown = 1
  Retention = 2
  MaxStall = 1
  MaxTime = 3
  MaxId = 1
  MaxChannel = 2
  MaxClients = 1
  AllowFaults = TRUE
INVARIANTS
  QueuedAlertsHaveOutcome
PROPERTIES
  RecordedAlertsWereSent
  CooldownKept
  PolicyKept
  RepeatedOnlyIfUnrecorded
