\* Two saves of any kind beside the cleanup, batches of one row.
SPECIFICATION MCSpec
CONSTANTS
  s1 = s1
  s2 = s2
  IntervalSavers = {s1, s2}
  RetentionSavers = {s2}
  IntervalForms <- MCIntervalForms
  RetentionForms <- MCRetentionForms
  IntervalPresets = {3}
  DayPresets = {0}
  MinInterval = 2
  MaxSeconds = 5
  MaxDays = 5
  EnvInterval = 2
  EnvObservationDays = 0
  EnvEventDays = 1
  BatchSize = 1
  MaxId = 2
  MaxTime = 2
  NoValue = NoValue
  NoForm = NoForm
INVARIANTS TypeOK JobFollowsSetting
PROPERTIES RetentionExact CleanupAdvances RetentionEnds
CHECK_DEADLOCK FALSE
