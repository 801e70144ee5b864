\* The machine sleeps while a reconnect timer is armed.
SPECIFICATION PolicySpec
CONSTANTS
  BaseDelay = 1
  MaxDelay = 2
  MaxElapsed = 8
  Exponential = TRUE
  FullJitter = TRUE
  DriftThreshold = 1
  SleepIn = {"waiting"}
  SleepLengths = {1, 4, 9}
  MaxSleeps = 2
  MaxAttempt = 6
  MaxNow = 32
INVARIANTS
  AwakeTimeCounts
  SleepSparesTheWindow
\* The clock is bounded, so a run of the model ends.
CHECK_DEADLOCK FALSE
