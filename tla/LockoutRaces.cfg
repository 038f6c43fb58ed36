SPECIFICATION Spec
CONSTANTS
  TimedThreshold = 1
  PermanentThreshold = 2
  Duration = 1
  MaxFailures = 3
  Timers = {t1}
INVARIANTS TypeOK LockoutIsEarned
