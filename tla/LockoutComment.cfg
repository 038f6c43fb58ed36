SPECIFICATION Spec
CONSTANTS
  TimedThreshold = 2
  PermanentThreshold = 4
  Duration = 2
  MaxFailures = 5
  Timers = {t1, t2}
INVARIANT CallbacksLeaveBinderFree
