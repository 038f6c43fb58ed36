SPECIFICATION SerialSpec
CONSTANTS
  TimedThreshold = 5
  PermanentThreshold = 20
  Duration = 2
  MaxFailures = 21
  Timers = {t1, t2}
INVARIANTS StartedMeansOneTimer ClientKnowsMode
PROPERTIES PermanentOutlastsTimers TimerEndsLockout
