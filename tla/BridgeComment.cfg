SPECIFICATION Spec
CONSTANTS
  Slots = {0}
  Threads = {t1}
  MaxAttempts = 2
  MaxGeneration = 1
  NoChannel = NoChannel
INVARIANT AttemptMeansPending
