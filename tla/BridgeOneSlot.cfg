SPECIFICATION FairSpec
CONSTANTS
  Slots = {0}
  Threads = {t1, t2}
  MaxAttempts = 3
  MaxGeneration = 2
  NoChannel = NoChannel
INVARIANTS TypeOK NoSilentDeath CallbackIsOurs NoLeftoverRebind
PROPERTIES LiveChannelKept SupervisorSpec ChainEnds RebindRestoresCallback
