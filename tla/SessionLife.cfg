SPECIFICATION FairSpec
CONSTANTS
  ForceCalibrate = TRUE
  Templates <- TwoTemplates
  MaxClients = 3
  MaxSessions = 3
INVARIANTS TypeOK LinkedIsCurrent AbortNeedsOrphan AnswersAreFresh
PROPERTIES ClosedAfterDeath EnrollEnds
CHECK_DEADLOCK FALSE
