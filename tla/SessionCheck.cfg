SPECIFICATION Spec
CONSTANTS
  ForceCalibrate = FALSE
  Templates <- TwoTemplates
  MaxClients = 3
  MaxSessions = 4
INVARIANT CheckHolds
CHECK_DEADLOCK FALSE
