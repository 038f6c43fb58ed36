SPECIFICATION Spec
CONSTANTS
  Devices <- SomeDevices
  Levels = {200, 400}
  ErrorCodes <- SomeErrors
  AcquiredCodes <- SomeAcquired
  MaxIds = 2
  Accidents <- SomeAccidents
INVARIANTS TypeOK PanelFollowsTouch OperationHasFod WaitsForLibrary FaultsNeedReason CodesStayApart
CHECK_DEADLOCK FALSE
