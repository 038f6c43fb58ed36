SPECIFICATION FairSpec
CONSTANTS
  Missing = Missing
  RecordBytes = 5
  Row = 2
  MaxCameras = 2
  MaxSurfaces = 2
  MaxTaken = 2
  Layouts <- SomeLayouts
  Whats = {w1, w2}
  MaxMessages = 4
  Letters = {1, 2, 3}
  ForeignNames <- SomeNames
  Arguments <- SomeArguments
  Impus <- SomeImpus
  Libraries <- SomeLibraries
  INFO = 2048
  MaxGroups = 3
INVARIANTS TypeOK ProbeIsSound ClosureIsSafe InstallsOnEnough FrameReadsBack MeasuresOrRefuses
PROPERTY PanicIsRouted
CHECK_DEADLOCK FALSE
