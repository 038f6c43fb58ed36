SPECIFICATION HostSpec
CONSTANTS
  None = None
  BLOCK = 4
  RECORD = 12
  PART_SIZE = 40
  MEMBERS <- Two
  ImageDirs <- Dirs
  References <- Tars
  Pieces = 2
  MaxRuns = 2
  engine = engine
  gui = gui
  other = other
  seamSymbol = seamSymbol
  platformSymbol = platformSymbol
  strayMember = strayMember
  Sonames = {engine, gui, other}
  Symbols = {seamSymbol, platformSymbol, strayMember}
  DirectAllowed = {engine, other}
  Forbidden = {gui}
  Seam <- SeamOfEngine
  PlatformImports = {platformSymbol}
  NeededLists <- Lists
INVARIANTS TypeOK BuildsExactly OutputIsSafe SeamTypeOK VerdictExact
PROPERTY WalkEnds
CHECK_DEADLOCK FALSE
