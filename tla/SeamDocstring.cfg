SPECIFICATION SeamSpec
CONSTANTS
  engine = engine
  gui = gui
  other = other
  seamSymbol = seamSymbol
  platformSymbol = platformSymbol
  strayMember = strayMember
  Sonames = {engine, gui, other}
  Symbols = {seamSymbol, platformSymbol, strayMember}
  DirectAllowed = {engine, other}
  Forbidden = {gui}
  Seam <- SeamOfEngine
  PlatformImports = {platformSymbol}
  NeededLists <- Lists
INVARIANT ClosureIsClean
CHECK_DEADLOCK FALSE
