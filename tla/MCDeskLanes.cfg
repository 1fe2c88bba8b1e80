CONSTANTS
  Unit = 10000
  XadAvailable = TRUE
  MaxInstruments = 3
  Underlyings = 4
  Terminals <- MCTerminals
  ClampedCube <- MCClampedCube
  ParityBumps = {1, 2}
  Books = {}
  Draws = {}
  Ratios = {0, 8000}
  DailySheets = {}
  Years = {}
  Termsheets = {}
  Variants = {}
  Tables = {}
  Queries = {}
SPECIFICATION Spec
INVARIANT LanesGiveSameDelta
