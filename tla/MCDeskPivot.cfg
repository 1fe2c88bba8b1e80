CONSTANTS
  Unit = 10000
  XadAvailable = TRUE
  MaxInstruments = 3
  Underlyings = 4
  Terminals = {}
  ClampedCube <- MCClampedCube
  ParityBumps = {1, 2}
  Books = {}
  Draws = {}
  Ratios = {0, 8000}
  DailySheets = {}
  Years = {}
  Termsheets = {}
  Variants = {}
  Tables <- MCTables
  Queries <- PivotQueries
SPECIFICATION Spec
INVARIANT PivotedCellsReconcile
