CONSTANTS
  Unit = 10000
  XadAvailable = TRUE
  MaxInstruments = 3
  Underlyings = 4
  Terminals <- MCTerminals
  ClampedCube <- MCClampedCube
  ParityBumps = {1, 2}
  Books <- MCBooks
  Draws <- MCDraws
  Ratios = {0, 8000}
  DailySheets <- MCDailySheets
  Years <- MCYears
  Termsheets <- MCTermsheets
  Variants <- MCVariants
  Tables <- MCTables
  Queries <- MCQueries
SPECIFICATION Spec
INVARIANTS
  LaterCallsPayMore
  AdjointMatchesBumps
  TaylorRowsAddUp
  DailyLanesAgree
  CalendarsAgree
  CompiledScheduleFits
  PagesTile
  DrillDownReconciles
  CacheIsFresh
  RowsMatchChecksum
  BumpsAreConvex
  LanesPriceAlike
