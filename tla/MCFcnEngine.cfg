CONSTANTS
  Underlyings = {u1, u2}
  Observations = 4
  Dates <- MCDates
  Unit = 10
  Sheets <- MCSheets
  Paths <- MCPaths
  PathCount = 2
  NoPath = NoPath
SPECIFICATION Spec
INVARIANTS
  TypeOK
  PrincipalOnce
  PutExplained
  CouponWithinPromise
  OracleAgrees
PROPERTIES
  NothingAfterCall
  NoteRefined
