SPECIFICATION Spec
CONSTANTS
  Underlyings = {1, 2}
  Observations = 3
  Unit = 100
  NoCube = NoCube
  Dates <- MCDates
  Requests <- MCRequests
  Draws <- MCDraws
INVARIANTS
  DeltaIsDirectional
