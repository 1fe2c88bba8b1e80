SPECIFICATION Spec
CONSTANTS
  Clients = {c1, c2}
  Requests = {q1, q2, q3}
  s1 = s1
  s2 = s2
  dir = dir
  Slices = {s1, s2}
  Dirs = {dir}
  SafeName <- MCSafeName
  DefinitionKinds = {"slices"}
  Backends = {"sqlite", "postgres"}
  LegacyRows <- MCLegacyRows
  Legacy = Legacy
  NoClient = NoClient
  NoJob = NoJob
  Missing = Missing
  Torn = Torn
  MaxEpoch = 1
SYMMETRY Symmetry
INVARIANTS
  TypeOK
  VersionsIncremental
  CreationFollowsVersion
  ReadySealed
  IndexComplete
  LegacyDefinitionsWin
PROPERTIES
  RowsAreFinal
  RewrittenWithinSecond
  LedgerRefined
CHECK_DEADLOCK FALSE
