CONSTANTS
  Processes = {p1, p2}
  Ingesters = {p1, p2}
  Environments <- MCEnvironments
  Changes <- MCChanges
  Batches = {1, 2, 3}
  Roots <- MCRoots
  Datasets = {instruments, market}
  Names = {1, 2, 3}
  Sizes = {2}
  MaxCalls = 3
  MaxDeaths = 1
SYMMETRY Symmetry
SPECIFICATION Spec
CHECK_DEADLOCK FALSE
INVARIANTS
  TypeOK
  ListedAreWhole
  RowsMatchFiles
  NothingLostAlone
  ManifestDescribesStore
  ReadersFindTheBatch
PROPERTIES
  RefusalIsAtomic
  LogRefined
