CONSTANTS
  MaxSimDevs = 2
  SimCounts = {0, 1, 3}
  Files = {f1, f2}
  Objects = {o1}
  Jobs = {j1, j2}
  NumBindings = 2
  OpenOn = 0
  OpenLoads = {0}
  PageSize = 4
  WordBytes = 1
  CacheAlign = 2
  U64Numbers = 32
  SizeT = 16
  Sizes = {17, 30}
  SyncOffsets = {0, 1, 2, 30}
  SyncLengths = {0, 2, 4, 30}
  MaxRequests = 4
  HalfWord = 16
  WordSize = 2
  Offsets <- MCOffsets
  Counts <- MCCounts
  Strides <- MCStrides
  ObjSizes <- MCObjSizes
  RegionSize = 24
SYMMETRY Interchangeable
SPECIFICATION DriversSpec
INVARIANTS
  ReachableIsReady
  NothingIsLeft
  UsedIsAlive
  NothingIsLeaked
  SyncInBounds
  OkMeansFinished
  WaiterIsWoken
  CharDevLeavesNothing
  CheckIsExact
  RegisterDecodes
  WordsInBounds
