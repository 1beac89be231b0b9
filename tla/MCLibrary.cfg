SPECIFICATION LibrarySpec
CONSTANTS
  JobsMax = 2
  MaxFd = 4
  MaxSubmits = 3
  ExportMayFail = FALSE
  Interrupts = TRUE
  Which = 1
  JobTimeout = 2
  ExecuteWait = 3
  NodeSize = 2
  HeaderSize = 3
  MaxAlign = 4
  SizeT = 512
  Memories <- MCMemories
  Requests <- MCRequests
  Line = 16
  BufferSizes = {0, 1, 16, 34, 513}
  SyncStarts = {0, 2, 16}
  SyncCounts = {0, 1, 16, 17, 32, 2047}
  KernelCount = 4
  KernelSize = 80
INVARIANTS
  FreedIsFinished
  StatusIsTheJobs
  DescriptorsAreOwned
  PendingIsLate
  ArenaIsTiled
  FreeBlocksAreJoined
  MetadataIsSafe
  SyncIsSafe
  PoolIsSound
