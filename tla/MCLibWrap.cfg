SPECIFICATION LibrarySpec
CONSTANTS
  JobsMax = 2
  MaxFd = 4
  MaxSubmits = 3
  ExportMayFail = FALSE
  Interrupts = FALSE
  Which = 1
  JobTimeout = 1
  ExecuteWait = 4
  NodeSize = 2
  HeaderSize = 3
  MaxAlign = 4
  SizeT = 512
  Memories <- MCMemories
  Requests <- MCWrapRequests
  Line = 16
  BufferSizes = {511}
  SyncStarts = {0, 2, 16}
  SyncCounts = {0, 1, 16, 17, 32, 2047}
  KernelCount = 4
  KernelSize = 80
INVARIANT
  TooBigIsRefused
