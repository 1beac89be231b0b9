SPECIFICATION QueuedAheadSpec
CONSTANTS
  JobsMax = 4
  MaxFd = 6
  MaxSubmits = 4
  ExportMayFail = FALSE
  Interrupts = FALSE
  Which = 0
  JobTimeout = 1
  ExecuteWait = 4
  NodeSize = 2
  HeaderSize = 3
  MaxAlign = 4
  SizeT = 512
  Memories <- MCMemories
  Requests <- MCRequests
  Line = 16
  BufferSizes = {0, 1, 16, 34, 513}
  SyncStarts = {0, 2, 16}
  SyncCounts = {0, 1, 16, 17, 32, 2047}
  KernelCount = 4
  KernelSize = 80
INVARIANT
  ExecuteIsFinal
