CONSTANTS
  Clients = {"c1"}
  NoClient = "nobody"
  MaxJobs = 2
  MaxIoctls = 1
  PromptTeardown = TRUE
  NumCols = 2
SPECIFICATION SimFairSpec
INVARIANTS
  WorkerServesActive
  OkMeansCopied
PROPERTIES
  NoCopyAfterFence
  SimImplementsJob
  HwStopReturns
