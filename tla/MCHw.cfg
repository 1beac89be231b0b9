CONSTANTS
  Clients = {"c1"}
  NoClient = "nobody"
  MaxJobs = 3
  MaxIoctls = 1
  PromptTeardown = TRUE
  PromptIrq = TRUE
  ResetClearsInterrupts = FALSE
SPECIFICATION HwSpec
INVARIANTS
  ExecAfterOwnConfig
  OkMeansExecuted
  InterruptIsNotLost
PROPERTIES
  HwImplementsJob
