CONSTANTS
  Clients = {"c1"}
  NoClient = "nobody"
  MaxJobs = 2
  MaxIoctls = 1
  PromptTeardown = TRUE
  PromptIrq = FALSE
  ResetClearsInterrupts = TRUE
SPECIFICATION HwSpec
INVARIANTS
  ExecAfterOwnConfig
