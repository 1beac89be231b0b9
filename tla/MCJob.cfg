CONSTANTS
  Clients = {"c1"}
  NoClient = "nobody"
  MaxJobs = 3
  MaxIoctls = 1
  PromptTeardown = TRUE
SPECIFICATION Spec
INVARIANTS
  ActiveIsUnfinished
  StartedIsHeldOnce
  OneCredit
  CompletionIsHeard
  TimeoutIsArmed
  RemovalRetiresStarted
  StoppedStaysStopped
PROPERTIES
  ImplementsQueue
