CONSTANTS
  Clients = {"c1", "c2"}
  NoClient = "nobody"
  MaxJobs = 2
  MaxIoctls = 1
  PromptTeardown = TRUE
SPECIFICATION FairSpec
INVARIANTS
  DependencyHeldBack
PROPERTIES
  ImplementsQueue
  EveryJobEnds
