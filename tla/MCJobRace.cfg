CONSTANTS
  Clients = {"c1"}
  NoClient = "nobody"
  MaxJobs = 2
  MaxIoctls = 2
  PromptTeardown = TRUE
SPECIFICATION Spec
INVARIANTS
  DependencyHeldBack
