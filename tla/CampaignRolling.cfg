CONSTANTS
  Drv <- FixDrvs
  OutName = {"out"}
  Path <- FixDrvs
  NoPath = NoPath
  Outputs <- FixOutput
  Edges <- SharedLib
  Candidate = {1, 2}
  CampaignId = {"k1"}
  CampaignOf <- Single
  Attempt = {1, 2, 3}
  NoDrv = NoDrv
  NoAttempt = NoAttempt
  Recipe <- FixRecipe
  Policies <- EitherPolicy
  Commands = {"run", "plan", "queue-replan", "retry", "schedule"}
  Releases = {"new"}
  MaxJobs = 1
  RemoteSlots = 1
  RemoteCapable = {"r1", "r2", "lib", "f1"}
  Fragile = {"lib"}
  Cached = {"lib"}
  Checked = {}
  KernelDrv = {}
  ToolchainDrv = {}
  KernelCandidate = {}
SPECIFICATION Spec
INVARIANTS FallbackOnce
PROPERTIES ReplansSafe
