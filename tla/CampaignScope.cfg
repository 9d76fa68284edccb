CONSTANTS
  Drv <- TwoRoots
  OutName = {"out"}
  Path <- TwoRoots
  NoPath = NoPath
  Outputs <- OneOutput
  Edges <- OwnLib
  Candidate = {1, 2}
  CampaignId = {"k1"}
  CampaignOf <- Single
  Attempt = {1, 2, 3}
  NoDrv = NoDrv
  NoAttempt = NoAttempt
  Recipe <- PlainRecipe
  Policies <- Serial
  Commands = {"run", "cancel", "retry", "build-once", "queue-replan", "exclude-kernels", "exclude-toolchains"}
  Releases = {"old", "new"}
  MaxJobs = 2
  RemoteSlots = 0
  RemoteCapable = {}
  Fragile = {"lib"}
  Cached = {}
  Checked = {}
  KernelDrv = {"r2"}
  ToolchainDrv = {"lib"}
  KernelCandidate = {2}
SPECIFICATION Spec
 
PROPERTIES OutOfScopeStaysOut
