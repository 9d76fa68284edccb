CONSTANTS
  Drv <- AppDrvs
  OutName = {"out", "dev"}
  Path <- AppPaths
  NoPath = NoPath
  Outputs <- AppOutputs
  Edges <- AppEdges
  Candidate = {1, 2}
  CampaignId = {"k1"}
  CampaignOf <- AppCampaign
  Attempt = {1, 2, 3}
  NoDrv = NoDrv
  NoAttempt = NoAttempt
  Recipe <- AppRecipe
  Policies <- Lookahead
  Commands = {"run", "retry-derivation"}
  Releases = {"new"}
  MaxJobs = 2
  RemoteSlots = 0
  RemoteCapable = {}
  Fragile = {"lib", "tool"}
  Cached = {"lib"}
  Checked = {}
  KernelDrv = {}
  ToolchainDrv = {}
  KernelCandidate = {}
SPECIFICATION DSpec
INVARIANTS PagesTruthful
PROPERTIES DoneStays
