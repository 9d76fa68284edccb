CONSTANTS
  Drv <- TwoRoots
  OutName = {"out"}
  Path <- TwoRoots
  NoPath = NoPath
  Outputs <- OneOutput
  Edges <- SharedLib
  Candidate = {1, 2}
  CampaignId = {"k1"}
  CampaignOf <- Single
  Attempt = {1, 2, 3, 4}
  NoDrv = NoDrv
  NoAttempt = NoAttempt
  Recipe <- PlainRecipe
  Policies <- RollingOnly
  Commands = {"run"}
  Releases = {"new"}
  MaxJobs = 1
  RemoteSlots = 1
  RemoteCapable = {"r1", "lib"}
  Fragile = {}
  Cached = {}
  Checked = {}
  KernelDrv = {}
  ToolchainDrv = {}
  KernelCandidate = {}
SPECIFICATION FairSpec
PROPERTIES Quiesces
