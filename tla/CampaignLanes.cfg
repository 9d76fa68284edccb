CONSTANTS
  Drv <- TwoRoots
  OutName = {"out"}
  Path <- TwoRoots
  NoPath = NoPath
  Outputs <- OneOutput
  Edges <- SharedLib
  Candidate = {1, 2, 3, 4}
  CampaignId = {"k1", "k2"}
  CampaignOf <- Cross
  Attempt = {1, 2, 3, 4}
  NoDrv = NoDrv
  NoAttempt = NoAttempt
  Recipe <- AliasRecipe
  Policies <- TwoLanes
  Commands = {"run", "cancel", "retry-derivation"}
  Releases = {"new"}
  MaxJobs = 2
  RemoteSlots = 0
  RemoteCapable = {}
  Fragile = {"lib"}
  Cached = {}
  Checked = {"r1", "lib"}
  KernelDrv = {}
  ToolchainDrv = {}
  KernelCandidate = {}
SPECIFICATION Spec
INVARIANTS LanesExclusive CandidatesAgree EvidenceTrue 
PROPERTIES NothingUnasked
