CONSTANTS
  Key = {k}
  Value = {v}
  Absent = Absent
  Process = {p1}
  Budget = 1
  Nothing = Nothing
  MaxChanges = 3
  MaxCrashes = 2
  Names <- MCNames
  Traits <- MCTraits
  BatchSize = 3
  Pins = {1, 2}
  MaxRuns = 3
  Script = {"s1", "s2"}
  SourceNames <- MCSourceNames
  Revision = {"p", "q"}
  FirstRevision = "p"
  Harness = {"h1", "h2"}
  Given <- MCGiven
  Variant = 2
  Urls = 1
  AttrOrders <- MCAttrOrders
  RootsOf <- MCRootsOf
  SwaOnly = {"image"}
  RefChoices <- MCRefChoices
  Publishable <- MCPublishable
  Merge <- MCMerge
  Separate <- MCSeparate
  DirectoryOf <- MCDirectoryNames
  Alias <- MCAlias
  MergedTrees <- MCMergedTrees
  SeparateTrees <- MCSeparateTrees
  Lander = {"l1", "l2"}
  ModeOf <- MCModes
  Relevant = {"l1"}
  Shards = 2
  CheckSteps = {"s1", "s2"}
  ShardSteps <- MCShardSteps
  JobChoices <- MCJobChoices
  MaxReports = 3
  MaxFleets = 1
SPECIFICATION ToolsSpec
INVARIANTS ArchiveSound FilesUsable 
PROPERTIES ContractSpec ExportGoesOn
CHECK_DEADLOCK FALSE
