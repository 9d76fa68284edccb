CONSTANTS
  Drv <- MCDrv
  OutName <- MCOutName
  Path <- MCPath
  NoPath = "NoPath"
  Outputs <- MCOutputs
  EdgeChoices <- MCEdgeChoices
  Attempt = {1, 2, 3, 4, 5, 6}
  MaxJobs = 4
  Cores = 7
  Cpus = 30
  RemoteSlots = 2
  LegacyLimits <- MCLegacyLimits
  Reader = {"r1", "r2"}
  Walker = {"w1", "w2"}
  MaxVersion = 3
  MaxFailed = 1
  Node = {1, 2, 3, 4, 5}
  ParentChoices <- MCParentChoices
  RootChoices <- MCRootChoices
  ScopeChoices <- MCScopeChoices
  MaxLive = 3
  MaxPath = 3
  Queries = 3
  MaxAttempts = 3
  PageSize = 1
  Entry = {1, 2, 3}
  Now = 3
  TimelineLimit = 1
  Buckets = 2
  Opener = {"o1", "o2"}
  SchemaTables <- MCSchemaTables
  Region = {"summary", "graph"}
  MaxRevision = 3
  MaxLost = 1
  Step <- MCStep
  LogRecords = 8
  Client = {"c1", "c2"}
  OpChoices <- MCOpChoices
  Backlog = 1
  MaxKills = 1
SPECIFICATION PartsSpec
INVARIANTS SearchIsExact UpgradeSound EndIsShown PicturesTrue VerdictsTrue CommandsSound
PROPERTIES BudgetKept RankingSound PartsProgress
CHECK_DEADLOCK FALSE
