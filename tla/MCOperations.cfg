CONSTANTS
  Domains <- MCDomains
  Database = "database"
  Restorable = {"database", "configuration"}
  Values = {0, 1}
  Callers = {1, 2}
  MaxBackups = 1
  MaxRecoveries = 2
  MaxWrites = 2
  Nothing = Nothing
  Damaged = Damaged
  Processes = {"p"}
  Key <- MCKey
  MaxRetries = 1
  KillMayFail = TRUE
  MaxSpawns = 2
  MaxRestarts = 1
  MaxCalls = 3
  Ids = {"miner"}
  Adapters = {"a1", "a2"}
  Id <- MCId
  Offers <- MCOffers
  Needs <- MCNeeds
  Minimum <- MCMinimum
  Translated = {"a1"}
  Negotiations <- MCNegotiations
  Plugins = {"p", "q"}
  Claims = {}
  Certifications = {1}
  Observations <- MCObservations
  MaxAttempts = 2
  Instances = {1, 2, 3}
  Name <- MCName
  Plugin <- MCPlugin
  Dependencies <- MCDependencies
  WellFormed = {"p", "q"}
  MaxPluginCalls = 2
  Workloads = {"a", "b"}
  Priorities = {50}
  WorkResources = {"r"}
  Samples <- MCSamples
  MaxSamples = 1
  MaxRuns = 2
  Absent <- MCAbsent
  Devices = {"d"}
  Sessions = {1, 2, 3}
  None = 0
  Locations = {"logs", "archives"}
  ArchiveOf <- MCArchiveOf
  Files = {"f", "g"}
  RetentionPolicies <- MCPolicies
  MaxEntries = 3
  MaxArchives = 1
  MaxFiles = 2
  Requests = {1, 2, 3}
  ResourceOf <- MCResourceOf
  OwnerOf <- MCOwnerOf
  Claim <- MCClaim
  Tick = 30
  Threshold = 2
  MaxNow = 2
  MaxGrants = 2
SPECIFICATION OperationsSpec
INVARIANTS   TrustIsEarned WorkIsReady  IndexAgrees
PROPERTIES RecoveryIsWhole OldestGoFirst FairTurns
CHECK_DEADLOCK FALSE
