CONSTANTS
  a = a
  b = b
  x = x
  y = y
  Ids = {a, b}
  Values = {x, y}
  Paths = {"main", "backup"}
  Main = "main"
  SchemaVersion = 2
  Hop <- MCHop
  Nothing = Nothing
  Invalid = Invalid
  MaxRevision = 1
  MaxAudit = 2
  MaxFrames = 2
  MaxMarks = 4
  MaxFiled = 1
  Keys = {"token"}
  PluginKeys = {"plugin"}
  Mutability <- MCMutability
  Masked = {"token"}
  Settings = {1, 2}
  Accepts <- MCAccepts
  Defaults <- MCDefaults
  Conflicts <- MCConflicts
  Checkers <- MCCheckers
  Migration <- MCMigration
  Redacted = Redacted
  MaxSupplies = 1
  MaxLoads = 3
  Notifications = {1, 2}
  NoticeTypes <- MCNoticeTypes
  Channels = {"console", "pager"}
  Digest <- MCDigest
  MaxAttempts = 8
  ArtifactTypes = {"configuration-schema", "database-schema"}
  Semvers = {"v1", "v2"}
  Artifacts <- MCArtifacts
  Changes <- MCChanges
  Migrations = {1, 2}
  Schema <- MCSchema
  Recovers = {"database-schema"}
  Throwing = FALSE
  MaxRelationships = 2
  MaxSnapshots = 2
  Certifications = {1}
  Hardware = {"g"}
  Levels = {"experimental", "production"}
  Requirements <- MCRequirements
  Observations = {"b", "h", "i"}
  TypeOf <- MCTypeOf
  Metrics <- MCMetrics
  MaxObserved = 2
  Identities <- MCIdentities
  Batches <- MCBatches
  Weightings <- MCWeightings
  DefaultWeights <- MCDefaultWeights
  MaxAssessments = 3
  MaxProfiles = 2
SPECIFICATION MCSpec
INVARIANTS    AttemptsKept  EvidenceStands
PROPERTIES KeepsNesting KeepsPromise
CHECK_DEADLOCK FALSE
