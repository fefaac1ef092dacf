CONSTANTS
  e_sync = e_sync
  e_sync2 = e_sync2
  e_urgent = e_urgent
  e_low = e_low
  s_all = s_all
  s_one = s_one
  Events = {e_sync, e_urgent, e_low}
  SyncEvents <- MCSync
  Rank <- MCRank
  Subs = {s_all}
  Selects <- MCSelects
  DeadThreshold = 2
  MaxQueueSize = 2
  HistorySize = 2
  AwaitsAsync = FALSE
  RecordThrows = FALSE
  MaxPub = 3
SPECIFICATION FairSpec
INVARIANTS TypeOK SingleDrain AuditedInOrder
PROPERTY EveryPublicationSettles
CHECK_DEADLOCK FALSE
