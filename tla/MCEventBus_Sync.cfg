CONSTANTS
  e_sync = e_sync
  e_sync2 = e_sync2
  e_urgent = e_urgent
  e_low = e_low
  s_all = s_all
  s_one = s_one
  Events = {e_sync, e_sync2}
  SyncEvents <- MCSync
  Rank <- MCRank
  Subs = {s_all, s_one}
  Selects <- MCSelects
  DeadThreshold = 2
  MaxQueueSize = 2
  HistorySize = 2
  AwaitsAsync = TRUE
  RecordThrows = TRUE
  MaxPub = 3
SPECIFICATION Spec
INVARIANTS StackBalanced MetricsAddUp DeadDetection 
CHECK_DEADLOCK FALSE
