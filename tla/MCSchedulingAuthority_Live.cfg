CONSTANTS
  recurring = recurring
  once = once
  onEvent = onEvent
  onPolicy = onPolicy
  Schedules = {recurring, once}
  Callers = {1, 2}
  Kind <- MCKind
  DependsOn <- MCDependsOn
  MaxAttempts <- MCMaxAttempts
  Retries = 0
  Gated = FALSE
  TimesOut = FALSE
  MaxAbandoned = 1
  PublishFails = FALSE
SPECIFICATION LiveSpec
PROPERTY KeepsRunning
CHECK_DEADLOCK FALSE
