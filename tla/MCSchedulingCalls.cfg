CONSTANTS
  recurring = recurring
  once = once
  onEvent = onEvent
  onPolicy = onPolicy
  Schedules = {once, onEvent}
  Callers = {1, 2}
  Kind <- MCKind
  DependsOn <- MCDependsOn
  MaxAttempts <- MCMaxAttempts
  Retries = 2
  Gated = FALSE
  TimesOut = FALSE
  MaxAbandoned = 1
  PublishFails = FALSE
  Dependents = {recurring, onEvent}
  Caller = 1
  DKind <- MCDKind
  DDependsOn <- MCDDependsOn
  DMaxAttempts <- MCDMaxAttempts
  DGated = TRUE
  DTimesOut = TRUE
  DMaxAbandoned = 1
  DPublishFails = TRUE
SPECIFICATION CallsSpec
INVARIANTS NoneStranded AttemptsBounded
PROPERTY DependentsWait
CHECK_DEADLOCK FALSE
