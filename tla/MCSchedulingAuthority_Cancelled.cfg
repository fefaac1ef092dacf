CONSTANTS
  recurring = recurring
  once = once
  onEvent = onEvent
  onPolicy = onPolicy
  Schedules = {recurring}
  Callers = {1}
  Kind <- MCKind
  DependsOn <- MCDependsOn
  MaxAttempts <- MCMaxAttempts
  Retries = 0
  Gated = FALSE
  TimesOut = FALSE
  MaxAbandoned = 1
  PublishFails = FALSE
SPECIFICATION Spec
PROPERTY CancelIsTerminal
CHECK_DEADLOCK FALSE
