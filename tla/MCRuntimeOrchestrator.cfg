\* Pause, resume and maintenance overlap with one boot, shutdown, recovery or
\* restart at a time.
CONSTANTS
  bus = bus
  config = config
  hardware = hardware
  EventBus = bus
  Components = {bus, config}
  Dependencies <- MCDependencies
  Callers = {k1, k2}
  Operations = {"boot", "requestShutdown", "restartPlatform", "restartComponent", "requestMaintenance", "pause", "resume", "recover"}
  Overlapping = {"pause", "resume"}
  Partial = {FALSE, TRUE}
  InOrder = TRUE
SPECIFICATION Spec
SYMMETRY Symmetric
 
PROPERTIES DependenciesFirst DependentsFirst StrictBoot
CHECK_DEADLOCK FALSE
