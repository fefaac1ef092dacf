CONSTANTS
  alice = alice
  bob = bob
  gpu = gpu
  Resources = {gpu}
  Owners = {alice, bob}
  Capacities = {1, 2}
  Priorities = {0, 1}
  Calls = {"releaseBoth", "resize"}
  MaxRequests = 2
  Invalid = Invalid
  Absent = Absent
  HardwareUnits = {"g"}
  Category <- MCCategory
  Readings <- MCReadings
  UnitWorkloads = {"ai-inference"}
  Holders = {"o"}
  Scans = {1, 2}
  Targets = {"available", "mining"}
  MaxErrors = 1
  MaxRecoveries = 1
  PowerUnits = {"g", "c"}
  Domain <- MCDomain
  Idle <- MCIdle
  Rated <- MCRated
  Samples <- MCSamples
  PowerBatches <- MCPowerBatches
  Workload <- MCWorkload
  Budgets = {"b"}
  Scopes = {"platform"}
  Limits = {100}
  MaxPowerPoints = 2
  ThermalUnits = {"g"}
  DeviceType = "gpu"
  Idles <- MCIdles
  BudgetsOf <- MCBudgetsOf
  Default <- MCDefault
  ThermalBatches <- MCThermalBatches
  MaxThermalPoints = 3
  Runs = {1, 2, 3}
  Types = {"t"}
  Components = {"gpu"}
  Definitions <- MCDefinitions
  Results <- MCResults
  Signals = {300}
  Threshold = 5
  MaxOpen = 1
  MaxFaults = 1
  MaxNow = 1
SPECIFICATION FacilitySpec
SYMMETRY Symmetry
INVARIANTS  ReservationPrecedence CountersCover   BaselinesAreStored
PROPERTY GrantsFit
CHECK_DEADLOCK FALSE
