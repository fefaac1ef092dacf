------------------------------- MODULE Facility -------------------------------
(* The resources and the devices of the facility and what their benchmarks    *)
(* say, side by side: they share no state, so each behaviour is one of the    *)
(* component in focus, and the others stay in an initial state.               *)
EXTENDS ResourceAuthority

CONSTANTS
  Absent, Invalid,                                                                \* for what is not there, or no number
  HardwareUnits, Category, Readings, UnitWorkloads, Holders, Scans, Targets, MaxErrors, MaxRecoveries,   \* hardware
  PowerUnits, Domain, Idle, Rated, Samples, PowerBatches, Workload, Budgets, Scopes, Limits, MaxPowerPoints,   \* power
  ThermalUnits, DeviceType, Idles, BudgetsOf, Default, ThermalBatches, MaxThermalPoints,   \* thermal
  Runs, Types, Components, Definitions, Results, Signals, Threshold, MaxOpen, MaxFaults, MaxNow   \* benchmarks

VARIABLES
  focus,
  registry, reliability, benchmarked, scans,                                       \* hardware
  powerProfiles, accounts, powerHistory, workloads, powerBudgets, recommendations, budgetHeard,   \* power
  thermalProfiles, history, budgets, forecasts, advice, anomalies, heard,                 \* thermal
  catalog, runs, raw, knowledge, comparisons, suggested, now                              \* benchmarks

hardwareVars == <<registry, reliability, benchmarked, scans>>
powerVars == <<powerProfiles, accounts, powerHistory, workloads, powerBudgets, recommendations, budgetHeard>>
thermalVars == <<thermalProfiles, history, budgets, forecasts, advice, anomalies, heard>>
benchmarkVars == <<catalog, runs, raw, knowledge, comparisons, suggested, now>>

H == INSTANCE HardwareAuthority WITH
       Devices <- HardwareUnits, Workloads <- UnitWorkloads, Owners <- Holders, None <- Absent
P == INSTANCE PowerAuthority WITH
       Devices <- PowerUnits, Batches <- PowerBatches, MaxHistory <- MaxPowerPoints, None <- Absent,
       profiles <- powerProfiles, history <- powerHistory, budgets <- powerBudgets, heard <- budgetHeard
T == INSTANCE ThermalAuthority WITH
       Devices <- ThermalUnits, Batches <- ThermalBatches, MaxHistory <- MaxThermalPoints, None <- Absent,
       profiles <- thermalProfiles
B == INSTANCE BenchmarkAuthority WITH None <- Absent, recommendations <- suggested

ASSUME FacilityAssumption ==
  H!HardwareAssumption /\ P!PowerAssumption /\ T!ThermalAssumption /\ B!BenchmarkAssumption

facilityVars == <<focus, vars, hardwareVars, powerVars, thermalVars, benchmarkVars>>

FacilityInit ==
  /\ focus \in {"resources", "hardware", "power", "thermal", "benchmarks"}
  /\ Init /\ H!Init /\ P!Init /\ T!Init /\ B!Init

FacilityNext ==
  /\ UNCHANGED focus
  /\ IF focus = "resources" THEN Next ELSE UNCHANGED vars
  /\ IF focus = "hardware" THEN H!Next ELSE UNCHANGED hardwareVars
  /\ IF focus = "power" THEN P!Next ELSE UNCHANGED powerVars
  /\ IF focus = "thermal" THEN T!Next ELSE UNCHANGED thermalVars
  /\ IF focus = "benchmarks" THEN B!Next ELSE UNCHANGED benchmarkVars

FacilitySpec == FacilityInit /\ [][FacilityNext]_facilityVars

\* A device is offered after a benchmark only, and its owner is that of its stage.
OfferedIsBenchmarked == focus = "hardware" => H!OfferedIsBenchmarked /\ H!OwnersAreStaged
\* A device's profile, stage and budget follow from what was measured, and a hot device is announced
\* and advised about.
ReadingsAreHeard ==
  /\ focus = "power" => P!ProfilesTellHistory /\ P!StagesAreEarned /\ P!BudgetsAreHeard
  /\ focus = "thermal" => T!DangerIsHeard /\ T!DangerIsAdvised /\ T!StagesAreEarned /\ T!ExtremesCover
\* Benchmarks: results are stored once, and compared with the latest comparable ones.
BaselinesAreStored == focus = "benchmarks" => B!LatestIsBaseline /\ B!StoredOnce
=============================================================================
