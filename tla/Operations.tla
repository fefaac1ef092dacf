------------------------------ MODULE Operations ------------------------------
(* The mining stack and the recovery of what the platform keeps, side by      *)
(* side: they share no state, so each behaviour is one of the component in    *)
(* focus, and the others stay in an initial state.  TLC checks them all in    *)
(* one run, and a theorem about one is a theorem about the whole.             *)
EXTENDS ResilienceAuthority, Integers

CONSTANTS
  Processes, Key, MaxRetries, KillMayFail, MaxSpawns, MaxRestarts, MaxCalls,       \* processes
  Ids, Adapters, Id, Offers, Needs, Minimum, Translated, Negotiations,             \* adapters
  Plugins, Claims, Certifications, Observations, MaxAttempts,                      \* plugins
  Instances, Name, Plugin, Dependencies, WellFormed, MaxPluginCalls,
  Workloads, Priorities, WorkResources, Samples, MaxSamples, MaxRuns, Absent,      \* workloads
  Devices, Sessions, None,                                                         \* sessions
  Locations, ArchiveOf, Files, RetentionPolicies, MaxEntries, MaxArchives, MaxFiles,  \* storage
  Requests, ResourceOf, OwnerOf, Claim, Tick, Threshold, MaxNow, MaxGrants         \* arbitration

VARIABLES
  focus,
  procs, claims, processes, held, spawned, reserved, processCalls, unkilled,       \* processes
  registry, adapterStages, certification, backend, adapterCalls, incapable,        \* adapters
  certifications, updated, pipelines, filed, stages, pluginCalls, hosted,          \* plugins
  profiles, history, telemetry, advice,                                            \* workloads
  framework, sessions, owners, leases, pending, mining,                            \* sessions
  entries, index, directories, archives, stored,                                   \* storage
  now, firstSeen, grants, round, asking                                            \* arbitration

processVars == <<procs, claims, processes, held, spawned, reserved, processCalls, unkilled>>
adapterVars == <<registry, adapterStages, certification, backend, adapterCalls, incapable>>
pluginVars  == <<certifications, updated, pipelines, filed, stages, pluginCalls, hosted>>
workloadVars == <<profiles, history, telemetry, advice>>
sessionVars == <<framework, sessions, owners, leases, pending, mining>>
storageVars == <<entries, index, directories, archives, stored>>
arbitrationVars == <<now, firstSeen, grants, round, asking>>

P == INSTANCE MinerProcessManager WITH live <- processes, calls <- processCalls
A == INSTANCE MiningAdapterFramework WITH Requests <- Negotiations, stages <- adapterStages, calls <- adapterCalls
G == INSTANCE MiningPluginRuntime WITH MaxCalls <- MaxPluginCalls, calls <- pluginCalls
W == INSTANCE WorkloadAuthority WITH Resources <- WorkResources
S == INSTANCE MiningSessions WITH kind <- framework, claims <- owners
T == INSTANCE StorageAuthority WITH None <- Nothing, Policies <- RetentionPolicies
R == INSTANCE ArbitrationAuthority WITH None <- Nothing

ASSUME OperationsAssumption ==
  /\ P!MinerProcessAssumption /\ A!MiningAdapterAssumption
  /\ G!MiningPluginCertificationAssumption /\ G!MiningPluginRuntimeAssumption
  /\ W!WorkloadAssumption /\ S!MiningSessionsAssumption /\ T!StorageAssumption /\ R!ArbitrationAssumption

operationsVars == <<focus, vars, processVars, adapterVars, pluginVars, workloadVars, sessionVars,
                    storageVars, arbitrationVars>>

OperationsInit ==
  /\ focus \in {"resilience", "processes", "adapters", "plugins", "workloads", "sessions", "storage",
               "arbitration"}
  /\ Init /\ P!Init /\ A!Init /\ G!Init /\ W!Init /\ S!Init /\ T!Init /\ R!Init
  /\ focus = "resilience" \/ \A d \in D : state[d] = 0
  /\ focus = "sessions" \/ framework = "cpu"

OperationsNext ==
  /\ UNCHANGED focus
  /\ IF focus = "resilience" THEN Next ELSE UNCHANGED vars
  /\ IF focus = "processes" THEN P!Next ELSE UNCHANGED processVars
  /\ IF focus = "adapters" THEN A!Next ELSE UNCHANGED adapterVars
  /\ IF focus = "plugins" THEN G!Next ELSE UNCHANGED pluginVars
  /\ IF focus = "workloads" THEN W!Next ELSE UNCHANGED workloadVars
  /\ IF focus = "sessions" THEN S!Next ELSE UNCHANGED sessionVars
  /\ IF focus = "storage" THEN T!Next ELSE UNCHANGED storageVars
  /\ IF focus = "arbitration" THEN R!Next ELSE UNCHANGED arbitrationVars

OperationsSpec == OperationsInit /\ [][OperationsNext]_operationsVars

\* No process, adapter or plugin is left in a stage on the way that nothing would end.
NoneLeftBehind ==
  /\ focus = "processes" => P!NoneLeftBehind
  /\ focus = "adapters" => A!NoneLeftBehind
  /\ focus = "plugins" => G!NoneLeftBehind
\* The trust in a plugin is earned, by a pipeline that nothing else interfered with.
TrustIsEarned == focus = "plugins" => G!TrustIsEarned /\ G!PipelineOwned
\* A workload at work was ready for it, has one outcome, and was advised accordingly.
WorkIsReady ==
  focus = "workloads" => W!WorkIsReady /\ W!OneOutcome /\ W!AdviceHolds /\ W!DelayKnown
\* A device is owned by the session at work on it, and a grant is given back once.
DevicesAreOwned == focus = "sessions" => S!DevicesAreOwned /\ S!GrantsAreKept
\* The registry of locations agrees with itself, and with the archives that were made.
IndexAgrees == focus = "storage" => T!IndexAgrees /\ T!BackedUpIsArchived
\* No file is lost from an archive, and only the oldest from a directory.
OldestGoFirst == [][focus = "storage" => T!OldestGo]_storageVars
\* Requests are served in turn, and those that starve first.
FairTurns == [][focus = "arbitration" /\ now' = now => R!NoneJumps /\ R!RelievedFirst]_arbitrationVars
=============================================================================
