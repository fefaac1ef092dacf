-------------------------- MODULE HardwareAuthority --------------------------
(* The Hardware Authority (core/hardware_authority): an inventory of devices  *)
(* that discover() reconciles with what the operating system reports, and the *)
(* workflows that move a device's runtime state and its lifecycle stage.      *)
(* discover() copies the registry before it awaits the provider and writes    *)
(* records made of that copy afterwards, so a workflow in between is undone.  *)
(* Raw devices that collide on one id count as one, the last of them.         *)
EXTENDS Integers, FiniteSets

CONSTANTS
  Devices,      \* device ids
  Category,     \* device -> the category that finds it
  Readings,     \* what a discovery may say of a device: [celsius, memory, cuda, smart]
  Workloads,    \* the workloads benchmarks are recorded for
  Owners,       \* the owners of allocations
  Scans,        \* discover() calls that may overlap
  Targets,      \* the runtime states that markState() and its kin are asked for
  MaxErrors,    \* faults recorded of one device
  MaxRecoveries,
  None

VARIABLES
  registry,     \* HardwareRegistry: device -> its record, None when unknown
  reliability,  \* device -> [errors, recoveries]
  benchmarked,  \* BenchmarkRegistry: device -> the workloads with a result
  scans         \* discover() call -> previousById while it awaits the provider, None otherwise

vars == <<registry, reliability, benchmarked, scans>>

RuntimeStates == {"available", "reserved", "busy", "benchmarking", "mining", "ai-workload", "offline", "faulted", "maintenance"}

HardwareAssumption ==
  /\ \A r \in Readings : r.celsius \in Int \union {None} /\ r.memory \in Int \union {None}
  /\ Targets \subseteq RuntimeStates /\ MaxErrors \in Nat /\ MaxRecoveries \in Nat

RuntimeTransitions ==
  [available    |-> {"reserved", "busy", "benchmarking", "mining", "ai-workload", "offline", "faulted", "maintenance"},
   reserved     |-> {"available", "busy", "offline", "faulted"},
   busy         |-> {"available", "faulted", "offline"},
   benchmarking |-> {"available", "faulted"},
   mining       |-> {"available", "faulted", "offline", "maintenance"},
   ai           |-> {"available", "faulted", "offline"},
   offline      |-> {"available", "faulted", "maintenance"},
   faulted      |-> {"maintenance", "offline"},
   maintenance  |-> {"available", "offline", "faulted"}]
TransitionsOf(state) == RuntimeTransitions[IF state = "ai-workload" THEN "ai" ELSE state]
MayRun(from, to) == from = to \/ to \in TransitionsOf(from)

Stages == <<"discovered", "registered", "capability-assessed", "benchmarked", "available", "allocated", "released", "retired">>
ExtraEdges ==
  {<<"available", "allocated">>, <<"available", "retired">>, <<"allocated", "released">>, <<"allocated", "retired">>,
   <<"released", "available">>, <<"released", "allocated">>, <<"released", "retired">>}
\* Mutant: a stage may be skipped.
MutMayAdvance(from, to) ==
  \/ from = to \/ <<from, to>> \in ExtraEdges
  \/ \E i, j \in 1..8 : i < j /\ Stages[i] = from /\ Stages[j] = to

MayAdvance(from, to) ==
  \/ from = to \/ <<from, to>> \in ExtraEdges
  \/ \E i \in 1..7 : Stages[i] = from /\ Stages[i + 1] = to

\* Capability and health assessment, of the categories where they depend on a reading.
Capabilities(d, r) ==
  CASE Category[d] = "cpu" ->
         {"cpu-mining", "general-compute"} \union (IF r.celsius # None THEN {"thermal-monitoring"} ELSE {})
    [] Category[d] = "gpu" ->
         {"general-compute"} \union (IF r.memory # None THEN {"gpu-mining"} ELSE {})
           \union (IF r.cuda \/ (r.memory # None /\ r.memory >= 4096) THEN {"ai-inference"} ELSE {})
           \union (IF r.cuda /\ r.memory # None /\ r.memory >= 8192 THEN {"ai-training"} ELSE {})
           \union (IF r.celsius # None THEN {"thermal-monitoring"} ELSE {})
    [] Category[d] = "asic" -> {"asic-mining"}
    [] OTHER -> {"hardware-telemetry"}

Judged(r, degraded, faulted) ==
  IF r.celsius >= faulted THEN "faulted" ELSE IF r.celsius >= degraded THEN "degraded" ELSE "healthy"
Health(d, r) ==
  CASE Category[d] = "gpu" -> IF r.celsius = None THEN "unknown" ELSE Judged(r, 90, 100)
    [] Category[d] = "cpu" -> IF r.celsius = None THEN "healthy" ELSE Judged(r, 85, 95)
    [] Category[d] = "storage" ->
         (CASE r.smart = "failing" -> "faulted" [] r.smart = "unknown" -> "unknown" [] OTHER -> "healthy")
    [] OTHER -> "healthy"

Known(d) == registry[d] # None
Fresh == [errors |-> 0, recoveries |-> 0]

Init ==
  /\ registry = [d \in Devices |-> None]
  /\ reliability = [d \in Devices |-> Fresh]
  /\ benchmarked = [d \in Devices |-> {}]
  /\ scans = [s \in Scans |-> None]

-----------------------------------------------------------------------------
(* Discovery. *)

Discover(s) ==
  /\ scans[s] = None
  /\ scans' = [scans EXCEPT ![s] = [previousById |-> registry]]
  /\ UNCHANGED <<registry, reliability, benchmarked>>

\* A device that was seen: its reading, in the stage and state of the copy, without an owner.
\* A new one is registered, assessed and made available.
Reconciled(d, existing, reading) ==
  [stage |-> IF existing = None THEN "capability-assessed" ELSE existing.stage,
   state |-> IF existing = None THEN "available" ELSE existing.state,
   owner |-> None, capabilities |-> Capabilities(d, reading), health |-> Health(d, reading)]

\* Each category is asked for on its own, and one that fails reports nothing.
Outcome(failed, seen) == \A d \in DOMAIN seen : Category[d] \notin failed

\* The provider reports what it saw of the categories that did not fail; a device that
\* was known and is missing goes offline, without a check of the transition.
Discovered(s, failed, seen) ==
  /\ scans[s] # None /\ Outcome(failed, seen)
  /\ LET previousById == scans[s].previousById
         new == {d \in DOMAIN seen : previousById[d] = None}
         kept(d) == previousById[d] = None \/ Category[d] \in failed IN
       /\ registry' = [d \in Devices |->
                         IF d \in DOMAIN seen THEN Reconciled(d, previousById[d], seen[d])
                         ELSE IF kept(d) THEN registry[d] ELSE [previousById[d] EXCEPT !.state = "offline"]]
       /\ reliability' = [d \in Devices |-> IF d \in new THEN Fresh ELSE reliability[d]]
  /\ scans' = [scans EXCEPT ![s] = None]
  /\ UNCHANGED benchmarked

\* A provider that rejects makes discover() reject.
DiscoverRejects(s) ==
  /\ scans[s] # None
  /\ scans' = [scans EXCEPT ![s] = None]
  /\ UNCHANGED <<registry, reliability, benchmarked>>

-----------------------------------------------------------------------------
(* Workflows. *)

ApplyRuntimeTransition(d, to) ==
  /\ Known(d) /\ MayRun(registry[d].state, to)
  /\ registry' = [registry EXCEPT ![d].state = to]

AdvanceLifecycle(d, to, owner) ==
  /\ Known(d) /\ MayAdvance(registry[d].stage, to)
  /\ registry' = [registry EXCEPT ![d].stage = to, ![d].owner = owner]

\* reserve(), releaseReservation() and markState() are the same step but for their events.
MarkState(d, to) ==
  /\ ApplyRuntimeTransition(d, to)
  /\ UNCHANGED <<reliability, benchmarked, scans>>

RecordFault(d) ==
  /\ ApplyRuntimeTransition(d, "faulted")
  /\ reliability[d].errors < MaxErrors
  /\ reliability' = [reliability EXCEPT ![d].errors = @ + 1]
  /\ UNCHANGED <<benchmarked, scans>>

RecordRecovery(d) ==
  /\ ApplyRuntimeTransition(d, "maintenance")
  /\ reliability[d].recoveries < MaxRecoveries
  /\ reliability' = [reliability EXCEPT ![d].recoveries = @ + 1]
  /\ UNCHANGED <<benchmarked, scans>>

RecordBenchmark(d, workload) ==
  /\ Known(d)
  /\ benchmarked' = [benchmarked EXCEPT ![d] = @ \union {workload}]
  /\ registry' = IF registry[d].stage = "capability-assessed"
                 THEN [registry EXCEPT ![d].stage = "available"] ELSE registry
  /\ UNCHANGED <<reliability, scans>>

\* A device that is already allocated is allocated again, to whoever asks.
Allocate(d, owner) ==
  /\ AdvanceLifecycle(d, "allocated", owner)
  /\ UNCHANGED <<reliability, benchmarked, scans>>

ReleaseAllocation(d) ==
  /\ AdvanceLifecycle(d, "released", None)
  /\ UNCHANGED <<reliability, benchmarked, scans>>

\* The stage is written before the runtime transition is checked, which may throw.
Retire(d) ==
  /\ Known(d) /\ MayAdvance(registry[d].stage, "retired")
  /\ registry' = [registry EXCEPT ![d].stage = "retired",
                                  ![d].state = IF MayRun(@, "offline") THEN "offline" ELSE @]
  /\ UNCHANGED <<reliability, benchmarked, scans>>

Next ==
  \/ \E s \in Scans :
       \/ Discover(s) \/ DiscoverRejects(s)
       \/ \E failed \in SUBSET {Category[d] : d \in Devices}, D \in SUBSET Devices :
            \E seen \in [D -> Readings] : Discovered(s, failed, seen)
  \/ \E d \in Devices :
       \/ \E to \in Targets : MarkState(d, to)
       \/ RecordFault(d) \/ RecordRecovery(d) \/ ReleaseAllocation(d) \/ Retire(d)
       \/ \E w \in Workloads : RecordBenchmark(d, w)
       \/ \E o \in Owners : Allocate(d, o)

Spec == Init /\ [][Next]_vars

-----------------------------------------------------------------------------
(* Suitability, in sixtieths of the mean's three factors. *)

Stability(d) ==
  LET r == reliability[d] IN
  IF r.errors = 0 \/ r.recoveries >= r.errors THEN 60 ELSE (60 * r.recoveries) \div r.errors

Suitability(d, workload) ==
  IF workload \notin registry[d].capabilities THEN 0
  ELSE (CASE registry[d].health = "healthy" -> 60 [] registry[d].health = "degraded" -> 30
          [] registry[d].health = "faulted" -> 0 [] OTHER -> 45)
       + (CASE registry[d].state = "available" -> 60
            [] registry[d].state \in {"offline", "faulted", "maintenance"} -> 0 [] OTHER -> 18)
       + Stability(d)

-----------------------------------------------------------------------------
(* Properties. *)

\* No device is allocated, or offered for it, before a benchmark of it is on record, however
\* discoveries that started earlier and workflows overlap: the stage that recordBenchmark()
\* alone can pass is not passed by writing back a record of the past.
OfferedIsBenchmarked ==
  \A d \in Devices : Known(d) /\ registry[d].stage # "capability-assessed" => benchmarked[d] # {}

\* What detectInventoryInconsistencies() looks for and the workflows keep impossible: a device at
\* work is assessed, and one that names an owner is allocated, or was when it was retired.
OwnersAreStaged ==
  \A d \in Devices : Known(d) =>
    /\ registry[d].stage \notin {"discovered", "registered"}
    /\ registry[d].owner # None => registry[d].stage \in {"allocated", "retired"}

\* What the code does not keep.
\* "Set while a device's lifecycle stage is 'allocated'" (types.ts:132): every discovery drops it.
AllocatedIsOwned == \A d \in Devices : Known(d) /\ registry[d].stage = "allocated" => registry[d].owner # None
\* integrity.ts:31: retire() of a device that is benchmarking, or markState() afterwards.
RetiredIsOffline == \A d \in Devices : Known(d) /\ registry[d].stage = "retired" => registry[d].state = "offline"
\* "must pass through maintenance before being offered for allocation again"
\* (HardwareAuthority.ts:296): not by way of offline, nor when a discovery was under way.
FaultedIsMaintained ==
  [][\A d \in Devices : Known(d) /\ registry[d].state = "faulted" => registry'[d].state \in {"faulted", "maintenance"}]_vars
\* "which available hardware has the highest suitability score" (:246): one that is not available may.
BestIsAvailable ==
  \A d, e \in {x \in Devices : Known(x)}, w \in Workloads :
    w \in registry[e].capabilities /\ Suitability(e, w) < Suitability(d, w) /\ registry[e].state = "available"
      => registry[d].state = "available"
=============================================================================
