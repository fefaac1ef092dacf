---------------------------- MODULE Facility_proofs ----------------------------
(* Theorems about the facility, for any devices, owners, benchmark runs and    *)
(* bounds.                                                                      *)
EXTENDS Facility, TLAPS, FiniteSetTheorems, SequenceTheorems, WellFoundedInduction

----------------------------------------------------------------------------
(* Hardware.  A record says of a device only what was true when it was made,   *)
(* and stays true: benchmarks are never taken back, so a copy that discover()  *)
(* writes back is as good as the record it overwrites.                         *)

IsUnit(r) ==
  r = [stage |-> r.stage, state |-> r.state, owner |-> r.owner, capabilities |-> r.capabilities, health |-> r.health]
Staged(r, results) ==
  /\ r.stage \notin {"discovered", "registered"}
  /\ r.owner # Absent => r.stage \in {"allocated", "retired"}
  /\ r.stage # "capability-assessed" => results # {}
Sound(copy) == \A d \in HardwareUnits : copy[d] # Absent => IsUnit(copy[d]) /\ Staged(copy[d], benchmarked[d])

HardwareInv ==
  /\ registry = [d \in HardwareUnits |-> registry[d]] /\ benchmarked = [d \in HardwareUnits |-> benchmarked[d]]
  /\ scans = [s \in Scans |-> scans[s]]
  /\ Sound(registry)
  /\ \A s \in Scans : scans[s] # Absent => Sound(scans[s].previousById)

LEMMA HardwareStarts == H!Init => HardwareInv
  BY DEF H!Init, HardwareInv, Sound

\* The stages of the workflows are not reached from before a benchmark.
LEMMA AdvancesBenchmarked ==
  ASSUME NEW from, NEW to \in {"allocated", "released", "retired"}, H!MayAdvance(from, to)
  PROVE  from \notin {"discovered", "registered", "capability-assessed"}
  <1>1. CASE from = to \/ <<from, to>> \in H!ExtraEdges
    BY <1>1 DEF H!ExtraEdges
  <1>2. ASSUME NEW i \in 1..7, H!Stages[i] = from, H!Stages[i + 1] = to
        PROVE  from \notin {"discovered", "registered", "capability-assessed"}
    <2>1. i \in {1, 2, 3, 4, 5, 6, 7}
      BY <1>2
    <2> QED
      BY <1>2, <2>1 DEF H!Stages
  <1> QED
    BY <1>1, <1>2 DEF H!MayAdvance

\* What a unit is with another stage and owner, or stage and state.
LEMMA UnitChanged ==
  ASSUME NEW u, IsUnit(u), NEW x, NEW y
  PROVE  /\ [[u EXCEPT !.stage = x] EXCEPT !.owner = y] =
              [stage |-> x, state |-> u.state, owner |-> y, capabilities |-> u.capabilities, health |-> u.health]
         /\ [[u EXCEPT !.stage = x] EXCEPT !.state = y] =
              [stage |-> x, state |-> y, owner |-> u.owner, capabilities |-> u.capabilities, health |-> u.health]
  <1> DEFINE v == [u EXCEPT !.stage = x]
  <1>1. v = [stage |-> x, state |-> u.state, owner |-> u.owner, capabilities |-> u.capabilities, health |-> u.health]
    BY DEF IsUnit
  <1> HIDE DEF v
  <1>2. /\ [v EXCEPT !.owner = y] =
              [stage |-> x, state |-> u.state, owner |-> y, capabilities |-> u.capabilities, health |-> u.health]
        /\ [v EXCEPT !.state = y] =
              [stage |-> x, state |-> y, owner |-> u.owner, capabilities |-> u.capabilities, health |-> u.health]
    BY <1>1
  <1> QED
    BY <1>2, Zenon DEF v

\* The record of one device is replaced by another that is sound.
LEMMA OneUnit ==
  ASSUME HardwareInv, NEW d \in HardwareUnits, NEW r, registry' = [registry EXCEPT ![d] = r],
         r # Absent => IsUnit(r) /\ Staged(r, benchmarked[d]), UNCHANGED <<benchmarked, scans>>
  PROVE  HardwareInv'
  <1>1. Sound(registry)'
    BY DEF HardwareInv, Sound
  <1> QED
    BY <1>1 DEF HardwareInv, Sound

\* Results are added, which makes nothing unsound.
LEMMA ResultsStay ==
  ASSUME NEW copy, Sound(copy), NEW d \in HardwareUnits, NEW w, benchmarked' = [benchmarked EXCEPT ![d] = @ \cup {w}],
         benchmarked = [e \in HardwareUnits |-> benchmarked[e]]
  PROVE  Sound(copy)'
  <1>1. \A e \in HardwareUnits : benchmarked[e] \subseteq benchmarked'[e]
    OBVIOUS
  <1> QED
    BY <1>1 DEF Sound, Staged

LEMMA MarkKeeps ==
  ASSUME HardwareInv, NEW d \in HardwareUnits, NEW to, H!ApplyRuntimeTransition(d, to), UNCHANGED <<benchmarked, scans>>
  PROVE  HardwareInv'
  <1>1. registry[d] # Absent /\ registry' = [registry EXCEPT ![d] = [registry[d] EXCEPT !.state = to]]
    BY DEF H!ApplyRuntimeTransition, H!Known
  <1>2. IsUnit(registry[d]) /\ Staged(registry[d], benchmarked[d])
    BY <1>1 DEF HardwareInv, Sound
  <1> DEFINE r == [registry[d] EXCEPT !.state = to]
  <1>3. /\ r = [stage |-> registry[d].stage, state |-> to, owner |-> registry[d].owner,
                capabilities |-> registry[d].capabilities, health |-> registry[d].health]
    BY <1>2 DEF IsUnit
  <1>4. IsUnit(r) /\ Staged(r, benchmarked[d])
    BY <1>2, <1>3 DEF IsUnit, Staged
  <1> QED
    BY <1>1, <1>4, OneUnit

LEMMA AdvanceKeeps ==
  ASSUME HardwareInv, NEW d \in HardwareUnits, NEW owner, NEW to \in {"allocated", "released"},
         H!AdvanceLifecycle(d, to, owner), to = "released" => owner = Absent, UNCHANGED <<benchmarked, scans>>
  PROVE  HardwareInv'
  <1> DEFINE r == [[registry[d] EXCEPT !.stage = to] EXCEPT !.owner = owner]
  <1>1. registry[d] # Absent /\ H!MayAdvance(registry[d].stage, to)
        /\ registry' = [registry EXCEPT ![d].stage = to, ![d].owner = owner]
    BY DEF H!AdvanceLifecycle, H!Known
  <1>2. IsUnit(registry[d]) /\ Staged(registry[d], benchmarked[d])
    BY <1>1 DEF HardwareInv, Sound
  <1>3. registry' = [registry EXCEPT ![d] = r]
    BY <1>1 DEF HardwareInv
  <1>4. r = [stage |-> to, state |-> registry[d].state, owner |-> owner,
             capabilities |-> registry[d].capabilities, health |-> registry[d].health]
    <2>1. [[registry[d] EXCEPT !.stage = to] EXCEPT !.owner = owner] =
            [stage |-> to, state |-> registry[d].state, owner |-> owner,
             capabilities |-> registry[d].capabilities, health |-> registry[d].health]
      <3>1. PICK u : u = registry[d]
        OBVIOUS
      <3>2. IsUnit(u)
        BY <1>2, <3>1
      <3>3. [[u EXCEPT !.stage = to] EXCEPT !.owner = owner] =
              [stage |-> to, state |-> u.state, owner |-> owner, capabilities |-> u.capabilities, health |-> u.health]
        BY <3>2, UnitChanged
      <3> QED
        BY <3>1, <3>3
    <2> QED
      BY <2>1
  <1>5. benchmarked[d] # {}
    BY <1>1, <1>2, AdvancesBenchmarked DEF Staged
  <1>6. IsUnit(r) /\ Staged(r, benchmarked[d])
    BY <1>4, <1>5 DEF IsUnit, Staged
  <1> QED
    BY <1>3, <1>6, OneUnit

LEMMA RetireKeeps ==
  ASSUME HardwareInv, NEW d \in HardwareUnits, H!Retire(d)
  PROVE  HardwareInv'
  <1> DEFINE state == IF H!MayRun(registry[d].state, "offline") THEN "offline" ELSE registry[d].state
             r == [[registry[d] EXCEPT !.stage = "retired"] EXCEPT !.state = state]
  <1>1. /\ registry[d] # Absent /\ H!MayAdvance(registry[d].stage, "retired") /\ UNCHANGED <<benchmarked, scans>>
        /\ registry' = [registry EXCEPT ![d].stage = "retired",
                                        ![d].state = IF H!MayRun(@, "offline") THEN "offline" ELSE @]
    BY DEF H!Retire, H!Known
  <1>2. IsUnit(registry[d]) /\ Staged(registry[d], benchmarked[d])
    BY <1>1 DEF HardwareInv, Sound
  <1>3. registry' = [registry EXCEPT ![d] = r]
    BY <1>1, <1>2 DEF HardwareInv, IsUnit
  <1>4. r = [stage |-> "retired", state |-> state, owner |-> registry[d].owner,
             capabilities |-> registry[d].capabilities, health |-> registry[d].health]
    BY <1>2, UnitChanged
  <1>5. benchmarked[d] # {}
    BY <1>1, <1>2, AdvancesBenchmarked DEF Staged
  <1>6. IsUnit(r) /\ Staged(r, benchmarked[d])
    <2> HIDE DEF state
    <2> QED
      BY <1>4, <1>5 DEF IsUnit, Staged
  <1> QED
    BY <1>1, <1>3, <1>6, OneUnit

LEMMA BenchmarkKeeps ==
  ASSUME HardwareInv, NEW d \in HardwareUnits, NEW w, H!RecordBenchmark(d, w)
  PROVE  HardwareInv'
  <1>1. /\ registry[d] # Absent /\ scans' = scans /\ benchmarked' = [benchmarked EXCEPT ![d] = @ \cup {w}]
        /\ registry' = IF registry[d].stage = "capability-assessed"
                       THEN [registry EXCEPT ![d] = [registry[d] EXCEPT !.stage = "available"]] ELSE registry
    BY DEF H!RecordBenchmark, H!Known
  <1>2. IsUnit(registry[d]) /\ Staged(registry[d], benchmarked[d]) /\ benchmarked'[d] # {}
    BY <1>1 DEF HardwareInv, Sound
  <1> DEFINE r == [registry[d] EXCEPT !.stage = "available"]
  <1>3. CASE registry[d].stage = "capability-assessed"
    <2>1. r = [stage |-> "available", state |-> registry[d].state, owner |-> registry[d].owner,
               capabilities |-> registry[d].capabilities, health |-> registry[d].health]
      BY <1>2 DEF IsUnit
    <2>2. registry[d].owner = Absent
      BY <1>2, <1>3 DEF Staged
    <2>3. IsUnit(r) /\ Staged(r, benchmarked'[d])
      BY <1>2, <2>1, <2>2 DEF IsUnit, Staged
    <2> HIDE DEF r
    <2>4. registry' = [registry EXCEPT ![d] = r]
      BY <1>1, <1>3 DEF r
    <2>5. Sound(registry)'
      BY <2>3, <2>4, <1>1, ResultsStay DEF HardwareInv, Sound
    <2> QED
      BY <1>1, <2>4, <2>5, ResultsStay DEF HardwareInv
  <1>4. CASE registry[d].stage # "capability-assessed"
    BY <1>1, <1>4, ResultsStay DEF HardwareInv, Sound
  <1> QED
    BY <1>3, <1>4

LEMMA ScanKeeps ==
  ASSUME HardwareInv, NEW s \in Scans, H!Discover(s) \/ H!DiscoverRejects(s)
  PROVE  HardwareInv'
  <1>1. UNCHANGED <<registry, benchmarked>>
    BY DEF H!Discover, H!DiscoverRejects
  <1>2. \/ scans' = [scans EXCEPT ![s] = Absent]
        \/ scans' = [scans EXCEPT ![s] = [previousById |-> registry]]
    BY DEF H!Discover, H!DiscoverRejects
  <1>3. ASSUME NEW e \in Scans, scans'[e] # Absent PROVE Sound(scans'[e].previousById)
    BY <1>2, <1>3 DEF HardwareInv
  <1> QED
    BY <1>1, <1>2, <1>3 DEF HardwareInv, Sound

\* What a discovery writes was in the copy, or is new.
LEMMA DiscoveredKeeps ==
  ASSUME HardwareInv, NEW s \in Scans, NEW failed, NEW seen, H!Discovered(s, failed, seen)
  PROVE  HardwareInv'
  <1> PICK copy : copy = scans[s].previousById
    OBVIOUS
  <1>1. scans[s] # Absent /\ benchmarked' = benchmarked /\ scans' = [scans EXCEPT ![s] = Absent]
    BY DEF H!Discovered
  <1>2. Sound(copy)
    BY <1>1 DEF HardwareInv
  <1>3. registry' = [d \in HardwareUnits |->
                       IF d \in DOMAIN seen THEN H!Reconciled(d, copy[d], seen[d])
                       ELSE IF copy[d] = Absent \/ Category[d] \in failed THEN registry[d]
                       ELSE [copy[d] EXCEPT !.state = "offline"]]
    BY DEF H!Discovered
  <1>4. ASSUME NEW d \in HardwareUnits, registry'[d] # Absent
        PROVE  IsUnit(registry'[d]) /\ Staged(registry'[d], benchmarked[d])
    <2>1. CASE d \in DOMAIN seen
      <3>1. registry'[d] = H!Reconciled(d, copy[d], seen[d])
        BY <1>3, <2>1
      <3>2. /\ IsUnit(registry'[d]) /\ registry'[d].owner = Absent
            /\ registry'[d].stage = IF copy[d] = Absent THEN "capability-assessed" ELSE copy[d].stage
        BY <3>1 DEF H!Reconciled, IsUnit
      <3>3. copy[d] # Absent => Staged(copy[d], benchmarked[d])
        BY <1>2 DEF Sound
      <3> QED
        BY <3>2, <3>3 DEF Staged
    <2>2. CASE d \notin DOMAIN seen /\ (copy[d] = Absent \/ Category[d] \in failed)
      BY <1>3, <1>4, <2>2 DEF HardwareInv, Sound
    <2>3. CASE d \notin DOMAIN seen /\ ~(copy[d] = Absent \/ Category[d] \in failed)
      <3>1. registry'[d] = [copy[d] EXCEPT !.state = "offline"] /\ IsUnit(copy[d]) /\ Staged(copy[d], benchmarked[d])
        BY <1>2, <1>3, <2>3 DEF Sound
      <3>2. registry'[d] = [stage |-> copy[d].stage, state |-> "offline", owner |-> copy[d].owner,
                            capabilities |-> copy[d].capabilities, health |-> copy[d].health]
        BY <3>1 DEF IsUnit
      <3> QED
        BY <3>1, <3>2 DEF IsUnit, Staged
    <2> QED
      BY <2>1, <2>2, <2>3
  <1>5. Sound(registry)'
    BY <1>1, <1>4 DEF Sound
  <1>6. ASSUME NEW e \in Scans, scans'[e] # Absent PROVE Sound(scans'[e].previousById)
    BY <1>1, <1>6 DEF HardwareInv
  <1>7. registry' = [d \in HardwareUnits |-> registry'[d]]
    BY <1>3
  <1> QED
    BY <1>1, <1>5, <1>6, <1>7 DEF HardwareInv, Sound

LEMMA HardwareStep == HardwareInv /\ (H!Next \/ UNCHANGED hardwareVars) => HardwareInv'
  <1> SUFFICES ASSUME HardwareInv, H!Next \/ UNCHANGED hardwareVars
               PROVE  HardwareInv'
    OBVIOUS
  <1>1. CASE UNCHANGED hardwareVars
    BY <1>1 DEF HardwareInv, Sound, hardwareVars
  <1>2. ASSUME NEW s \in Scans, H!Discover(s) \/ H!DiscoverRejects(s) \/ \E failed, seen : H!Discovered(s, failed, seen)
        PROVE  HardwareInv'
    BY <1>2, ScanKeeps, DiscoveredKeeps
  <1>3. ASSUME NEW d \in HardwareUnits,
               (\E to : H!MarkState(d, to)) \/ H!RecordFault(d) \/ H!RecordRecovery(d)
        PROVE  HardwareInv'
    BY <1>3, MarkKeeps DEF H!MarkState, H!RecordFault, H!RecordRecovery
  <1>4. ASSUME NEW d \in HardwareUnits, H!ReleaseAllocation(d) \/ \E o : H!Allocate(d, o)
        PROVE  HardwareInv'
    BY <1>4, AdvanceKeeps DEF H!ReleaseAllocation, H!Allocate
  <1>5. ASSUME NEW d \in HardwareUnits, H!Retire(d) \/ \E w : H!RecordBenchmark(d, w)
        PROVE  HardwareInv'
    BY <1>5, RetireKeeps, BenchmarkKeeps
  <1> QED
    BY <1>1, <1>2, <1>3, <1>4, <1>5 DEF H!Next

(* OfferedIsBenchmarked (core/hardware_authority/src/HardwareAuthority.ts: discover(), recordBenchmark() and
   the workflows): however discoveries overlap with each other and with workflows whose effect they undo, no
   device passes the assessment without a benchmark, and an owner is named by allocated and retired ones only. *)
THEOREM OffersAreBenchmarked == FacilitySpec => []OfferedIsBenchmarked
  <1>1. FacilityInit => HardwareInv
    BY HardwareStarts DEF FacilityInit
  <1>2. HardwareInv /\ [FacilityNext]_facilityVars => HardwareInv'
    <2>1. [FacilityNext]_facilityVars => H!Next \/ UNCHANGED hardwareVars
      BY DEF FacilityNext, facilityVars
    <2> QED
      BY <2>1, HardwareStep
  <1>3. HardwareInv => OfferedIsBenchmarked
    BY DEF HardwareInv, Sound, Staged, OfferedIsBenchmarked, H!OfferedIsBenchmarked, H!OwnersAreStaged, H!Known
  <1> QED
    BY <1>1, <1>2, <1>3, PTL DEF FacilitySpec

----------------------------------------------------------------------------
(* Benchmarks.  A settled run keeps what comparisons are made from, and runs    *)
(* settle in the order of time: what settles after a comparison is no earlier.  *)

IsSettled(r) == runs[r] # Absent /\ runs[r].state \in B!Settled
\* What a settled run keeps, and when it settled.
Lasts ==
  \A o \in Runs :
    /\ IsSettled(o) => /\ IsSettled(o)' /\ runs'[o].type = runs[o].type /\ runs'[o].component = runs[o].component
                       /\ runs'[o].result = runs[o].result /\ runs'[o].stored = runs[o].stored
    /\ IsSettled(o)' /\ ~IsSettled(o) => runs'[o].stored = now

\* What LatestIsBaseline says of one comparison.
Latest(r) ==
  LET c == comparisons[r] IN
  /\ c.baseline = Absent => \A o \in B!Comparable(r) : runs[o].stored >= c.at
  /\ c.baseline # Absent =>
       /\ c.baseline \in B!Comparable(r) /\ runs[c.baseline].stored <= c.at
       /\ \A o \in B!Comparable(r) : runs[o].stored > runs[c.baseline].stored => runs[o].stored >= c.at
       /\ c.class \in {B!Classified(r, c.baseline, higher) : higher \in BOOLEAN}

RunsInv ==
  /\ catalog = [t \in Types |-> catalog[t]] /\ \A t \in Types : catalog[t] # Absent => catalog[t] \in Definitions
  /\ runs = [r \in Runs |-> runs[r]] /\ now \in Nat
  /\ \A r \in Runs : runs[r] # Absent => runs[r] \in B!BenchmarkRun
  /\ \A r \in Runs : IsSettled(r) => runs[r].stored \in Nat /\ runs[r].stored <= now
ComparisonsInv ==
  /\ comparisons = [r \in Runs |-> comparisons[r]]
  /\ \A r \in Runs : comparisons[r] # Absent =>
       /\ IsSettled(r) /\ runs[r].state # "stored"
       /\ comparisons[r] \in B!BenchmarkComparison /\ comparisons[r].at <= now
       /\ Latest(r)
StoredInv ==
  /\ raw = [r \in Runs |-> raw[r]] /\ knowledge = [r \in Runs |-> knowledge[r]] /\ suggested \subseteq Runs
  /\ \A r \in Runs :
       /\ raw[r] = IF IsSettled(r) THEN 1 ELSE 0
       /\ knowledge[r] # Absent => IsSettled(r) /\ knowledge[r].comparison \in {Absent, comparisons[r]}
       /\ r \in suggested => comparisons[r] # Absent /\ knowledge[r].comparison = comparisons[r]
BenchmarkInv == RunsInv /\ ComparisonsInv /\ StoredInv

LEMMA BenchmarksStart == B!Init => BenchmarkInv
  BY DEF B!Init, BenchmarkInv, RunsInv, ComparisonsInv, StoredInv, IsSettled

LEMMA BenchmarksTell == BenchmarkInv => B!LatestIsBaseline /\ B!StoredOnce
  <1> SUFFICES ASSUME BenchmarkInv
               PROVE  B!LatestIsBaseline /\ B!StoredOnce
    OBVIOUS
  <1>1. B!LatestIsBaseline
    BY DEF BenchmarkInv, ComparisonsInv, Latest, IsSettled, B!LatestIsBaseline, B!Created
  <1>2. \A r \in B!Efficient : knowledge[r] # Absent /\ r \in Runs
    BY DEF B!Efficient
  <1>3. B!StoredOnce
    BY <1>2 DEF BenchmarkInv, StoredInv, IsSettled, B!StoredOnce, B!Created
  <1> QED
    BY <1>1, <1>3

\* The stage that is left for another.
LEMMA FollowsOne ==
  ASSUME NEW from, NEW to, B!Follows(from, to)
  PROVE  /\ to = "validated" => from = "created"
         /\ to = "scheduled" => from = "validated"
         /\ to = "executed" => from = "scheduled"
         /\ to = "verified" => from = "executed"
         /\ to = "stored" => from = "verified"
         /\ to = "compared" => from = "stored"
         /\ to = "archived" => from = "compared"
  <1> PICK i \in 1..7 : B!States[i] = from /\ B!States[i + 1] = to
    BY DEF B!Follows
  <1>1. i \in {1, 2, 3, 4, 5, 6, 7}
    OBVIOUS
  <1> QED
    BY <1>1 DEF B!States

LEMMA StagesOfRuns ==
  {B!States[i] : i \in 1..8} = {"created", "validated", "scheduled", "executed", "verified"} \union B!Settled
  <1>1. 1..8 = {1, 2, 3, 4, 5, 6, 7, 8}
    OBVIOUS
  <1> QED
    BY <1>1 DEF B!States, B!Settled

\* A comparison that was right stays right while settled runs last.
LEMMA LatestStays ==
  ASSUME RunsInv, Lasts, NEW r \in Runs, IsSettled(r), Latest(r), comparisons[r].at \in Nat, comparisons[r].at <= now,
         comparisons'[r] = comparisons[r], \A o \in Runs : IsSettled(o)' => runs'[o].stored \in Nat
  PROVE  Latest(r)'
  <1> DEFINE c == comparisons[r]
  <1>1. \A o \in B!Comparable(r)' : o \in Runs /\ IsSettled(o)'
    BY DEF B!Comparable, B!Created, IsSettled
  <1>2. \A o \in B!Comparable(r) : o \in Runs /\ IsSettled(o)
    BY DEF B!Comparable, B!Created, IsSettled
  <1>3. \A o \in B!Comparable(r) : o \in B!Comparable(r)'
    BY <1>2 DEF Lasts, IsSettled, B!Comparable, B!Created
  <1>4. \A o \in B!Comparable(r)' : IsSettled(o) => o \in B!Comparable(r) /\ runs'[o].stored = runs[o].stored
    BY <1>1 DEF Lasts, IsSettled, B!Comparable, B!Created
  <1>5. \A o \in B!Comparable(r)' : ~IsSettled(o) => runs'[o].stored >= c.at
    BY <1>1 DEF Lasts, RunsInv
  <1>6. ASSUME c.baseline = Absent
        PROVE  \A o \in B!Comparable(r)' : runs'[o].stored >= c.at
    BY <1>4, <1>5, <1>6 DEF Latest
  <1>7. ASSUME c.baseline # Absent
        PROVE  /\ c.baseline \in B!Comparable(r)' /\ runs'[c.baseline].stored <= c.at
               /\ \A o \in B!Comparable(r)' : runs'[o].stored > runs'[c.baseline].stored => runs'[o].stored >= c.at
    <2>1. c.baseline \in B!Comparable(r) /\ runs[c.baseline].stored <= c.at
      BY <1>7 DEF Latest
    <2>2. runs'[c.baseline].stored = runs[c.baseline].stored /\ c.baseline \in B!Comparable(r)'
      BY <2>1, <1>2, <1>3 DEF Lasts
    <2> QED
      BY <1>4, <1>5, <1>7, <2>1, <2>2 DEF Latest
  <1>8. ASSUME c.baseline # Absent
        PROVE  c.class \in {B!Classified(r, c.baseline, higher)' : higher \in BOOLEAN}
    <2>1. c.baseline \in Runs /\ IsSettled(c.baseline)
          /\ c.class \in {B!Classified(r, c.baseline, higher) : higher \in BOOLEAN}
      BY <1>2, <1>8 DEF Latest
    <2>2. runs'[r].result = runs[r].result /\ runs'[c.baseline].result = runs[c.baseline].result
      BY <2>1 DEF Lasts
    <2>3. \A higher \in BOOLEAN : B!Classified(r, c.baseline, higher)' = B!Classified(r, c.baseline, higher)
      BY <2>2 DEF B!Classified
    <2> QED
      BY <2>1, <2>3
  <1> QED
    BY <1>6, <1>7, <1>8 DEF Latest

\* One run is replaced by another: settled or not as it was, with what lasts.
LEMMA OneRun ==
  ASSUME BenchmarkInv, NEW r \in Runs, NEW q \in B!BenchmarkRun, q # Absent, runs' = [runs EXCEPT ![r] = q],
         IF IsSettled(r)
         THEN /\ q.state \in B!Settled /\ q.type = runs[r].type /\ q.component = runs[r].component
              /\ q.result = runs[r].result /\ q.stored = runs[r].stored
              /\ runs[r].state # "stored" => q.state # "stored"
         ELSE q.state \notin B!Settled,
         UNCHANGED <<catalog, raw, knowledge, comparisons, suggested, now>>
  PROVE  BenchmarkInv'
  <1>1. \A o \in Runs : o # r => runs'[o] = runs[o] /\ (IsSettled(o)' <=> IsSettled(o))
    BY DEF BenchmarkInv, RunsInv, IsSettled
  <1>2. runs'[r] = q /\ (IsSettled(r)' <=> IsSettled(r))
    BY DEF BenchmarkInv, RunsInv, IsSettled
  <1>3. Lasts
    BY <1>1, <1>2 DEF Lasts
  <1>4. RunsInv'
    BY <1>1, <1>2 DEF BenchmarkInv, RunsInv
  <1>5. ComparisonsInv'
    <2> SUFFICES ASSUME NEW o \in Runs, comparisons[o] # Absent
                 PROVE  /\ IsSettled(o)' /\ runs'[o].state # "stored" /\ Latest(o)'
                        /\ comparisons[o] \in B!BenchmarkComparison /\ comparisons[o].at <= now
      BY DEF BenchmarkInv, ComparisonsInv
    <2>1. /\ IsSettled(o) /\ runs[o].state # "stored" /\ Latest(o)
          /\ comparisons[o] \in B!BenchmarkComparison /\ comparisons[o].at <= now
      BY DEF BenchmarkInv, ComparisonsInv
    <2>2. comparisons[o].at \in Nat
      BY <2>1 DEF B!BenchmarkComparison
    <2>3. Latest(o)'
      BY <1>3, <1>4, <2>1, <2>2, LatestStays DEF BenchmarkInv, RunsInv
    <2> QED
      BY <1>1, <1>2, <2>1, <2>3
  <1>6. StoredInv'
    BY <1>1, <1>2 DEF BenchmarkInv, StoredInv
  <1> QED
    BY <1>4, <1>5, <1>6 DEF BenchmarkInv

\* What a run is in a new state, with a new result, or with the instant of its storage.
LEMMA RunChanged ==
  ASSUME NEW q \in B!BenchmarkRun, NEW to \in {"validated", "scheduled", "executed", "verified"} \union B!Settled
  PROVE  /\ [q EXCEPT !.state = to] \in B!BenchmarkRun
         /\ [q EXCEPT !.failed = TRUE] \in B!BenchmarkRun
         /\ \A result \in UNION {Results[r] : r \in Runs} :
              [[q EXCEPT !.state = to] EXCEPT !.result = result] \in B!BenchmarkRun
         /\ \A at \in Nat : [[q EXCEPT !.state = to] EXCEPT !.stored = at] \in B!BenchmarkRun
  <1> DEFINE v == [q EXCEPT !.state = to]
  <1>1. v \in B!BenchmarkRun /\ [q EXCEPT !.failed = TRUE] \in B!BenchmarkRun
    BY StagesOfRuns DEF B!BenchmarkRun
  <1> HIDE DEF v
  <1>2. /\ \A result \in UNION {Results[r] : r \in Runs} : [v EXCEPT !.result = result] \in B!BenchmarkRun
        /\ \A at \in Nat : [v EXCEPT !.stored = at] \in B!BenchmarkRun
    BY <1>1 DEF B!BenchmarkRun
  <1> QED
    BY <1>1, <1>2, Zenon DEF v

LEMMA MoveKeeps ==
  ASSUME BenchmarkInv, B!BenchmarkAssumption, NEW r \in Runs,
         NEW to \in {"validated", "scheduled", "verified", "archived"}, B!MayMove(r, to), B!Moved(r, to),
         UNCHANGED <<catalog, raw, knowledge, comparisons, suggested, now>>
  PROVE  BenchmarkInv'
  <1> DEFINE q == [runs[r] EXCEPT !.state = to]
  <1>1. runs[r] # Absent /\ runs[r] \in B!BenchmarkRun /\ B!Follows(runs[r].state, to)
    BY DEF BenchmarkInv, RunsInv, B!MayMove, B!Created
  <1>2. q \in B!BenchmarkRun /\ q # Absent
    BY <1>1, RunChanged DEF B!BenchmarkAssumption, B!Settled
  <1>3. /\ q.state = to /\ q.type = runs[r].type /\ q.component = runs[r].component
        /\ q.result = runs[r].result /\ q.stored = runs[r].stored
    BY <1>1 DEF B!BenchmarkRun
  <1>4. IF to = "archived" THEN runs[r].state = "compared" ELSE runs[r].state \notin B!Settled
    BY <1>1, FollowsOne DEF B!Settled
  <1>5. runs' = [runs EXCEPT ![r] = q]
    BY DEF B!Moved
  <1>6. IF IsSettled(r) THEN q.state \in B!Settled /\ q.state # "stored" ELSE q.state \notin B!Settled
    BY <1>1, <1>3, <1>4 DEF IsSettled, B!Settled
  <1> HIDE DEF q
  <1> QED
    BY <1>2, <1>3, <1>5, <1>6, OneRun

LEMMA ExecuteKeeps ==
  ASSUME BenchmarkInv, B!BenchmarkAssumption, NEW r \in Runs, NEW result \in Results[r], B!Execute(r, result)
  PROVE  BenchmarkInv'
  <1> DEFINE q == [[runs[r] EXCEPT !.state = "executed"] EXCEPT !.result = result]
  <1>1. runs[r] # Absent /\ runs[r] \in B!BenchmarkRun /\ B!Follows(runs[r].state, "executed")
    BY DEF BenchmarkInv, RunsInv, B!Execute, B!MayMove, B!Created
  <1>2. q \in B!BenchmarkRun /\ q # Absent
    <2>1. [[runs[r] EXCEPT !.state = "executed"] EXCEPT !.result = result] \in B!BenchmarkRun
      BY <1>1, RunChanged DEF B!Settled
    <2> QED
      BY <2>1 DEF B!BenchmarkAssumption
  <1>3. q.state = "executed"
    BY <1>1 DEF B!BenchmarkRun
  <1>4. ~IsSettled(r) /\ q.state \notin B!Settled
    BY <1>1, <1>3, FollowsOne DEF B!Settled, IsSettled
  <1>5. runs' = [runs EXCEPT ![r] = q]
    BY DEF B!Execute, BenchmarkInv, RunsInv
  <1> HIDE DEF q
  <1> QED
    BY <1>2, <1>4, <1>5, OneRun DEF B!Execute

LEMMA FailKeeps ==
  ASSUME BenchmarkInv, B!BenchmarkAssumption, NEW r \in Runs, B!Fail(r)
  PROVE  BenchmarkInv'
  <1> DEFINE q == [runs[r] EXCEPT !.failed = TRUE]
  <1>1. runs[r] # Absent /\ runs[r] \in B!BenchmarkRun
    BY DEF BenchmarkInv, RunsInv, B!Fail, B!Created
  <1>2. q \in B!BenchmarkRun /\ q # Absent
    BY <1>1, RunChanged DEF B!BenchmarkAssumption, B!Settled
  <1>3. /\ q.state = runs[r].state /\ q.type = runs[r].type /\ q.component = runs[r].component
        /\ q.result = runs[r].result /\ q.stored = runs[r].stored
    BY <1>1 DEF B!BenchmarkRun
  <1>4. runs' = [runs EXCEPT ![r] = q]
    BY DEF B!Fail
  <1>5. IF IsSettled(r) THEN q.state \in B!Settled ELSE q.state \notin B!Settled
    BY <1>1, <1>3 DEF IsSettled
  <1> HIDE DEF q
  <1> QED
    BY <1>2, <1>3, <1>4, <1>5, OneRun DEF B!Fail

LEMMA CreateKeeps ==
  ASSUME BenchmarkInv, B!BenchmarkAssumption, NEW r \in Runs, NEW t \in Types, NEW component \in Components,
         B!Create(r, t, component)
  PROVE  BenchmarkInv'
  <1> DEFINE q == [type |-> t, component |-> component, state |-> "created", result |-> Absent,
                   created |-> now, stored |-> Absent, failed |-> FALSE]
  <1>1. q \in B!BenchmarkRun
    <2> DEFINE S == {B!States[i] : i \in 1..8}
               W == UNION {Results[o] : o \in Runs}
    <2>1. "created" \in S /\ now \in Nat
      BY StagesOfRuns DEF BenchmarkInv, RunsInv
    <2>2. B!BenchmarkRun = [type : Types, component : Components, state : S, result : {Absent} \union W,
                            created : Nat, stored : Nat \union {Absent}, failed : BOOLEAN]
      BY DEF B!BenchmarkRun
    <2> HIDE DEF S, W
    <2> QED
      BY <2>1, <2>2
  <1>2. q # Absent
    BY <1>1 DEF B!BenchmarkAssumption
  <1>3. ~IsSettled(r) /\ q.state \notin B!Settled /\ runs' = [runs EXCEPT ![r] = q]
    BY DEF B!Create, IsSettled, B!Created, B!Settled
  <1> HIDE DEF q
  <1> QED
    BY <1>1, <1>2, <1>3, OneRun DEF B!Create

LEMMA StoreKeeps ==
  ASSUME BenchmarkInv, B!BenchmarkAssumption, NEW r \in Runs, NEW watts, B!Store(r, watts)
  PROVE  BenchmarkInv'
  <1> DEFINE q == [[runs[r] EXCEPT !.state = "stored"] EXCEPT !.stored = now]
  <1>1. runs[r] # Absent /\ runs[r] \in B!BenchmarkRun /\ B!Follows(runs[r].state, "stored") /\ now \in Nat
    BY DEF BenchmarkInv, RunsInv, B!Store, B!MayMove, B!Created
  <1>2. q \in B!BenchmarkRun /\ q # Absent
    <2>1. [[runs[r] EXCEPT !.state = "stored"] EXCEPT !.stored = now] \in B!BenchmarkRun
      BY <1>1, RunChanged DEF B!Settled
    <2> QED
      BY <2>1 DEF B!BenchmarkAssumption
  <1>3. q.state = "stored" /\ q.stored = now
    BY <1>1 DEF B!BenchmarkRun
  <1>4. ~IsSettled(r)
    BY <1>1, FollowsOne DEF B!Settled, IsSettled
  <1>5. runs' = [runs EXCEPT ![r] = q]
    BY DEF B!Store, BenchmarkInv, RunsInv
  <1> HIDE DEF q
  <1>6. \A o \in Runs : o # r => runs'[o] = runs[o] /\ (IsSettled(o)' <=> IsSettled(o))
    BY <1>5 DEF BenchmarkInv, RunsInv, IsSettled
  <1>7. runs'[r] = q /\ IsSettled(r)'
    BY <1>2, <1>3, <1>5 DEF BenchmarkInv, RunsInv, IsSettled, B!Settled
  <1>8. Lasts
    BY <1>3, <1>4, <1>6, <1>7 DEF Lasts
  <1>9. RunsInv'
    <2>1. runs' = [o \in Runs |-> runs'[o]] /\ UNCHANGED <<catalog, now>>
      BY <1>5 DEF BenchmarkInv, RunsInv, B!Store
    <2>2. \A o \in Runs : runs'[o] # Absent => runs'[o] \in B!BenchmarkRun
      BY <1>2, <1>6, <1>7 DEF BenchmarkInv, RunsInv
    <2>3. \A o \in Runs : IsSettled(o)' => runs'[o].stored \in Nat /\ runs'[o].stored <= now
      BY <1>1, <1>3, <1>6, <1>7 DEF BenchmarkInv, RunsInv
    <2> QED
      BY <2>1, <2>2, <2>3 DEF BenchmarkInv, RunsInv
  <1>10. comparisons[r] = Absent /\ r \notin suggested /\ knowledge[r] = Absent
    BY <1>4 DEF BenchmarkInv, ComparisonsInv, StoredInv
  <1>11. ComparisonsInv'
    <2> SUFFICES ASSUME NEW o \in Runs, comparisons[o] # Absent
                 PROVE  /\ IsSettled(o)' /\ runs'[o].state # "stored" /\ Latest(o)'
                        /\ comparisons[o] \in B!BenchmarkComparison /\ comparisons[o].at <= now
      BY DEF BenchmarkInv, ComparisonsInv, B!Store
    <2>1. /\ IsSettled(o) /\ runs[o].state # "stored" /\ Latest(o) /\ o # r
          /\ comparisons[o] \in B!BenchmarkComparison /\ comparisons[o].at <= now
      BY <1>10 DEF BenchmarkInv, ComparisonsInv
    <2>2. comparisons[o].at \in Nat
      BY <2>1 DEF B!BenchmarkComparison
    <2>3. Latest(o)'
      BY <1>8, <1>9, <2>1, <2>2, LatestStays DEF BenchmarkInv, RunsInv, B!Store
    <2> QED
      BY <1>6, <2>1, <2>3
  <1>12. StoredInv'
    <2>1. raw' = [raw EXCEPT ![r] = @ + 1] /\ raw[r] = 0
      BY <1>4 DEF B!Store, BenchmarkInv, StoredInv
    <2>2. \A o \in Runs : o # r => knowledge'[o] = knowledge[o]
      BY DEF BenchmarkInv, StoredInv, B!Store, B!Known
    <2>3. knowledge' = [o \in Runs |-> knowledge'[o]]
      BY DEF BenchmarkInv, StoredInv, B!Store, B!Known
    <2>4. knowledge'[r] # Absent => knowledge'[r].comparison = Absent
      BY <1>10 DEF BenchmarkInv, StoredInv, B!Store, B!Known
    <2> QED
      BY <1>6, <1>7, <1>10, <2>1, <2>2, <2>3, <2>4 DEF BenchmarkInv, StoredInv, B!Store
  <1> QED
    BY <1>9, <1>11, <1>12 DEF BenchmarkInv

LEMMA CompareKeeps ==
  ASSUME BenchmarkInv, B!BenchmarkAssumption, NEW r \in Runs, NEW watts, NEW informed, B!Compare(r, watts, informed)
  PROVE  BenchmarkInv'
  <1> DEFINE q == [runs[r] EXCEPT !.state = "compared"]
  <1>1. runs[r] # Absent /\ runs[r] \in B!BenchmarkRun /\ B!Follows(runs[r].state, "compared") /\ now \in Nat
    BY DEF BenchmarkInv, RunsInv, B!Compare, B!MayMove, B!Created
  <1>2. q \in B!BenchmarkRun /\ q # Absent
    <2>1. [runs[r] EXCEPT !.state = "compared"] \in B!BenchmarkRun
      BY <1>1, RunChanged DEF B!Settled
    <2> QED
      BY <2>1 DEF B!BenchmarkAssumption
  <1>3. /\ q.state = "compared" /\ q.type = runs[r].type /\ q.component = runs[r].component
        /\ q.result = runs[r].result /\ q.stored = runs[r].stored
    BY <1>1 DEF B!BenchmarkRun
  <1>4. IsSettled(r) /\ runs[r].state = "stored"
    BY <1>1, FollowsOne DEF B!Settled, IsSettled
  <1>5. runs' = [runs EXCEPT ![r] = q]
    BY DEF B!Compare, B!Moved
  <1> HIDE DEF q
  <1>6. \A o \in Runs : o # r => runs'[o] = runs[o] /\ (IsSettled(o)' <=> IsSettled(o))
    BY <1>5 DEF BenchmarkInv, RunsInv, IsSettled
  <1>7. runs'[r] = q /\ IsSettled(r)' /\ runs'[r].state # "stored"
    BY <1>2, <1>3, <1>5 DEF BenchmarkInv, RunsInv, IsSettled, B!Settled
  <1>8. Lasts
    BY <1>3, <1>4, <1>6, <1>7 DEF Lasts
  <1>9. RunsInv'
    <2>1. runs' = [o \in Runs |-> runs'[o]] /\ UNCHANGED <<catalog, now>>
      BY <1>5 DEF BenchmarkInv, RunsInv, B!Compare
    <2>2. \A o \in Runs : runs'[o] # Absent => runs'[o] \in B!BenchmarkRun
      BY <1>2, <1>6, <1>7 DEF BenchmarkInv, RunsInv
    <2>3. \A o \in Runs : IsSettled(o)' => runs'[o].stored \in Nat /\ runs'[o].stored <= now
      BY <1>3, <1>4, <1>6, <1>7 DEF BenchmarkInv, RunsInv
    <2> QED
      BY <2>1, <2>2, <2>3 DEF BenchmarkInv, RunsInv
  <1>10. comparisons[r] = Absent /\ r \notin suggested
    BY <1>4 DEF BenchmarkInv, ComparisonsInv, StoredInv
  <1> PICK base \in B!Comparable(r) \union {Absent} :
        /\ IF base = Absent THEN B!Comparable(r) = {}
                            ELSE \A c \in B!Comparable(r) \ {base} : ~B!Preferred(c, base)
        /\ LET comparison ==
                 [baseline |-> base, at |-> now,
                  class |-> IF base = Absent THEN "no-baseline"
                            ELSE B!Classified(r, base, catalog[runs[r].type].higher)] IN
             /\ comparisons' = [comparisons EXCEPT ![r] = comparison]
             /\ B!Known(r, watts, comparison)
    BY DEF B!Compare
  <1> DEFINE class == IF base = Absent THEN "no-baseline" ELSE B!Classified(r, base, catalog[runs[r].type].higher)
             comparison == [baseline |-> base, at |-> now, class |-> class]
  <1>11. comparisons' = [comparisons EXCEPT ![r] = comparison] /\ B!Known(r, watts, comparison)
    OBVIOUS
  <1>12. \A o \in B!Comparable(r) : o \in Runs /\ IsSettled(o) /\ runs[o].stored \in Nat /\ runs[o].stored <= now
    BY DEF BenchmarkInv, RunsInv, B!Comparable, B!Created, IsSettled
  <1>13. \A higher : B!Classified(r, base, higher) \in {"stable", "regressed", "improved"}
    BY DEF B!Classified
  <1>14. comparison.baseline = base /\ comparison.at = now /\ comparison.class = class
         /\ comparison \in B!BenchmarkComparison
    BY <1>1, <1>12, <1>13 DEF B!BenchmarkComparison
  <1>15. comparison # Absent
    BY <1>14 DEF B!BenchmarkAssumption
  <1>16. base # Absent => class \in {B!Classified(r, base, higher) : higher \in BOOLEAN}
    <2>1. runs[r].type \in Types /\ catalog[runs[r].type] # Absent
      BY <1>1 DEF B!BenchmarkRun, B!Compare, B!Defined
    <2>2. catalog[runs[r].type].higher \in BOOLEAN
      BY <2>1 DEF BenchmarkInv, RunsInv, B!BenchmarkAssumption
    <2> QED
      BY <2>2
  <1> HIDE DEF class, comparison
  <1>17. comparisons'[r] = comparison /\ \A o \in Runs : o # r => comparisons'[o] = comparisons[o]
    BY <1>11 DEF BenchmarkInv, ComparisonsInv
  <1>18. B!Comparable(r)' = B!Comparable(r)
    <2>1. \A o \in Runs : (o \in B!Comparable(r)') <=> (o \in B!Comparable(r))
      BY <1>3, <1>6, <1>7 DEF B!Comparable, B!Created, IsSettled
    <2> QED
      BY <2>1 DEF B!Comparable, B!Created
  <1>19. \A o \in B!Comparable(r) : runs'[o] = runs[o]
    BY <1>6, <1>12 DEF B!Comparable
  <1>20. base # Absent => base \in B!Comparable(r) /\ \A o \in B!Comparable(r) : ~(runs[o].stored > runs[base].stored)
    <2> SUFFICES ASSUME base # Absent, NEW o \in B!Comparable(r)
                 PROVE  ~(runs[o].stored > runs[base].stored)
      OBVIOUS
    <2>1. CASE o = base
      BY <2>1, <1>12
    <2>2. CASE o # base
      BY <2>2 DEF B!Preferred
    <2> QED
      BY <2>1, <2>2
  <1>21. base # Absent => \A higher \in BOOLEAN : B!Classified(r, base, higher)' = B!Classified(r, base, higher)
    BY <1>3, <1>7, <1>19, <1>20 DEF B!Classified
  <1>22. Latest(r)'
    <2>1. base = Absent => B!Comparable(r)' = {}
      BY <1>18
    <2>2. base # Absent => /\ base \in B!Comparable(r)' /\ runs'[base].stored <= now
                           /\ \A o \in B!Comparable(r)' : ~(runs'[o].stored > runs'[base].stored)
      BY <1>12, <1>18, <1>19, <1>20
    <2>3. base # Absent => class \in {B!Classified(r, base, higher)' : higher \in BOOLEAN}
      BY <1>16, <1>21
    <2> QED
      BY <1>14, <1>17, <2>1, <2>2, <2>3 DEF Latest
  <1>23. ComparisonsInv'
    <2>1. ASSUME NEW o \in Runs, comparisons[o] # Absent, o # r
          PROVE  /\ IsSettled(o)' /\ runs'[o].state # "stored" /\ Latest(o)'
                 /\ comparisons[o] \in B!BenchmarkComparison /\ comparisons[o].at <= now
      <3>1. /\ IsSettled(o) /\ runs[o].state # "stored" /\ Latest(o)
            /\ comparisons[o] \in B!BenchmarkComparison /\ comparisons[o].at <= now
        BY <2>1 DEF BenchmarkInv, ComparisonsInv
      <3>2. comparisons[o].at \in Nat /\ comparisons'[o] = comparisons[o]
        BY <2>1, <3>1, <1>17 DEF B!BenchmarkComparison
      <3>3. Latest(o)'
        BY <1>8, <1>9, <3>1, <3>2, LatestStays DEF BenchmarkInv, RunsInv, B!Compare
      <3> QED
        BY <1>6, <2>1, <3>1, <3>3
    <2>2. comparisons' = [o \in Runs |-> comparisons'[o]] /\ now' = now
      BY <1>11 DEF BenchmarkInv, ComparisonsInv, B!Compare
    <2> QED
      BY <1>1, <1>7, <1>14, <1>17, <1>22, <2>1, <2>2 DEF ComparisonsInv
  <1>24. StoredInv'
    <2>1. \A o \in Runs : o # r => knowledge'[o] = knowledge[o]
      BY <1>11 DEF BenchmarkInv, StoredInv, B!Known
    <2>2. knowledge' = [o \in Runs |-> knowledge'[o]]
      BY <1>11 DEF BenchmarkInv, StoredInv, B!Known
    <2>3. IF watts = Absent THEN knowledge'[r] = knowledge[r] ELSE knowledge'[r].comparison = comparison
      BY <1>11 DEF BenchmarkInv, StoredInv, B!Known
    <2>4. knowledge'[r] # Absent => knowledge'[r].comparison \in {Absent, comparisons'[r]}
      BY <1>10, <1>17, <2>3 DEF BenchmarkInv, StoredInv
    <2>5. r \in suggested' => watts # Absent
      BY <1>10 DEF B!Compare
    <2>6. suggested' \subseteq Runs /\ \A o \in Runs : o # r => (o \in suggested' => o \in suggested)
      BY DEF B!Compare, BenchmarkInv, StoredInv
    <2>7. raw' = raw
      BY DEF B!Compare
    <2>8. ASSUME NEW o \in Runs
          PROVE  /\ raw'[o] = IF IsSettled(o)' THEN 1 ELSE 0
                 /\ knowledge'[o] # Absent => IsSettled(o)' /\ knowledge'[o].comparison \in {Absent, comparisons'[o]}
                 /\ o \in suggested' => comparisons'[o] # Absent /\ knowledge'[o].comparison = comparisons'[o]
      <3>1. CASE o = r
        BY <3>1, <1>4, <1>7, <1>15, <1>17, <2>3, <2>4, <2>5, <2>7 DEF BenchmarkInv, StoredInv
      <3>2. CASE o # r
        BY <3>2, <1>6, <1>17, <2>1, <2>6, <2>7 DEF BenchmarkInv, StoredInv
      <3> QED
        BY <3>1, <3>2
    <2> QED
      BY <2>2, <2>6, <2>7, <2>8 DEF BenchmarkInv, StoredInv
  <1> QED
    BY <1>9, <1>23, <1>24 DEF BenchmarkInv

\* The catalog and the clock change nothing that was compared.
LEMMA AroundKeeps ==
  ASSUME BenchmarkInv, UNCHANGED <<runs, raw, knowledge, comparisons, suggested>>,
         \/ B!TimePasses
         \/ \E t \in Types : B!RemoveBenchmarkType(t) \/ \E d \in Definitions : B!RegisterBenchmarkType(t, d)
         \/ UNCHANGED benchmarkVars
  PROVE  BenchmarkInv'
  <1>1. /\ catalog' = [t \in Types |-> catalog'[t]] /\ \A t \in Types : catalog'[t] # Absent => catalog'[t] \in Definitions
        /\ now' \in Nat /\ now <= now'
    BY DEF BenchmarkInv, RunsInv, benchmarkVars, B!TimePasses, B!RemoveBenchmarkType, B!RegisterBenchmarkType
  <1>2. \A o : IsSettled(o)' <=> IsSettled(o)
    BY DEF IsSettled
  <1>3. RunsInv'
    BY <1>1, <1>2 DEF BenchmarkInv, RunsInv
  <1>4. ComparisonsInv'
    <2>1. \A o : Latest(o)' <=> Latest(o)
      BY DEF Latest, B!Comparable, B!Created, B!Classified
    <2> QED
      BY <1>1, <1>2, <2>1 DEF BenchmarkInv, RunsInv, ComparisonsInv, B!BenchmarkComparison
  <1>5. StoredInv'
    BY <1>2 DEF BenchmarkInv, StoredInv
  <1> QED
    BY <1>3, <1>4, <1>5 DEF BenchmarkInv

LEMMA BenchmarkStep ==
  B!BenchmarkAssumption /\ BenchmarkInv /\ (B!Next \/ UNCHANGED benchmarkVars) => BenchmarkInv'
  <1> SUFFICES ASSUME B!BenchmarkAssumption, BenchmarkInv, B!Next \/ UNCHANGED benchmarkVars
               PROVE  BenchmarkInv'
    OBVIOUS
  <1>1. CASE UNCHANGED benchmarkVars \/ B!TimePasses
    BY <1>1, AroundKeeps DEF benchmarkVars, B!TimePasses
  <1>2. ASSUME NEW t \in Types, B!RemoveBenchmarkType(t) \/ \E d \in Definitions : B!RegisterBenchmarkType(t, d)
        PROVE  BenchmarkInv'
    BY <1>2, AroundKeeps DEF B!RemoveBenchmarkType, B!RegisterBenchmarkType
  <1>3. ASSUME NEW t \in Types, NEW r \in Runs, NEW c \in Components, B!Create(r, t, c)
        PROVE  BenchmarkInv'
    BY <1>3, CreateKeeps
  <1>4. ASSUME NEW r \in Runs, B!Validate(r) \/ B!MarkScheduled(r) \/ B!Verify(r) \/ B!Archive(r)
        PROVE  BenchmarkInv'
    BY <1>4, MoveKeeps DEF B!Validate, B!MarkScheduled, B!Verify, B!Archive
  <1>5. ASSUME NEW r \in Runs, B!Fail(r) \/ \E result \in Results[r] : B!Execute(r, result)
        PROVE  BenchmarkInv'
    BY <1>5, FailKeeps, ExecuteKeeps
  <1>6. ASSUME NEW r \in Runs, NEW watts, B!Store(r, watts) \/ \E informed \in BOOLEAN : B!Compare(r, watts, informed)
        PROVE  BenchmarkInv'
    BY <1>6, StoreKeeps, CompareKeeps
  <1> QED
    BY <1>1, <1>2, <1>3, <1>4, <1>5, <1>6 DEF B!Next

(* BaselinesAreStored (core/benchmark_authority/src/BenchmarkAuthority.ts: store(), compare()): for any runs,
   definitions and results, a run is compared with the comparable one that was stored last by then, whatever
   is stored later, re-registered or failed; and a result is stored once, exactly when its run says so, whatever
   provider or handler throws on the way. *)
THEOREM ComparesWithTheLatest == FacilitySpec => []BaselinesAreStored
  <1>1. FacilityInit => BenchmarkInv
    BY BenchmarksStart DEF FacilityInit
  <1>2. BenchmarkInv /\ [FacilityNext]_facilityVars => BenchmarkInv'
    <2>1. [FacilityNext]_facilityVars => B!Next \/ UNCHANGED benchmarkVars
      BY DEF FacilityNext, facilityVars
    <2> QED
      BY <2>1, FacilityAssumption, BenchmarkStep
  <1>3. BenchmarkInv => BaselinesAreStored
    BY BenchmarksTell DEF BaselinesAreStored
  <1> QED
    BY <1>1, <1>2, <1>3, PTL DEF FacilitySpec

----------------------------------------------------------------------------
(* Folds.  Power and thermal take a batch by a fold of the library, which      *)
(* defines it by the latest of what is left of the positions.  No operator can *)
(* be handed to a lemma, so the folds that are taken are told by name.         *)

Begins(kind) == IF kind = "power" THEN P!Current ELSE IF kind = "thermal" THEN T!Current ELSE 0

Takes(kind, a, x) ==
  IF kind = "power" THEN P!Ingested(a, x)
  ELSE IF kind = "thermal" THEN T!ProcessSample(a, x)
  ELSE a + x

Folding(kind, xs, f, s) == IF s = {} THEN Begins(kind) ELSE Takes(kind, f[s \ {Max(s)}], xs[Max(s)])

Folds(kind, xs, f, n) == f = [s \in SUBSET (1..n) |-> Folding(kind, xs, f, s)]

LEMMA Least ==
  ASSUME NEW X \in SUBSET Nat, X # {}
  PROVE  \E m \in X : \A n \in X : m <= n
  <1>1. PICK m \in X : \A n \in X : ~(<<n, m>> \in OpToRel(<, Nat))
    BY NatLessThanWellFounded, WFMin
  <1>2. \A n \in X : ~(n < m)
    BY <1>1 DEF OpToRel
  <1> QED
    BY <1>2

LEMMA LatestOf ==
  ASSUME NEW n \in Nat, NEW s \in SUBSET (1..n), n \in s
  PROVE  Max(s) = n
  <1>1. n \in s /\ \A y \in s : n >= y
    OBVIOUS
  <1>2. \A x \in s : (\A y \in s : x >= y) => x = n
    BY <1>1
  <1> QED
    BY <1>1, <1>2 DEF Max

\* A function that folds every part of the positions exists.
LEMMA FoldExists ==
  ASSUME NEW kind, NEW xs, NEW N \in Nat
  PROVE  \E f : Folds(kind, xs, f, N)
  <1> DEFINE Step(f, n) == Takes(kind, f, xs[n])
  <1>1. Folds(kind, xs, [s \in SUBSET (1..0) |-> Begins(kind)], 0)
    <2>1. SUBSET (1..0) = {{}}
      OBVIOUS
    <2> QED
      BY <2>1 DEF Folds, Folding
  <1>2. ASSUME NEW n \in Nat \ {0}, NEW f, Folds(kind, xs, f, n - 1)
        PROVE  \E e : Folds(kind, xs, e, n)
    <2> DEFINE e == [s \in SUBSET (1..n) |-> IF n \in s THEN Step(f[s \ {n}], n) ELSE f[s]]
    <2>1. \A s \in SUBSET (1..n) : n \notin s => s \in SUBSET (1..(n - 1))
      OBVIOUS
    <2>2. \A s \in SUBSET (1..(n - 1)) : n \notin s /\ s \in SUBSET (1..n)
      OBVIOUS
    <2>3. \A s \in SUBSET (1..(n - 1)) : f[s] = Folding(kind, xs, f, s)
      BY <1>2 DEF Folds
    <2>4. \A s \in SUBSET (1..n) : e[s] = IF n \in s THEN Step(f[s \ {n}], n) ELSE f[s]
      OBVIOUS
    <2>5. e = [s \in SUBSET (1..n) |-> e[s]]
      OBVIOUS
    <2> HIDE DEF e
    <2>6. ASSUME NEW s \in SUBSET (1..n)
          PROVE  e[s] = Folding(kind, xs, e, s)
      <3>1. CASE n \in s
        <4>1. Max(s) = n
          BY <3>1, LatestOf
        <4>2. e[s \ {n}] = f[s \ {n}]
          BY <2>4
        <4>3. e[s] = Step(e[s \ {n}], n)
          BY <2>4, <3>1, <4>2
        <4> QED
          BY <3>1, <4>1, <4>3 DEF Folding
      <3>2. CASE n \notin s
        <4>1. s \ {Max(s)} \in SUBSET (1..n) /\ n \notin s \ {Max(s)}
          BY <3>2
        <4>2. e[s] = f[s] /\ e[s \ {Max(s)}] = f[s \ {Max(s)}]
          BY <2>4, <3>2, <4>1
        <4>3. f[s] = Folding(kind, xs, f, s)
          BY <2>1, <2>3, <3>2
        <4> QED
          BY <4>2, <4>3 DEF Folding
      <3> QED
        BY <3>1, <3>2
    <2>7. e = [s \in SUBSET (1..n) |-> Folding(kind, xs, e, s)]
      BY <2>5, <2>6, Zenon
    <2> QED
      BY <2>7 DEF Folds
  <1> DEFINE Wrong == {n \in Nat : ~\E f : Folds(kind, xs, f, n)}
  <1>3. Wrong = {}
    <2>1. SUFFICES ASSUME Wrong # {} PROVE FALSE
      OBVIOUS
    <2>2. PICK m \in Wrong : \A n \in Wrong : m <= n
      BY <2>1, Least
    <2>3. m # 0
      BY <1>1, <2>2
    <2>4. m - 1 \in Nat /\ m - 1 \notin Wrong
      BY <2>2, <2>3
    <2> QED
      BY <1>2, <2>2, <2>3, <2>4
  <1> QED
    BY <1>3

\* And it passes the elements in the order of the sequence.
LEMMA FoldInTurn ==
  ASSUME NEW kind, NEW xs, NEW N \in Nat, NEW f, Folds(kind, xs, f, N)
  PROVE  \E g : /\ g[0] = Begins(kind) /\ g[N] = f[1..N]
                /\ \A n \in 1..N : g[n] = Takes(kind, g[n - 1], xs[n])
  <1>1. ASSUME NEW n \in 0..N
        PROVE  f[1..n] = IF n = 0 THEN Begins(kind) ELSE Takes(kind, f[1..(n - 1)], xs[n])
    <2>1. 1..n \in SUBSET (1..N)
      OBVIOUS
    <2>2. f[1..n] = Folding(kind, xs, f, 1..n)
      BY <2>1 DEF Folds
    <2>3. CASE n = 0
      BY <2>2, <2>3 DEF Folding
    <2>4. CASE n # 0
      <3>1. n \in 1..n /\ (1..n) \ {n} = 1..(n - 1)
        BY <2>4
      <3>2. Max(1..n) = n
        BY <3>1, LatestOf
      <3> QED
        BY <2>2, <2>4, <3>1, <3>2 DEF Folding
    <2> QED
      BY <2>3, <2>4
  <1> DEFINE g == [n \in 0..N |-> f[1..n]]
  <1>2. \A n \in 0..N : g[n] = f[1..n]
    OBVIOUS
  <1> HIDE DEF g
  <1>3. ASSUME NEW n \in 1..N
        PROVE  g[n] = Takes(kind, g[n - 1], xs[n])
    <2>1. n \in 0..N /\ n - 1 \in 0..N /\ n # 0
      OBVIOUS
    <2>2. g[n] = f[1..n] /\ g[n - 1] = f[1..(n - 1)]
      BY <1>2, <2>1
    <2> QED
      BY <1>1, <2>1, <2>2
  <1>4. 0 \in 0..N /\ N \in 0..N /\ 1..0 = {}
    OBVIOUS
  <1>5. g[0] = Begins(kind) /\ g[N] = f[1..N]
    BY <1>1, <1>2, <1>4
  <1> QED
    BY <1>3, <1>5

\* The terms of a sum.
LEMMA SummedInTurn ==
  ASSUME NEW terms, NEW N \in Nat, DOMAIN terms = 1..N
  PROVE  \E g : /\ g[0] = 0 /\ g[N] = P!FoldLeft(+, 0, terms)
                /\ \A n \in 1..N : g[n] = g[n - 1] + terms[n]
  <1> DEFINE Solves(f) == f = [s \in SUBSET (1..N) |-> IF s = {} THEN 0
                                                       ELSE f[s \ {Max(s)}] + terms[Max(s)]]
             iter == CHOOSE f : Solves(f)
  <1>1. P!FoldLeft(+, 0, terms) = iter[1..N]
    BY DEF P!FoldLeft, P!MapThenFoldSet, P!Max, Max
  <1>2. \A f : Solves(f) <=> Folds("sum", terms, f, N)
    BY DEF Folds, Folding, Begins, Takes
  <1> HIDE DEF Solves
  <1>3. Solves(iter)
    BY <1>2, FoldExists
  <1> HIDE DEF iter
  <1>4. Folds("sum", terms, iter, N)
    BY <1>2, <1>3
  <1>5. Begins("sum") = 0 /\ \A a, x : Takes("sum", a, x) = a + x
    BY DEF Begins, Takes
  <1> PICK kind, f : kind = "sum" /\ f = iter
    OBVIOUS
  <1>6. PICK g : /\ g[0] = Begins(kind) /\ g[N] = f[1..N]
                 /\ \A n \in 1..N : g[n] = Takes(kind, g[n - 1], terms[n])
    <2>1. Folds(kind, terms, f, N)
      BY <1>4
    <2> QED
      BY <2>1, FoldInTurn
  <1>7. g[0] = 0 /\ g[N] = P!FoldLeft(+, 0, terms)
    BY <1>1, <1>5, <1>6
  <1>8. ASSUME NEW n \in 1..N
        PROVE  g[n] = g[n - 1] + terms[n]
    <2>1. g[n] = Takes(kind, g[n - 1], terms[n])
      BY <1>6
    <2>2. Takes(kind, g[n - 1], terms[n]) = g[n - 1] + terms[n]
      BY <1>5
    <2> QED
      BY <2>1, <2>2
  <1> QED
    BY <1>7, <1>8

\* The samples of a batch of the power authority.
LEMMA CollectedInTurn ==
  ASSUME NEW samples, NEW N \in Nat, DOMAIN samples = 1..N
  PROVE  \E g : /\ g[0] = P!Current /\ g[N] = P!FoldLeft(P!Ingested, P!Current, samples)
                /\ \A n \in 1..N : g[n] = P!Ingested(g[n - 1], samples[n])
  <1> DEFINE Solves(f) == f = [s \in SUBSET (1..N) |-> IF s = {} THEN P!Current
                                                       ELSE P!Ingested(f[s \ {Max(s)}], samples[Max(s)])]
             iter == CHOOSE f : Solves(f)
  <1>1. P!FoldLeft(P!Ingested, P!Current, samples) = iter[1..N]
    BY DEF P!FoldLeft, P!MapThenFoldSet, P!Max, Max
  <1>2. \A f : Solves(f) <=> Folds("power", samples, f, N)
    BY DEF Folds, Folding, Begins, Takes
  <1> HIDE DEF Solves
  <1>3. Solves(iter)
    BY <1>2, FoldExists
  <1> HIDE DEF iter
  <1>4. Folds("power", samples, iter, N)
    BY <1>2, <1>3
  <1>5. Begins("power") = P!Current /\ \A a, x : Takes("power", a, x) = P!Ingested(a, x)
    BY DEF Begins, Takes
  <1> PICK kind, f : kind = "power" /\ f = iter
    OBVIOUS
  <1>6. PICK g : /\ g[0] = Begins(kind) /\ g[N] = f[1..N]
                 /\ \A n \in 1..N : g[n] = Takes(kind, g[n - 1], samples[n])
    <2>1. Folds(kind, samples, f, N)
      BY <1>4
    <2> QED
      BY <2>1, FoldInTurn
  <1>7. g[0] = P!Current /\ g[N] = P!FoldLeft(P!Ingested, P!Current, samples)
    BY <1>1, <1>5, <1>6
  <1>8. ASSUME NEW n \in 1..N
        PROVE  g[n] = P!Ingested(g[n - 1], samples[n])
    <2>1. g[n] = Takes(kind, g[n - 1], samples[n])
      BY <1>6
    <2>2. Takes(kind, g[n - 1], samples[n]) = P!Ingested(g[n - 1], samples[n])
      BY <1>5
    <2> QED
      BY <2>1, <2>2
  <1> QED
    BY <1>7, <1>8

\* And those of a collection of the thermal authority.
LEMMA ProcessedInTurn ==
  ASSUME NEW samples, NEW N \in Nat, DOMAIN samples = 1..N
  PROVE  \E g : /\ g[0] = T!Current /\ g[N] = T!FoldLeft(T!ProcessSample, T!Current, samples)
                /\ \A n \in 1..N : g[n] = T!ProcessSample(g[n - 1], samples[n])
  <1> DEFINE Solves(f) == f = [s \in SUBSET (1..N) |-> IF s = {} THEN T!Current
                                                       ELSE T!ProcessSample(f[s \ {Max(s)}], samples[Max(s)])]
             iter == CHOOSE f : Solves(f)
  <1>1. T!FoldLeft(T!ProcessSample, T!Current, samples) = iter[1..N]
    BY DEF T!FoldLeft, T!MapThenFoldSet, T!Max, Max
  <1>2. \A f : Solves(f) <=> Folds("thermal", samples, f, N)
    BY DEF Folds, Folding, Begins, Takes
  <1> HIDE DEF Solves
  <1>3. Solves(iter)
    BY <1>2, FoldExists
  <1> HIDE DEF iter
  <1>4. Folds("thermal", samples, iter, N)
    BY <1>2, <1>3
  <1>5. Begins("thermal") = T!Current /\ \A a, x : Takes("thermal", a, x) = T!ProcessSample(a, x)
    BY DEF Begins, Takes
  <1> PICK kind, f : kind = "thermal" /\ f = iter
    OBVIOUS
  <1>6. PICK g : /\ g[0] = Begins(kind) /\ g[N] = f[1..N]
                 /\ \A n \in 1..N : g[n] = Takes(kind, g[n - 1], samples[n])
    <2>1. Folds(kind, samples, f, N)
      BY <1>4
    <2> QED
      BY <2>1, FoldInTurn
  <1>7. g[0] = T!Current /\ g[N] = T!FoldLeft(T!ProcessSample, T!Current, samples)
    BY <1>1, <1>5, <1>6
  <1>8. ASSUME NEW n \in 1..N
        PROVE  g[n] = T!ProcessSample(g[n - 1], samples[n])
    <2>1. g[n] = Takes(kind, g[n - 1], samples[n])
      BY <1>6
    <2>2. Takes(kind, g[n - 1], samples[n]) = T!ProcessSample(g[n - 1], samples[n])
      BY <1>5
    <2> QED
      BY <2>1, <2>2
  <1> QED
    BY <1>7, <1>8

Highest(x, S) == x \in S /\ \A y \in S : y <= x
Replaced(f, d, v, g) == g = [f EXCEPT ![d] = v]

----------------------------------------------------------------------------
(* Power.  What a profile tells is what the latest points of its history tell:  *)
(* a sample moves both, and a batch is its samples in turn, wherever it ends.   *)

Sum(terms) == P!FoldLeft(+, 0, terms)

LEMMA SumExtends ==
  ASSUME NEW h \in Seq(Nat), NEW x \in Nat
  PROVE  Sum(Append(h, x)) = Sum(h) + x
  <1> DEFINE N == Len(h)
             k == Append(h, x)
  <1>1. N \in Nat /\ DOMAIN h = 1..N /\ DOMAIN k = 1..(N + 1) /\ k[N + 1] = x /\ \A n \in 1..N : k[n] = h[n]
    OBVIOUS
  <1> HIDE DEF N, k
  <1>2. PICK f : f[0] = 0 /\ f[N] = Sum(h) /\ \A n \in 1..N : f[n] = f[n - 1] + h[n]
    BY <1>1, SummedInTurn DEF Sum
  <1>3. PICK g : g[0] = 0 /\ g[N + 1] = Sum(k) /\ \A n \in 1..(N + 1) : g[n] = g[n - 1] + k[n]
    <2>1. N + 1 \in Nat
      BY <1>1
    <2> DEFINE M == N + 1
    <2> HIDE DEF M
    <2>2. \E g : g[0] = 0 /\ g[M] = Sum(k) /\ \A n \in 1..M : g[n] = g[n - 1] + k[n]
      BY <1>1, <2>1, SummedInTurn DEF Sum, M
    <2> QED
      BY <2>2 DEF M
  <1> DEFINE Wrong == {n \in 0..N : g[n] # f[n]}
  <1>4. Wrong = {}
    <2> SUFFICES ASSUME Wrong # {} PROVE FALSE
      OBVIOUS
    <2>1. Wrong \in SUBSET Nat
      BY <1>1
    <2> PICK m \in Wrong : \A n \in Wrong : m <= n
      BY <2>1, Least
    <2>2. m # 0 /\ m \in 0..N
      BY <1>2, <1>3
    <2>3. m - 1 \in 0..N /\ m - 1 \notin Wrong /\ m \in 1..N /\ m \in 1..(N + 1)
      BY <1>1, <2>2
    <2>4. g[m] = g[m - 1] + k[m] /\ f[m] = f[m - 1] + h[m] /\ k[m] = h[m] /\ g[m - 1] = f[m - 1]
      BY <1>1, <1>2, <1>3, <2>3
    <2> QED
      BY <2>4
  <1>5. g[N + 1] = g[N] + k[N + 1] /\ g[N] = f[N]
    <2>1. N + 1 \in 1..(N + 1) /\ N \in 0..N /\ (N + 1) - 1 = N
      BY <1>1
    <2> QED
      BY <1>3, <1>4, <2>1
  <1>6. Sum(k) = Sum(h) + x
    BY <1>1, <1>2, <1>3, <1>5
  <1> QED
    BY <1>6 DEF k

LEMMA SumOfNone ==
  ASSUME NEW h, h = <<>>
  PROVE  Sum(h) = 0
  <1>1. DOMAIN h = 1..0
    OBVIOUS
  <1> QED
    BY <1>1, SummedInTurn DEF Sum

\* The latest n points of a history.
Points(n, h) == SubSeq(h, Len(h) - n + 1, Len(h))

LEMMA PointsAre ==
  ASSUME NEW h \in Seq(Nat), NEW n \in 0..Len(h)
  PROVE  Points(n, h) \in Seq(Nat) /\ Len(Points(n, h)) = n /\ \A i \in 1..n : Points(n, h)[i] = h[Len(h) - n + i]
  <1> DEFINE m == Len(h) - n + 1
  <1>1. m \in 1..(Len(h) + 1) /\ Len(h) - m + 1 = n /\ Len(h) \in Nat /\ n \in Nat
    OBVIOUS
  <1>2. \A i \in m..Len(h) : h[i] \in Nat
    BY <1>1
  <1> HIDE DEF m
  <1>3. /\ SubSeq(h, m, Len(h)) \in Seq(Nat)
        /\ Len(SubSeq(h, m, Len(h))) = n
        /\ \A i \in 1..n : SubSeq(h, m, Len(h))[i] = h[m + i - 1]
    BY <1>1, <1>2
  <1>4. \A i \in 1..n : m + i - 1 = Len(h) - n + i
    BY <1>1 DEF m
  <1> QED
    BY <1>3, <1>4 DEF Points, m

LEMMA PointsOfMore ==
  ASSUME NEW h \in Seq(Nat), NEW n \in 0..Len(h), NEW x \in Nat
  PROVE  Points(n + 1, Append(h, x)) = Append(Points(n, h), x)
  <1> DEFINE k == Append(h, x)
             p == Points(n, h)
             q == Points(n + 1, k)
             r == Append(p, x)
             l == Len(h)
  <1>1. /\ Len(k) = l + 1 /\ k \in Seq(Nat) /\ k[l + 1] = x /\ \A i \in 1..l : k[i] = h[i]
        /\ l \in Nat /\ n \in Nat /\ n <= l
    OBVIOUS
  <1> HIDE DEF k
  <1>2. p \in Seq(Nat) /\ Len(p) = n /\ \A i \in 1..n : p[i] = h[l - n + i]
    BY PointsAre
  <1>3. q \in Seq(Nat) /\ Len(q) = n + 1 /\ \A i \in 1..(n + 1) : q[i] = k[l - n + i]
    <2>1. n + 1 \in 0..Len(k) /\ \A i \in 1..(n + 1) : Len(k) - (n + 1) + i = l - n + i
      BY <1>1
    <2> DEFINE m == n + 1
    <2> HIDE DEF m, q, l
    <2>2. Points(m, k) \in Seq(Nat) /\ Len(Points(m, k)) = m /\ \A i \in 1..m : Points(m, k)[i] = k[Len(k) - m + i]
      BY <1>1, <2>1, PointsAre DEF m
    <2> QED
      BY <2>1, <2>2 DEF m, q
  <1> HIDE DEF p, q
  <1>4. r \in Seq(Nat) /\ Len(r) = n + 1 /\ r[n + 1] = x /\ \A i \in 1..n : r[i] = p[i]
    BY <1>1, <1>2
  <1> HIDE DEF r, l
  <1>5. ASSUME NEW i \in 1..(n + 1)
        PROVE  q[i] = r[i]
    <2>1. CASE i <= n
      <3>1. i \in 1..n /\ l - n + i \in 1..l
        BY <1>1, <2>1
      <3> QED
        BY <1>1, <1>2, <1>3, <1>4, <3>1
    <2>2. CASE i = n + 1
      <3>1. l - n + i = l + 1
        BY <1>1, <2>2
      <3> QED
        BY <1>1, <1>3, <1>4, <2>2, <3>1
    <2>3. i <= n \/ i = n + 1
      BY <1>1
    <2> QED
      BY <2>1, <2>2, <2>3
  <1>6. q = r
    BY <1>1, <1>3, <1>4, <1>5, SeqEqual
  <1> QED
    BY <1>6 DEF p, q, r, k

\* What the accounts and the profile of a device tell of its history.
IsAccount(a) == a = [count |-> a.count, sum |-> a.sum, peak |-> a.peak]
IsProfile(p) ==
  p = [watts |-> p.watts, peak |-> p.peak, health |-> p.health, stage |-> p.stage, sensor |-> p.sensor,
       trend |-> p.trend, hashes |-> p.hashes, revenue |-> p.revenue]
Tells(d, p, a, h) ==
  /\ IsAccount(a) /\ IsProfile(p) /\ h \in Seq(Nat)
  /\ a.count \in 0..Len(h) /\ a.sum = Sum(Points(a.count, h))
  /\ Highest(a.peak, {Idle[d]} \union P!ToSet(Points(a.count, h)))
  /\ p.peak = a.peak /\ p.watts = IF a.count = 0 THEN Idle[d] ELSE h[Len(h)]
  /\ p.stage = "monitored" => a.count >= 1
  /\ p.stage \in {"analyzed", "optimized"} => a.count >= 2

LEMMA HighestIsMax ==
  ASSUME NEW S \in SUBSET Int, NEW x, Highest(x, S)
  PROVE  P!Max(S) = x
  <1>1. \A z \in S : (\A y \in S : z >= y) <=> z = x
    BY DEF Highest
  <1> QED
    BY <1>1 DEF P!Max, Highest

LEMMA SampleTells ==
  ASSUME NEW d, Idle[d] \in Nat, NEW p, NEW a, NEW h, Tells(d, p, a, h), NEW w \in Nat, NEW b, NEW q, NEW m,
         m = P!Max({a.peak, w}), b = [count |-> a.count + 1, sum |-> a.sum + w, peak |-> m],
         IsProfile(q), q.watts = w, q.peak = m, q.stage = P!Advanced(p.stage)
  PROVE  Tells(d, q, b, Append(h, w))
  <1> DEFINE k == Append(h, w)
             S == {Idle[d]} \union P!ToSet(Points(a.count, h))
             R == {Idle[d]} \union P!ToSet(Points(a.count + 1, k))
  <1>1. /\ h \in Seq(Nat) /\ a.count \in 0..Len(h) /\ a.count \in Nat
        /\ Points(a.count, h) \in Seq(Nat) /\ Len(Points(a.count, h)) = a.count
    BY PointsAre DEF Tells
  <1>2. k \in Seq(Nat) /\ Len(k) = Len(h) + 1 /\ k[Len(k)] = w /\ Len(h) \in Nat
    BY <1>1
  <1>3. Points(a.count + 1, k) = Append(Points(a.count, h), w)
    BY <1>1, PointsOfMore
  <1>4. Sum(Points(a.count + 1, k)) = a.sum + w
    BY <1>1, <1>3, SumExtends DEF Tells
  <1>5. R = S \union {w}
    <2>1. \A t \in Seq(Nat) : P!ToSet(Append(t, w)) = P!ToSet(t) \union {w}
      <3> SUFFICES ASSUME NEW t \in Seq(Nat)
                   PROVE  P!ToSet(Append(t, w)) = P!ToSet(t) \union {w}
        OBVIOUS
      <3> DEFINE e == Append(t, w)
      <3>1. Len(t) \in Nat /\ DOMAIN t = 1..Len(t) /\ DOMAIN e = 1..(Len(t) + 1) /\ e[Len(t) + 1] = w
            /\ \A i \in 1..Len(t) : e[i] = t[i]
        OBVIOUS
      <3> HIDE DEF e
      <3>2. \A i \in DOMAIN e : i \in DOMAIN t \/ i = Len(t) + 1
        BY <3>1
      <3>3. \A i \in DOMAIN t : i \in DOMAIN e
        BY <3>1
      <3>4. P!ToSet(e) = P!ToSet(t) \union {w}
        BY <3>1, <3>2, <3>3 DEF P!ToSet
      <3> QED
        BY <3>4 DEF e
    <2> QED
      BY <1>1, <1>3, <2>1
  <1>6. S \in SUBSET Nat
    BY <1>1 DEF P!ToSet
  <1>7. Highest(a.peak, S) /\ a.peak \in Nat
    BY <1>6 DEF Tells, Highest
  <1>8. Highest(m, R)
    <2>1. \E x \in {a.peak, w} : Highest(x, {a.peak, w})
      BY <1>7 DEF Highest
    <2>2. Highest(m, {a.peak, w})
      BY <1>7, <2>1, HighestIsMax
    <2> HIDE DEF R, S
    <2> QED
      BY <1>5, <1>6, <1>7, <2>2 DEF Highest
  <1>9. b.count = a.count + 1 /\ b.sum = a.sum + w /\ b.peak = m /\ IsAccount(b)
    BY DEF IsAccount
  <1>10. /\ b.count \in 0..Len(k) /\ b.count # 0
         /\ q.stage = "monitored" => b.count >= 1 
         /\ q.stage \in {"analyzed", "optimized"} => b.count >= 2
    BY <1>1, <1>2, <1>9 DEF Tells, P!Advanced
  <1> QED
    BY <1>2, <1>4, <1>8, <1>9, <1>10 DEF Tells

\* A state midway in a batch: the devices known are those of before it.
Advised(d, p) == p.stage = "optimized" => \E r \in recommendations : r.of = d
Told(profs, accs, hist) ==
  /\ profs = [d \in PowerUnits |-> profs[d]] /\ accs = [d \in PowerUnits |-> accs[d]] /\ hist \in [PowerUnits -> Seq(Nat)]
  /\ \A d \in P!Registered : Tells(d, profs[d], accs[d], hist[d]) /\ Advised(d, profs[d])
  /\ \A d \in PowerUnits \ P!Registered : profs[d] = Absent
IsMidway(st) == \E profs, accs, hist, thrown : Told(profs, accs, hist) /\ st = P!Midway(profs, accs, hist, thrown)

LEMMA OneTold ==
  ASSUME NEW profs, NEW accs, NEW hist, Told(profs, accs, hist), NEW d \in P!Registered, NEW p, NEW a, NEW h,
         Tells(d, p, a, h), p.stage = "optimized" => profs[d].stage = "optimized",
         NEW ps, Replaced(profs, d, p, ps), NEW as, Replaced(accs, d, a, as), NEW hs, Replaced(hist, d, h, hs)
  PROVE  Told(ps, as, hs)
  <1>1. P!Registered \subseteq PowerUnits
    BY DEF P!Registered
  <1>2. h \in Seq(Nat)
    BY DEF Tells
  <1>3. ps = [e \in PowerUnits |-> IF e = d THEN p ELSE profs[e]] /\ as = [e \in PowerUnits |-> IF e = d THEN a ELSE accs[e]]
    BY DEF Told, Replaced
  <1>4. hs = [e \in PowerUnits |-> IF e = d THEN h ELSE hist[e]] /\ hs \in [PowerUnits -> Seq(Nat)]
    BY <1>2 DEF Told, Replaced
  <1>5. ps = [e \in PowerUnits |-> ps[e]] /\ as = [e \in PowerUnits |-> as[e]]
    BY <1>3
  <1>6. ASSUME NEW e \in P!Registered
        PROVE  Tells(e, ps[e], as[e], hs[e]) /\ Advised(e, ps[e])
    <2>1. CASE e = d
      <3>1. ps[e] = p /\ as[e] = a /\ hs[e] = h
        BY <1>1, <1>3, <1>4, <2>1
      <3>2. Advised(d, profs[d])
        BY DEF Told
      <3> QED
        BY <2>1, <3>1, <3>2 DEF Advised
    <2>2. CASE e # d
      <3>1. ps[e] = profs[e] /\ as[e] = accs[e] /\ hs[e] = hist[e]
        BY <1>1, <1>3, <1>4, <2>2
      <3> QED
        BY <3>1 DEF Told
    <2> QED
      BY <2>1, <2>2
  <1>7. \A e \in PowerUnits \ P!Registered : ps[e] = Absent
    BY <1>3 DEF Told
  <1> QED
    BY <1>4, <1>5, <1>6, <1>7 DEF Told

\* What a profile is with another sensor and health.
LEMMA ProfileChanged ==
  ASSUME NEW p, IsProfile(p), NEW x, NEW y
  PROVE  LET q == [[p EXCEPT !.sensor = x] EXCEPT !.health = y] IN
         IsProfile(q) /\ q.watts = p.watts /\ q.peak = p.peak /\ q.stage = p.stage
  <1> PICK watts, peak, health, stage, sensor, trend, hashes, revenue :
        p = [watts |-> watts, peak |-> peak, health |-> health, stage |-> stage, sensor |-> sensor,
             trend |-> trend, hashes |-> hashes, revenue |-> revenue]
    BY DEF IsProfile
  <1> DEFINE v == [p EXCEPT !.sensor = x]
  <1>1. v = [watts |-> watts, peak |-> peak, health |-> health, stage |-> stage, sensor |-> x,
             trend |-> trend, hashes |-> hashes, revenue |-> revenue]
    OBVIOUS
  <1> HIDE DEF v
  <1>2. [v EXCEPT !.health = y] =
          [watts |-> watts, peak |-> peak, health |-> y, stage |-> stage, sensor |-> x,
           trend |-> trend, hashes |-> hashes, revenue |-> revenue]
    BY <1>1
  <1> QED
    BY <1>2 DEF IsProfile, v

LEMMA SensorLost ==
  ASSUME NEW p, IsProfile(p), NEW q, q = [p EXCEPT !.sensor = FALSE, !.health = "degraded"]
  PROVE  IsProfile(q) /\ q.watts = p.watts /\ q.peak = p.peak /\ q.stage = p.stage
  <1>1. \A x, y : LET r == [[p EXCEPT !.sensor = x] EXCEPT !.health = y] IN
                  IsProfile(r) /\ r.watts = p.watts /\ r.peak = p.peak /\ r.stage = p.stage
    BY ProfileChanged
  <1>2. LET r == [[p EXCEPT !.sensor = FALSE] EXCEPT !.health = "degraded"] IN
        IsProfile(r) /\ r.watts = p.watts /\ r.peak = p.peak /\ r.stage = p.stage
    BY <1>1, Zenon
  <1> QED
    BY <1>2

LEMMA MidwayTold ==
  ASSUME NEW a, NEW b, NEW c, Told(a, b, c)
  PROVE  \A x : IsMidway(P!Midway(a, b, c, x))
  BY DEF IsMidway

LEMMA SampleKeeps ==
  ASSUME P!PowerAssumption, NEW st, IsMidway(st), NEW sample \in P!PowerSample
  PROVE  IsMidway(P!Ingested(st, sample))
  <1> PICK d : d = sample.device
    OBVIOUS
  <1> PICK w : w = sample.watts
    OBVIOUS
  <1>1. d \in PowerUnits /\ w \in Nat \union {Absent, Invalid} /\ Idle[d] \in Nat
    BY DEF P!PowerSample, P!PowerAssumption
  <1> PICK profs, accs, hist, thrown :
        Told(profs, accs, hist) /\ st = P!Midway(profs, accs, hist, thrown)
    BY DEF IsMidway
  <1>2. st.profiles = profs /\ st.accounts = accs /\ st.history = hist /\ st.thrown = thrown
    BY DEF P!Midway
  <1>3. /\ accs = [e \in PowerUnits |-> accs[e]] /\ hist \in [PowerUnits -> Seq(Nat)]
        /\ profs = [e \in PowerUnits |-> profs[e]]
    BY DEF Told
  <1>4. CASE thrown \/ w = Invalid
    BY <1>2, <1>4 DEF P!Ingested
  <1>5. CASE ~(thrown \/ w = Invalid) /\ d \notin P!Registered
    <2>1. P!Ingested(st, sample) = P!Midway(profs, accs, hist, TRUE)
      BY <1>2, <1>5 DEF P!Ingested
    <2> QED
      BY <2>1, MidwayTold, Zenon
  <1>6. CASE ~(thrown \/ w = Invalid) /\ d \in P!Registered /\ w = Absent
    <2>1. P!Ingested(st, sample) = P!SensorUnavailable(st, d)
      BY <1>2, <1>6 DEF P!Ingested
    <2> PICK p : p = profs[d]
      OBVIOUS
    <2> PICK q : q = [p EXCEPT !.sensor = FALSE, !.health = "degraded"]
      OBVIOUS
    <2> PICK ps : ps = [profs EXCEPT ![d] = q]
      OBVIOUS
    <2>2. P!SensorUnavailable(st, d) = P!Midway(ps, accs, hist, FALSE)
      BY <1>2, <1>3 DEF P!SensorUnavailable
    <2>3. Tells(d, p, accs[d], hist[d])
      BY <1>6 DEF Told
    <2>4. IsProfile(q) /\ q.watts = p.watts /\ q.peak = p.peak /\ q.stage = p.stage
      <3>1. IsProfile(p)
        BY <2>3 DEF Tells
      <3> QED
        BY <3>1, SensorLost
    <2>5. Tells(d, q, accs[d], hist[d])
      BY <2>3, <2>4 DEF Tells
    <2>6. Replaced(profs, d, q, ps) /\ Replaced(accs, d, accs[d], accs) /\ Replaced(hist, d, hist[d], hist)
      BY <1>3 DEF Replaced
    <2>7. q.stage = "optimized" => profs[d].stage = "optimized"
      BY <2>4
    <2>8. Told(ps, accs, hist)
      BY <1>6, <2>5, <2>6, <2>7, OneTold
    <2>9. P!Ingested(st, sample) = P!Midway(ps, accs, hist, FALSE)
      BY <2>1, <2>2
    <2>10. \A x : IsMidway(P!Midway(ps, accs, hist, x))
      BY <2>8, MidwayTold
    <2> QED
      BY <2>9, <2>10
  <1>7. CASE ~(thrown \/ w = Invalid) /\ d \in P!Registered /\ w # Absent
    <2>1. PICK p, a, h : p = profs[d] /\ a = accs[d] /\ h = hist[d]
      OBVIOUS
    <2>2. PICK m, b : m = P!Max({a.peak, w}) /\ b = [count |-> a.count + 1, sum |-> a.sum + w, peak |-> m]
      OBVIOUS
    <2>3. PICK e : e = P!Efficiency(p, b, workloads[d])
      OBVIOUS
    <2>4. PICK q, k : /\ q = [watts |-> w, peak |-> m, health |-> P!AssessHealth(d, w), stage |-> P!Advanced(p.stage),
                              sensor |-> TRUE, trend |-> e.trend, hashes |-> e.hashes, revenue |-> e.revenue]
                      /\ k = Append(h, w)
      OBVIOUS
    <2>5. PICK ps, as, hs : Replaced(profs, d, q, ps) /\ Replaced(accs, d, b, as) /\ Replaced(hist, d, k, hs)
      BY DEF Replaced
    <2>6. Tells(d, p, a, h) /\ w \in Nat
      BY <1>1, <1>7, <2>1 DEF Told
    <2>7. P!Ingested(st, sample) = P!ApplySample(st, d, w)
      BY <1>2, <1>7 DEF P!Ingested
    <2>8. P!ApplySample(st, d, w) = P!Midway(ps, as, hs, FALSE)
      BY <1>2, <2>1, <2>2, <2>3, <2>4, <2>5 DEF P!ApplySample, Replaced
    <2>9. IsProfile(q) /\ q.watts = w /\ q.peak = m /\ q.stage = P!Advanced(p.stage)
      BY <2>4 DEF IsProfile
    <2>10. q.stage = "optimized" => profs[d].stage = "optimized"
      BY <2>1, <2>9 DEF P!Advanced
    <2>11. Tells(d, q, b, k)
      <3>1. Tells(d, q, b, Append(h, w))
        BY <1>1, <2>2, <2>6, <2>9, SampleTells
      <3> QED
        BY <2>4, <3>1
    <2>12. Told(ps, as, hs)
      BY <1>7, <2>5, <2>10, <2>11, OneTold
    <2>13. P!Ingested(st, sample) = P!Midway(ps, as, hs, FALSE)
      BY <2>7, <2>8
    <2> QED
      BY <2>12, <2>13, MidwayTold, Zenon
  <1> QED
    BY <1>4, <1>5, <1>6, <1>7

\* Batches are taken sample by sample.
LEMMA BatchKeeps ==
  ASSUME P!PowerAssumption, IsMidway(P!Current), NEW samples \in Seq(P!PowerSample)
  PROVE  IsMidway(P!FoldLeft(P!Ingested, P!Current, samples))
  <1> DEFINE N == Len(samples)
  <1>1. N \in Nat /\ DOMAIN samples = 1..N /\ \A n \in 1..N : samples[n] \in P!PowerSample
    OBVIOUS
  <1> HIDE DEF N
  <1>2. PICK g : /\ g[0] = P!Current /\ g[N] = P!FoldLeft(P!Ingested, P!Current, samples)
                 /\ \A n \in 1..N : g[n] = P!Ingested(g[n - 1], samples[n])
    BY <1>1, CollectedInTurn
  <1> DEFINE Wrong == {n \in 0..N : ~IsMidway(g[n])}
  <1>3. Wrong = {}
    <2> SUFFICES ASSUME Wrong # {} PROVE FALSE
      OBVIOUS
    <2>1. Wrong \in SUBSET Nat
      BY <1>1
    <2>2. PICK n \in Wrong : \A m \in Wrong : n <= m
      BY <2>1, Least
    <2>3. n # 0 /\ n \in 0..N
      BY <1>2
    <2>4. n - 1 \in 0..N /\ n \in 1..N /\ n - 1 \notin Wrong
      BY <1>1, <2>2, <2>3
    <2>5. IsMidway(P!Ingested(g[n - 1], samples[n]))
      BY <1>1, <2>4, SampleKeeps
    <2> QED
      BY <1>2, <2>4, <2>5
  <1>4. N \in 0..N
    BY <1>1
  <1> QED
    BY <1>2, <1>3, <1>4

----------------------------------------------------------------------------
(* Power.  What a profile tells is told by the sums of its samples, which are   *)
(* those of the latest points of the history.                                   *)

IsBudget(x) == x = [scope |-> x.scope, limit |-> x.limit, watts |-> x.watts, exceeded |-> x.exceeded]
BudgetsInv ==
  /\ powerBudgets = [b \in Budgets |-> powerBudgets[b]] /\ budgetHeard = [b \in Budgets |-> budgetHeard[b]]
  /\ \A b \in Budgets : powerBudgets[b] # Absent => IsBudget(powerBudgets[b]) /\ powerBudgets[b].exceeded \in BOOLEAN
  /\ P!BudgetsAreHeard
PowerInv == Told(powerProfiles, accounts, powerHistory) /\ BudgetsInv

LEMMA ToldNow ==
  ASSUME powerProfiles' = [d \in PowerUnits |-> powerProfiles'[d]], accounts' = [d \in PowerUnits |-> accounts'[d]],
         powerHistory' \in [PowerUnits -> Seq(Nat)],
         \A d \in P!Registered' : Tells(d, powerProfiles'[d], accounts'[d], powerHistory'[d]) /\ Advised(d, powerProfiles[d])'
  PROVE  Told(powerProfiles, accounts, powerHistory)'
  <1>1. \A d \in PowerUnits \ P!Registered' : powerProfiles'[d] = Absent
    BY DEF P!Registered
  <1> QED
    BY <1>1 DEF Told

\* The outcome of a batch is the state.
LEMMA Outcome ==
  ASSUME NEW st, IsMidway(st), powerProfiles' = st.profiles, accounts' = st.accounts, powerHistory' = st.history,
         recommendations' = recommendations
  PROVE  Told(powerProfiles, accounts, powerHistory)'
  <1>1. PICK profs, accs, hist, thrown : Told(profs, accs, hist) /\ st = P!Midway(profs, accs, hist, thrown)
    BY DEF IsMidway
  <1>2. powerProfiles' = profs /\ accounts' = accs /\ powerHistory' = hist
    BY <1>1 DEF P!Midway
  <1>3. \A d \in P!Registered' : d \in P!Registered
    BY <1>1, <1>2 DEF P!Registered, Told
  <1>4. \A d \in P!Registered' : Tells(d, powerProfiles'[d], accounts'[d], powerHistory'[d]) /\ Advised(d, powerProfiles[d])'
    BY <1>1, <1>2, <1>3 DEF Told, Advised
  <1>5. /\ powerProfiles' = [d \in PowerUnits |-> powerProfiles'[d]] /\ accounts' = [d \in PowerUnits |-> accounts'[d]]
        /\ powerHistory' \in [PowerUnits -> Seq(Nat)]
    BY <1>1, <1>2 DEF Told
  <1> QED
    BY <1>4, <1>5, ToldNow

\* The same with advice, and devices that it makes optimized.
LEMMA OptimizedTells ==
  ASSUME NEW d, NEW p, NEW a, NEW h, Tells(d, p, a, h), p.stage = "analyzed", NEW q, q = [p EXCEPT !.stage = "optimized"]
  PROVE  Tells(d, q, a, h) /\ q.stage = "optimized"
  <1>1. PICK watts, peak, health, stage, sensor, trend, hashes, revenue :
        p = [watts |-> watts, peak |-> peak, health |-> health, stage |-> stage, sensor |-> sensor,
             trend |-> trend, hashes |-> hashes, revenue |-> revenue]
    BY DEF Tells, IsProfile
  <1>2. \A x : [p EXCEPT !.stage = x] =
                 [watts |-> watts, peak |-> peak, health |-> health, stage |-> x, sensor |-> sensor,
                  trend |-> trend, hashes |-> hashes, revenue |-> revenue]
    BY <1>1
  <1>3. q = [watts |-> watts, peak |-> peak, health |-> health, stage |-> "optimized", sensor |-> sensor,
             trend |-> trend, hashes |-> hashes, revenue |-> revenue]
    BY <1>2, Zenon
  <1>4. IsProfile(q) /\ q.watts = p.watts /\ q.peak = p.peak /\ q.stage = "optimized"
    BY <1>1, <1>3 DEF IsProfile
  <1> QED
    BY <1>4 DEF Tells

LEMMA CollectTells ==
  ASSUME NEW st, IsMidway(st), NEW offers, recommendations \subseteq offers, powerProfiles' = P!Optimized(st.profiles, offers),
         accounts' = st.accounts, powerHistory' = st.history, recommendations' = offers
  PROVE  Told(powerProfiles, accounts, powerHistory)'
  <1>1. PICK profs, accs, hist, thrown : Told(profs, accs, hist) /\ st = P!Midway(profs, accs, hist, thrown)
    BY DEF IsMidway
  <1>2. powerProfiles' = P!Optimized(profs, offers) /\ accounts' = accs /\ powerHistory' = hist
    BY <1>1 DEF P!Midway
  <1>3. powerProfiles' = [d \in PowerUnits |-> powerProfiles'[d]]
    BY <1>2 DEF P!Optimized
  <1>4. ASSUME NEW d \in P!Registered'
        PROVE  Tells(d, powerProfiles'[d], accounts'[d], powerHistory'[d]) /\ Advised(d, powerProfiles[d])'
    <2>1. d \in PowerUnits /\ powerProfiles'[d] # Absent
      BY DEF P!Registered
    <2>2. powerProfiles'[d] = IF profs[d] # Absent /\ profs[d].stage = "analyzed" /\ \E r \in offers : r.of = d
                              THEN [profs[d] EXCEPT !.stage = "optimized"] ELSE profs[d]
      BY <1>2, <2>1 DEF P!Optimized
    <2>3. d \in P!Registered
      BY <1>1, <2>1, <2>2 DEF Told
    <2>4. Tells(d, profs[d], accs[d], hist[d]) /\ Advised(d, profs[d])
      BY <1>1, <2>3 DEF Told
    <2>5. CASE profs[d] # Absent /\ profs[d].stage = "analyzed" /\ \E r \in offers : r.of = d
      <3>1. powerProfiles'[d] = [profs[d] EXCEPT !.stage = "optimized"]
        BY <2>2, <2>5
      <3>2. Tells(d, powerProfiles'[d], accs[d], hist[d])
        BY <2>4, <2>5, <3>1, OptimizedTells
      <3> QED
        BY <1>2, <2>5, <3>2 DEF Advised
    <2>6. CASE ~(profs[d] # Absent /\ profs[d].stage = "analyzed" /\ \E r \in offers : r.of = d)
      <3>1. powerProfiles'[d] = profs[d]
        BY <2>2, <2>6
      <3> QED
        BY <1>2, <2>4, <3>1 DEF Advised
    <2> QED
      BY <2>5, <2>6
  <1>5. accounts' = [d \in PowerUnits |-> accounts'[d]] /\ powerHistory' \in [PowerUnits -> Seq(Nat)]
    BY <1>1, <1>2 DEF Told
  <1> QED
    BY <1>3, <1>4, <1>5, ToldNow

LEMMA PowerStarts == P!PowerAssumption /\ P!Init => PowerInv
  <1> SUFFICES ASSUME P!PowerAssumption, P!Init PROVE PowerInv
    OBVIOUS
  <1>1. P!Registered = {}
    BY DEF P!Registered, P!Init
  <1>2. Told(powerProfiles, accounts, powerHistory)
    BY <1>1 DEF P!Init, Told
  <1>3. BudgetsInv
    BY DEF P!Init, BudgetsInv, P!BudgetsAreHeard
  <1> QED
    BY <1>2, <1>3 DEF PowerInv

\* A history without points of a device that is registered anew.
LEMMA OpenedTells ==
  ASSUME NEW d, Idle[d] \in Nat, NEW h \in Seq(Nat), NEW p, IsProfile(p), p.watts = Idle[d], p.peak = Idle[d], p.stage = "profiled"
  PROVE  Tells(d, p, P!Opened(d), h)
  <1>1. Points(0, h) \in Seq(Nat) /\ Len(Points(0, h)) = 0 /\ 0 \in 0..Len(h)
    BY PointsAre
  <1>2. Points(0, h) = <<>>
    BY <1>1
  <1>3. Sum(Points(0, h)) = 0 /\ P!ToSet(Points(0, h)) = {}
    BY <1>2, SumOfNone DEF P!ToSet
  <1>4. Highest(Idle[d], {Idle[d]} \union P!ToSet(Points(0, h)))
    BY <1>3 DEF Highest
  <1>5. P!Opened(d).count = 0 /\ P!Opened(d).sum = 0 /\ P!Opened(d).peak = Idle[d] /\ IsAccount(P!Opened(d))
    BY DEF P!Opened, IsAccount
  <1> QED
    BY <1>1, <1>3, <1>4, <1>5 DEF Tells

LEMMA RegisterTells ==
  ASSUME P!PowerAssumption, PowerInv, NEW d \in PowerUnits, P!RegisterDevice(d)
  PROVE  PowerInv'
  <1>1. PICK p : p = [watts |-> Idle[d], peak |-> Idle[d], health |-> "unknown", stage |-> "profiled", sensor |-> FALSE,
                      trend |-> "unknown", hashes |-> Absent, revenue |-> Absent]
    OBVIOUS
  <1>2. IsProfile(p) /\ p.watts = Idle[d] /\ p.peak = Idle[d] /\ p.stage = "profiled"
    BY <1>1 DEF IsProfile
  <1>3. powerProfiles' = [powerProfiles EXCEPT ![d] = p] /\ accounts' = [accounts EXCEPT ![d] = P!Opened(d)]
        /\ UNCHANGED <<powerHistory, powerBudgets, recommendations, budgetHeard>>
    BY <1>1 DEF P!RegisterDevice
  <1>4. /\ powerProfiles' = [e \in PowerUnits |-> IF e = d THEN p ELSE powerProfiles[e]]
        /\ accounts' = [e \in PowerUnits |-> IF e = d THEN P!Opened(d) ELSE accounts[e]]
        /\ powerHistory \in [PowerUnits -> Seq(Nat)] /\ powerHistory' = powerHistory
    BY <1>3 DEF PowerInv, Told
  <1>5. ASSUME NEW e \in P!Registered'
        PROVE  Tells(e, powerProfiles'[e], accounts'[e], powerHistory'[e]) /\ Advised(e, powerProfiles[e])'
    <2>1. e \in PowerUnits /\ powerProfiles'[e] # Absent
      BY DEF P!Registered
    <2>2. CASE e = d
      <3>1. powerProfiles'[e] = p /\ accounts'[e] = P!Opened(d) /\ powerHistory'[e] = powerHistory[d]
        BY <1>4, <2>1, <2>2
      <3>2. Tells(d, p, P!Opened(d), powerHistory[d])
        BY <1>2, <1>4, OpenedTells DEF P!PowerAssumption
      <3> QED
        BY <1>2, <2>2, <3>1, <3>2 DEF Advised
    <2>3. CASE e # d
      <3>1. powerProfiles'[e] = powerProfiles[e] /\ accounts'[e] = accounts[e] /\ powerHistory'[e] = powerHistory[e]
        BY <1>4, <2>1, <2>3
      <3>2. e \in P!Registered
        BY <2>1, <3>1 DEF P!Registered
      <3>3. Tells(e, powerProfiles[e], accounts[e], powerHistory[e]) /\ Advised(e, powerProfiles[e])
        BY <3>2 DEF PowerInv, Told
      <3> QED
        BY <1>3, <3>1, <3>3 DEF Advised
    <2> QED
      BY <2>2, <2>3
  <1>6. powerProfiles' = [e \in PowerUnits |-> powerProfiles'[e]] /\ accounts' = [e \in PowerUnits |-> accounts'[e]]
    BY <1>4
  <1>7. Told(powerProfiles, accounts, powerHistory)'
    BY <1>4, <1>5, <1>6, ToldNow
  <1>8. BudgetsInv'
    BY <1>3 DEF PowerInv, BudgetsInv, P!BudgetsAreHeard
  <1> QED
    BY <1>7, <1>8 DEF PowerInv

\* Budgets: whoever listens knows the answer before, and hears of one that changes.
LEMMA BudgetChanged ==
  ASSUME NEW r, IsBudget(r), NEW w, NEW x
  PROVE  LET e == [[r EXCEPT !.watts = w] EXCEPT !.exceeded = x] IN IsBudget(e) /\ e.exceeded = x
  <1>1. PICK scope, limit, watts, exceeded : r = [scope |-> scope, limit |-> limit, watts |-> watts, exceeded |-> exceeded]
    BY DEF IsBudget
  <1> DEFINE v == [r EXCEPT !.watts = w]
  <1>2. v = [scope |-> scope, limit |-> limit, watts |-> w, exceeded |-> exceeded]
    BY <1>1
  <1> HIDE DEF v
  <1>3. [v EXCEPT !.exceeded = x] = [scope |-> scope, limit |-> limit, watts |-> w, exceeded |-> x]
    BY <1>2
  <1> QED
    BY <1>3 DEF IsBudget, v

LEMMA EvaluatedBudgets ==
  ASSUME BudgetsInv, NEW ps, powerBudgets' = P!Evaluated(ps), budgetHeard' = P!Announced(P!Evaluated(ps))
  PROVE  BudgetsInv'
  <1>1. powerBudgets' = [b \in Budgets |-> powerBudgets'[b]] /\ budgetHeard' = [b \in Budgets |-> budgetHeard'[b]]
    BY DEF P!Evaluated, P!Announced
  <1>2. ASSUME NEW b \in Budgets, powerBudgets[b] # Absent
        PROVE  IsBudget(powerBudgets'[b]) /\ powerBudgets'[b].exceeded \in BOOLEAN
    <2>1. PICK w, limit : w = P!WattsOf(ps, powerBudgets[b].scope) /\ limit = powerBudgets[b].limit
      OBVIOUS
    <2>2. powerBudgets'[b] = [[powerBudgets[b] EXCEPT !.watts = w] EXCEPT !.exceeded = (w > limit)]
      BY <1>2, <2>1 DEF P!Evaluated
    <2>3. \A x : LET e == [[powerBudgets[b] EXCEPT !.watts = w] EXCEPT !.exceeded = x] IN IsBudget(e) /\ e.exceeded = x
      <3>1. IsBudget(powerBudgets[b])
        BY <1>2 DEF BudgetsInv
      <3> QED
        BY <3>1, BudgetChanged
    <2>4. IsBudget(powerBudgets'[b]) /\ powerBudgets'[b].exceeded = (w > limit)
      BY <2>2, <2>3, Zenon
    <2>5. (w > limit) \in BOOLEAN
      OBVIOUS
    <2> QED
      BY <2>4, <2>5, Zenon
  <1>3. \A b \in Budgets : powerBudgets[b] = Absent => powerBudgets'[b] = Absent
    BY DEF P!Evaluated
  <1>4. ASSUME NEW b \in Budgets, powerBudgets'[b] # Absent, budgetHeard'[b] # Absent
        PROVE  (budgetHeard'[b] = "exceeded") = powerBudgets'[b].exceeded
    <2>1. powerBudgets[b] # Absent
      BY <1>3, <1>4
    <2>2. powerBudgets[b].exceeded \in BOOLEAN /\ powerBudgets'[b].exceeded \in BOOLEAN
      BY <1>2, <2>1 DEF BudgetsInv
    <2>3. budgetHeard'[b] = IF powerBudgets[b].exceeded = powerBudgets'[b].exceeded THEN budgetHeard[b]
                            ELSE IF powerBudgets'[b].exceeded THEN "exceeded" ELSE "recovered"
      BY <2>1 DEF P!Announced
    <2>4. CASE powerBudgets[b].exceeded = powerBudgets'[b].exceeded
      <3>1. budgetHeard'[b] = budgetHeard[b]
        BY <2>3, <2>4
      <3>2. (budgetHeard[b] = "exceeded") = powerBudgets[b].exceeded
        BY <1>4, <2>1, <3>1 DEF BudgetsInv, P!BudgetsAreHeard
      <3> QED
        BY <2>4, <3>1, <3>2
    <2>5. CASE powerBudgets[b].exceeded # powerBudgets'[b].exceeded /\ powerBudgets'[b].exceeded
      BY <2>2, <2>3, <2>5
    <2>6. CASE powerBudgets[b].exceeded # powerBudgets'[b].exceeded /\ ~powerBudgets'[b].exceeded
      BY <2>2, <2>3, <2>6
    <2> QED
      BY <2>4, <2>5, <2>6
  <1> QED
    BY <1>1, <1>2, <1>3, <1>4 DEF BudgetsInv, P!BudgetsAreHeard

LEMMA SetBudgetKeeps ==
  ASSUME BudgetsInv, NEW b \in Budgets, NEW scope, NEW limit, P!SetBudget(b, scope, limit)
  PROVE  BudgetsInv'
  <1>1. PICK w : w = P!WattsOf(powerProfiles, scope)
    OBVIOUS
  <1>2. PICK x : x = (w > limit)
    OBVIOUS
  <1>3. PICK r : r = [scope |-> scope, limit |-> limit, watts |-> w, exceeded |-> x]
    OBVIOUS
  <1>4. powerBudgets' = [powerBudgets EXCEPT ![b] = r] /\ budgetHeard' = [budgetHeard EXCEPT ![b] = Absent]
    BY <1>1, <1>2, <1>3 DEF P!SetBudget
  <1>5. x \in BOOLEAN
    BY <1>2
  <1>6. IsBudget(r) /\ r.exceeded = x
    BY <1>3 DEF IsBudget
  <1>7. r.exceeded \in BOOLEAN
    BY <1>5, <1>6
  <1>8. powerBudgets'[b] = r /\ budgetHeard'[b] = Absent
        /\ \A e \in Budgets : e # b => powerBudgets'[e] = powerBudgets[e] /\ budgetHeard'[e] = budgetHeard[e]
    BY <1>4 DEF BudgetsInv
  <1>9. powerBudgets' = [e \in Budgets |-> powerBudgets'[e]] /\ budgetHeard' = [e \in Budgets |-> budgetHeard'[e]]
    BY <1>4 DEF BudgetsInv
  <1>10. \A e \in Budgets : powerBudgets'[e] # Absent => IsBudget(powerBudgets'[e]) /\ powerBudgets'[e].exceeded \in BOOLEAN
    BY <1>6, <1>7, <1>8 DEF BudgetsInv
  <1>11. \A e \in Budgets : powerBudgets'[e] # Absent /\ budgetHeard'[e] # Absent =>
                              (budgetHeard'[e] = "exceeded") = powerBudgets'[e].exceeded
    BY <1>8 DEF BudgetsInv, P!BudgetsAreHeard
  <1> QED
    BY <1>9, <1>10, <1>11 DEF BudgetsInv, P!BudgetsAreHeard

LEMMA PowerKeeps ==
  ASSUME P!PowerAssumption, PowerInv, P!Next
  PROVE  PowerInv'
  <1>1. IsMidway(P!Current) /\ Told(powerProfiles, accounts, powerHistory) /\ BudgetsInv
    BY DEF PowerInv, IsMidway, P!Current
  <1>2. UNCHANGED <<powerBudgets, budgetHeard>> => BudgetsInv'
    BY <1>1 DEF BudgetsInv, P!BudgetsAreHeard
  <1>3. UNCHANGED <<powerProfiles, accounts, powerHistory, recommendations>> => Told(powerProfiles, accounts, powerHistory)'
    BY <1>1 DEF Told, P!Registered, Advised
  <1>4. CASE \E d \in PowerUnits : P!RegisterDevice(d)
    BY <1>4, RegisterTells
  <1>5. CASE \E d \in PowerUnits : \E w \in Workload : P!SetWorkloadTelemetry(d, w)
    BY <1>2, <1>3, <1>5 DEF P!SetWorkloadTelemetry, PowerInv
  <1>6. ASSUME NEW s \in Samples, P!IngestTelemetry(s)
        PROVE  PowerInv'
    <2>1. PICK st : st = P!Ingested(P!Current, s)
      OBVIOUS
    <2>2. s \in P!PowerSample
      BY DEF P!PowerAssumption
    <2>3. IsMidway(st)
      BY <1>1, <2>1, <2>2, SampleKeeps
    <2>4. powerProfiles' = st.profiles /\ accounts' = st.accounts /\ powerHistory' = st.history
          /\ UNCHANGED <<powerBudgets, recommendations, budgetHeard>>
      BY <1>6, <2>1 DEF P!IngestTelemetry
    <2>5. Told(powerProfiles, accounts, powerHistory)'
      BY <2>3, <2>4, Outcome
    <2> QED
      BY <1>2, <2>4, <2>5 DEF PowerInv
  <1>7. ASSUME NEW b \in Budgets, NEW scope \in Scopes, NEW limit \in Limits, P!SetBudget(b, scope, limit)
        PROVE  PowerInv'
    <2>1. BudgetsInv'
      BY <1>1, <1>7, SetBudgetKeeps
    <2> QED
      BY <1>3, <1>7, <2>1 DEF PowerInv, P!SetBudget
  <1>8. ASSUME NEW samples \in PowerBatches, P!CollectionThrows(samples)
        PROVE  PowerInv'
    <2>1. PICK st : st = P!FoldLeft(P!Ingested, P!Current, samples)
      OBVIOUS
    <2>2. samples \in Seq(P!PowerSample)
      BY DEF P!PowerAssumption
    <2>3. IsMidway(st)
      BY <1>1, <2>1, <2>2, BatchKeeps
    <2>4. powerProfiles' = st.profiles /\ accounts' = st.accounts /\ powerHistory' = st.history
          /\ UNCHANGED <<powerBudgets, recommendations, budgetHeard>>
      BY <1>8, <2>1 DEF P!CollectionThrows
    <2>5. Told(powerProfiles, accounts, powerHistory)'
      BY <2>3, <2>4, Outcome
    <2> QED
      BY <1>2, <2>4, <2>5 DEF PowerInv
  <1>9. ASSUME NEW samples \in PowerBatches, NEW peakWindow \in BOOLEAN, P!CollectAndUpdate(samples, peakWindow)
        PROVE  PowerInv'
    <2>1. PICK st : st = P!FoldLeft(P!Ingested, P!Current, samples)
      OBVIOUS
    <2>2. samples \in Seq(P!PowerSample)
      BY DEF P!PowerAssumption
    <2>3. IsMidway(st)
      BY <1>1, <2>1, <2>2, BatchKeeps
    <2>4. PICK offers : offers = recommendations \union P!Advice(st.profiles, P!Evaluated(st.profiles), peakWindow)
      OBVIOUS
    <2>5. powerProfiles' = P!Optimized(st.profiles, offers) /\ accounts' = st.accounts /\ powerHistory' = st.history
          /\ recommendations' = offers /\ powerBudgets' = P!Evaluated(st.profiles)
          /\ budgetHeard' = P!Announced(P!Evaluated(st.profiles))
      BY <1>9, <2>1, <2>4 DEF P!CollectAndUpdate
    <2>6. Told(powerProfiles, accounts, powerHistory)'
      BY <2>3, <2>4, <2>5, CollectTells
    <2>7. BudgetsInv'
      BY <1>1, <2>5, EvaluatedBudgets
    <2> QED
      BY <2>6, <2>7 DEF PowerInv
  <1> QED
    BY <1>4, <1>5, <1>6, <1>7, <1>8, <1>9 DEF P!Next

\* What the properties say of it.
Reads(d, p, a, h) ==
  /\ a.count <= Len(h) /\ a.sum = Sum(Points(a.count, h))
  /\ p.peak = P!Max({Idle[d]} \union P!ToSet(Points(a.count, h)))
  /\ p.watts = IF Points(a.count, h) = <<>> THEN Idle[d] ELSE P!Last(Points(a.count, h))

LEMMA TellsReads ==
  ASSUME NEW d, NEW p, NEW a, NEW h, Tells(d, p, a, h), Idle[d] \in Nat
  PROVE  Reads(d, p, a, h)
  <1>1. h \in Seq(Nat) /\ a.count \in 0..Len(h) /\ Len(h) \in Nat
    BY DEF Tells
  <1>2. PICK t : t = Points(a.count, h)
    OBVIOUS
  <1>3. t \in Seq(Nat) /\ Len(t) = a.count /\ \A i \in 1..a.count : t[i] = h[Len(h) - a.count + i]
    <2>1. /\ Points(a.count, h) \in Seq(Nat) /\ Len(Points(a.count, h)) = a.count
          /\ \A i \in 1..a.count : Points(a.count, h)[i] = h[Len(h) - a.count + i]
      BY <1>1, PointsAre
    <2> QED
      BY <1>2, <2>1
  <1>4. {Idle[d]} \union P!ToSet(t) \in SUBSET Int
    BY <1>3 DEF P!ToSet
  <1>5. Highest(a.peak, {Idle[d]} \union P!ToSet(t)) /\ p.peak = a.peak
    BY <1>2 DEF Tells
  <1>6. p.peak = P!Max({Idle[d]} \union P!ToSet(t))
    BY <1>4, <1>5, HighestIsMax
  <1>7. p.watts = IF t = <<>> THEN Idle[d] ELSE P!Last(t)
    <2>1. CASE a.count = 0
      <3>1. t = <<>>
        BY <1>3, <2>1
      <3> QED
        BY <2>1, <3>1 DEF Tells
    <2>2. CASE a.count # 0
      <3>1. t # <<>> /\ t[Len(t)] = h[Len(h)]
        <4>1. a.count \in 1..a.count /\ Len(h) - a.count + a.count = Len(h)
          BY <1>1, <2>2
        <4> QED
          BY <1>3, <2>2, <4>1
      <3> QED
        BY <2>2, <3>1 DEF Tells, P!Last
    <2> QED
      BY <2>1, <2>2
  <1>8. a.sum = Sum(t)
    BY <1>2 DEF Tells
  <1>9. a.count <= Len(h)
    BY <1>1
  <1> QED
    BY <1>2, <1>6, <1>7, <1>8, <1>9 DEF Reads

LEMMA PowerReadings ==
  ASSUME P!PowerAssumption, PowerInv
  PROVE  P!ProfilesTellHistory /\ P!StagesAreEarned /\ P!BudgetsAreHeard
  <1>1. ASSUME NEW d \in P!Registered
        PROVE  Tells(d, powerProfiles[d], accounts[d], powerHistory[d]) /\ Advised(d, powerProfiles[d]) /\ Idle[d] \in Nat
    BY DEF PowerInv, Told, P!PowerAssumption, P!Registered
  <1>2. P!ProfilesTellHistory
    <2>1. \A d \in P!Registered : Reads(d, powerProfiles[d], accounts[d], powerHistory[d])
      BY <1>1, TellsReads
    <2> QED
      BY <2>1 DEF P!ProfilesTellHistory, Reads, Points, Sum
  <1>3. P!StagesAreEarned
    BY <1>1 DEF P!StagesAreEarned, Tells, Advised
  <1> QED
    BY <1>2, <1>3 DEF PowerInv, BudgetsInv

----------------------------------------------------------------------------
(* Thermal.  What a sample makes of a device says the same of it, whatever it   *)
(* was before.                                                                  *)

Lowest(x, S) == x \in S /\ \A y \in S : x <= y

\* Finite sets of numbers have extremes: of those without take a smallest.
LEMMA ExtremesExist ==
  ASSUME NEW S \in SUBSET Int, IsFiniteSet(S), S # {}
  PROVE  \E x, y : Highest(x, S) /\ Lowest(y, S)
  <1> DEFINE bad == {F \in SUBSET S : F # {} /\ ~\E x, y : Highest(x, F) /\ Lowest(y, F)}
             sizes == {Cardinality(F) : F \in bad}
  <1> SUFFICES ASSUME S \in bad PROVE FALSE
    OBVIOUS
  <1>1. \A F \in bad : IsFiniteSet(F) /\ Cardinality(F) \in Nat
    BY FS_Subset, FS_CardinalityType
  <1>2. PICK m \in sizes : \A n \in sizes : m <= n
    <2>1. sizes \in SUBSET Nat /\ sizes # {}
      BY <1>1
    <2> HIDE DEF sizes
    <2> QED
      BY <2>1, Least
  <1>3. PICK F \in bad : m = Cardinality(F)
    OBVIOUS
  <1>4. F \in SUBSET S /\ F # {} /\ ~\E x, y : Highest(x, F) /\ Lowest(y, F)
    OBVIOUS
  <1>5. PICK z \in F : TRUE
    BY <1>4
  <1>6. Cardinality(F \ {z}) = Cardinality(F) - 1
    BY <1>1, <1>5, FS_RemoveElement
  <1>7. F \ {z} \notin bad
    <2> SUFFICES ASSUME F \ {z} \in bad PROVE FALSE
      OBVIOUS
    <2>1. Cardinality(F \ {z}) \in sizes /\ Cardinality(F) \in Nat
      BY <1>1
    <2> HIDE DEF sizes
    <2> QED
      BY <1>2, <1>3, <1>6, <2>1
  <1>8. F \ {z} = {} \/ \E x, y : Highest(x, F \ {z}) /\ Lowest(y, F \ {z})
    BY <1>4, <1>7
  <1> HIDE DEF bad, sizes
  <1>9. \A y \in F : y \in Int
    BY <1>4
  <1>10. CASE F \ {z} = {}
    <2>1. Highest(z, F) /\ Lowest(z, F)
      BY <1>5, <1>9, <1>10 DEF Highest, Lowest
    <2> QED
      BY <1>4, <2>1
  <1>11. ASSUME NEW x, NEW y, Highest(x, F \ {z}), Lowest(y, F \ {z}) PROVE FALSE
    <2>1. Highest(IF x <= z THEN z ELSE x, F)
      BY <1>5, <1>9, <1>11 DEF Highest
    <2>2. Lowest(IF z <= y THEN z ELSE y, F)
      BY <1>5, <1>9, <1>11 DEF Lowest
    <2> QED
      BY <1>4, <2>1, <2>2
  <1> QED
    BY <1>8, <1>10, <1>11

LEMMA ExtremesAre ==
  ASSUME NEW S \in SUBSET Int, IsFiniteSet(S), S # {}
  PROVE  /\ T!Max(S) \in Int /\ \A y \in S : y <= T!Max(S)
         /\ T!Min(S) \in Int /\ \A y \in S : T!Min(S) <= y
  <1>1. PICK x, z : Highest(x, S) /\ Lowest(z, S)
    BY ExtremesExist
  <1>2. \A w \in S : (\A y \in S : w >= y) <=> w = x
    BY <1>1 DEF Highest
  <1>3. \A w \in S : (\A y \in S : w <= y) <=> w = z
    BY <1>1 DEF Lowest
  <1>4. T!Max(S) = x
    BY <1>1, <1>2 DEF T!Max, Highest
  <1>5. T!Min(S) = z
    BY <1>1, <1>3 DEF T!Min, Lowest
  <1> QED
    BY <1>1, <1>4, <1>5 DEF Highest, Lowest

\* What is kept of a device: its profile p, its history h, the note of its forecast, the advice about it
\* and what was last heard of it.
IsReading(p) ==
  p = [celsius |-> p.celsius, idle |-> p.idle, peak |-> p.peak, min |-> p.min, state |-> p.state, stage |-> p.stage,
       sensor |-> p.sensor]
ThermalStages == {"discovered", "profiled", "monitored", "analyzed", "forecasted", "recommended", "archived"}
Heard(p, told) == p.state \in {"warning", "critical"} => told = p.state
Warned(p, advised) ==
  /\ p.state = "critical" => "reduce-workload" \in advised
  /\ p.state = "warning" => "consider-reducing" \in advised
Earned(stage, h, note, advised) ==
  /\ stage \in ThermalStages
  /\ stage \in {"analyzed", "forecasted", "recommended"} => Len(h) >= 2 /\ note # Absent
  /\ stage = "recommended" => advised # {}
Covers(p, h) ==
  /\ p.peak \in Int \union {Absent} /\ p.min \in Int \union {Absent}
  /\ p.peak # Absent => \A i \in 1..Len(h) : p.min <= h[i] /\ h[i] <= p.peak
Measures(p, h, note, advised, told) ==
  IsReading(p) /\ Heard(p, told) /\ Warned(p, advised) /\ Earned(p.stage, h, note, advised) /\ Covers(p, h)

Restaged(p, x, q) == q = [p EXCEPT !.stage = x]
LEMMA StageChanged ==
  ASSUME NEW p, IsReading(p), NEW x, NEW q, Restaged(p, x, q)
  PROVE  IsReading(q) /\ q.state = p.state /\ q.peak = p.peak /\ q.min = p.min /\ q.stage = x
  <1>1. PICK celsius, idle, peak, min, state, stage, sensor :
        p = [celsius |-> celsius, idle |-> idle, peak |-> peak, min |-> min, state |-> state, stage |-> stage, sensor |-> sensor]
    BY DEF IsReading
  <1>2. [p EXCEPT !.stage = x] =
          [celsius |-> celsius, idle |-> idle, peak |-> peak, min |-> min, state |-> state, stage |-> x, sensor |-> sensor]
    BY <1>1
  <1> QED
    BY <1>1, <1>2 DEF IsReading, Restaged

LEMMA SensorChanged ==
  ASSUME NEW p, IsReading(p), NEW x, NEW y
  PROVE  LET q == [[p EXCEPT !.sensor = x] EXCEPT !.state = y] IN
         IsReading(q) /\ q.state = y /\ q.peak = p.peak /\ q.min = p.min /\ q.stage = p.stage
  <1>1. PICK celsius, idle, peak, min, state, stage, sensor :
        p = [celsius |-> celsius, idle |-> idle, peak |-> peak, min |-> min, state |-> state, stage |-> stage, sensor |-> sensor]
    BY DEF IsReading
  <1> DEFINE v == [p EXCEPT !.sensor = x]
  <1>2. v = [celsius |-> celsius, idle |-> idle, peak |-> peak, min |-> min, state |-> state, stage |-> stage, sensor |-> x]
    BY <1>1
  <1> HIDE DEF v
  <1>3. [v EXCEPT !.state = y] =
          [celsius |-> celsius, idle |-> idle, peak |-> peak, min |-> min, state |-> y, stage |-> stage, sensor |-> x]
    BY <1>2
  <1> QED
    BY <1>1, <1>3 DEF IsReading, v

\* The stages: only a trend leads to those that need one, only advice to the last.
LEMMA AdvancesEarned ==
  ASSUME NEW stage \in ThermalStages, NEW h, NEW k, Len(h) \in Nat, Len(k) \in Nat, Len(h) <= Len(k),
         NEW note, NEW n, NEW advised, NEW recs, NEW trended,
         stage # "discovered" => Earned(stage, h, note, advised),
         IF trended THEN Len(k) >= 2 /\ n # Absent ELSE n = note
  PROVE  Earned(T!Analyzed(stage, trended, recs # {}), k, n, recs)
  <1>1. \A x \in ThermalStages :
          /\ T!Advance(x, "analyzed") = IF x \in {"monitored", "forecasted"} THEN "analyzed" ELSE x
          /\ T!Advance(x, "forecasted") = IF x = "analyzed" THEN "forecasted" ELSE x
          /\ T!Advance(x, "monitored") = IF x \in {"profiled", "analyzed", "recommended"} THEN "monitored" ELSE x
          /\ T!Advance(x, "recommended") = IF x = "forecasted" THEN "recommended" ELSE x
    BY DEF T!Advance, T!Transitions, ThermalStages
  <1> DEFINE f == IF trended THEN T!Advance(T!Advance(stage, "analyzed"), "forecasted") ELSE stage
             m == T!Advance(f, "monitored")
  <1>2. f \in ThermalStages /\ (f \in {"analyzed", "forecasted", "recommended"} => Len(k) >= 2 /\ n # Absent)
    <2>1. CASE trended
      BY <1>1, <2>1 DEF ThermalStages
    <2>2. CASE ~trended
      BY <2>2 DEF Earned
    <2> QED
      BY <2>1, <2>2
  <1>3. m \in ThermalStages \ {"recommended"} /\ (m \in {"analyzed", "forecasted"} => Len(k) >= 2 /\ n # Absent)
    BY <1>1, <1>2 DEF ThermalStages
  <1>4. T!Analyzed(stage, trended, recs # {}) = IF recs # {} THEN T!Advance(m, "recommended") ELSE m
    BY DEF T!Analyzed, T!AdvanceIf
  <1> HIDE DEF m, f
  <1> QED
    BY <1>1, <1>3, <1>4 DEF Earned, ThermalStages

\* What a sample measures.
Taken(p, s, d, q, h, k) ==
  /\ IsReading(p) /\ p.state = T!ThermalState(s.celsius, T!BudgetOf(d), s.available) /\ p.sensor = s.available
  /\ p.stage = (IF q = Absent THEN "discovered" ELSE q.stage) /\ Covers(p, k)
  /\ k \in Seq(Int) /\ Len(h) <= Len(k)

LEMMA MeasuredIs ==
  ASSUME NEW st, NEW s \in T!ThermalSample, NEW d, d = s.device, NEW q, q = st.profiles[d], NEW h, h = st.history[d],
         h \in Seq(Int), q # Absent => Covers(q, h), NEW p, p = T!Measured(st, s),
         NEW k, k = IF s.available THEN Append(h, s.celsius) ELSE h
  PROVE  Taken(p, s, d, q, h, k)
  <1>1. s.celsius \in Int /\ s.available \in BOOLEAN
    BY DEF T!ThermalSample
  <1>2. PICK seen : seen = {s.celsius} \union T!ToSet(h)
    OBVIOUS
  <1>3. PICK high, low : /\ high = seen \union IF q = Absent \/ q.peak = Absent THEN {} ELSE {q.peak}
                         /\ low = seen \union IF q = Absent \/ q.min = Absent THEN {} ELSE {q.min}
    OBVIOUS
  <1>4. p = [celsius |-> s.celsius, idle |-> IF q = Absent THEN Absent ELSE q.idle, peak |-> T!Max(high), min |-> T!Min(low),
             state |-> T!ThermalState(s.celsius, T!BudgetOf(d), s.available),
             stage |-> IF q = Absent THEN "discovered" ELSE q.stage, sensor |-> s.available]
    BY <1>2, <1>3 DEF T!Measured
  <1>5. seen \in SUBSET Int /\ IsFiniteSet(seen) /\ s.celsius \in seen /\ \A i \in 1..Len(h) : h[i] \in seen
    <2>1. Len(h) \in Nat /\ DOMAIN h = 1..Len(h) /\ \A i \in 1..Len(h) : h[i] \in Int
      OBVIOUS
    <2>2. h \in Surjection(1..Len(h), T!ToSet(h)) /\ T!ToSet(h) \in SUBSET Int /\ \A i \in 1..Len(h) : h[i] \in T!ToSet(h)
      <3>1. \A x : x \in T!ToSet(h) <=> \E i \in 1..Len(h) : h[i] = x
        BY <2>1 DEF T!ToSet
      <3>2. h \in [1..Len(h) -> T!ToSet(h)]
        <4>1. h \in [1..Len(h) -> Int]
          OBVIOUS
        <4>2. \A i \in 1..Len(h) : h[i] \in T!ToSet(h)
          BY <3>1
        <4> QED
          BY <4>1, <4>2
      <3> QED
        BY <2>1, <3>1, <3>2 DEF Surjection
    <2>3. IsFiniteSet(1..Len(h))
      BY <2>1, FS_Interval
    <2>4. IsFiniteSet(T!ToSet(h))
      BY <2>2, <2>3, FS_Surjection
    <2>5. IsFiniteSet({s.celsius})
      BY FS_Singleton
    <2> QED
      BY <1>1, <1>2, <2>1, <2>2, <2>4, <2>5, FS_Union
  <1>6. /\ high \in SUBSET Int /\ IsFiniteSet(high) /\ seen \subseteq high
        /\ low \in SUBSET Int /\ IsFiniteSet(low) /\ seen \subseteq low
    <2>1. \A x : IsFiniteSet({x}) /\ IsFiniteSet(seen \union {x})
      BY <1>5, FS_Singleton, FS_Union
    <2> QED
      BY <1>3, <1>5, <2>1 DEF Covers
  <1>7. /\ T!Max(high) \in Int /\ \A y \in seen : y <= T!Max(high)
        /\ T!Min(low) \in Int /\ \A y \in seen : T!Min(low) <= y
    BY <1>5, <1>6, ExtremesAre
  <1>8. k \in Seq(Int) /\ Len(h) <= Len(k) /\ \A i \in 1..Len(k) : k[i] \in seen
    BY <1>1, <1>5
  <1>9. p.peak \in Int /\ p.min \in Int /\ \A y \in seen : p.min <= y /\ y <= p.peak
    BY <1>4, <1>7
  <1>10. Covers(p, k)
    BY <1>8, <1>9 DEF Covers
  <1> QED
    BY <1>4, <1>8, <1>10 DEF IsReading, Taken

\* A sample of a device, whatever was known of it.
LEMMA SampleMeasures ==
  ASSUME T!ThermalAssumption, NEW s \in T!ThermalSample, NEW d, NEW q, NEW h \in Seq(Int), NEW note, NEW advised, NEW told,
         q # Absent => Measures(q, h, note, advised, told), NEW p, NEW k, Taken(p, s, d, q, h, k),
         NEW a, a = T!RunAnalysis(d, p, q, k, s.fan, note),
         NEW r, Restaged(p, T!Analyzed(p.stage, a.trended, a.advice # {}), r),
         NEW t, t = T!Announced(IF q = Absent THEN Absent ELSE q.state, p.state, told)
  PROVE  Measures(r, k, a.note, a.advice, t) /\ k \in Seq(Int)
  <1>1. /\ IsReading(p) /\ p.state = T!ThermalState(s.celsius, T!BudgetOf(d), s.available) /\ p.sensor = s.available
        /\ p.stage = (IF q = Absent THEN "discovered" ELSE q.stage) /\ Covers(p, k)
        /\ k \in Seq(Int) /\ Len(h) <= Len(k)
    BY DEF Taken
  <1>2. IsReading(r) /\ r.state = p.state /\ r.peak = p.peak /\ r.min = p.min
        /\ r.stage = T!Analyzed(p.stage, a.trended, a.advice # {})
    <2>1. PICK x : x = T!Analyzed(p.stage, a.trended, a.advice # {})
      OBVIOUS
    <2>2. Restaged(p, x, r)
      BY <2>1
    <2>3. IsReading(r) /\ r.state = p.state /\ r.peak = p.peak /\ r.min = p.min /\ r.stage = x
      BY <1>1, <2>2, StageChanged
    <2> QED
      BY <2>1, <2>3
  <1>3. Heard(r, t)
    <2>1. q # Absent => Heard(q, told)
      BY DEF Measures
    <2>2. Absent \notin {"warning", "critical"}
      BY DEF T!ThermalAssumption
    <2> QED
      BY <1>2, <2>1, <2>2 DEF Heard, T!Announced
  <1>4. PICK trend : trend = IF Len(k) >= 2 THEN T!Trend(k) ELSE Absent
    OBVIOUS
  <1>5. PICK found : found = T!DetectAnomalies(p, q, k, trend, s.fan)
    OBVIOUS
  <1>6. a = [trended |-> trend # Absent,
             note |-> IF trend # Absent THEN T!CoolingNote(p.celsius, trend, T!BudgetOf(d)) ELSE note,
             found |-> found, advice |-> T!GenerateRecommendations(p, T!BudgetOf(d), a.note, trend, found)]
    BY <1>4, <1>5 DEF T!RunAnalysis
  <1>7. Warned(r, a.advice)
    <2>1. p.state \in {"warning", "critical"} => p.sensor
      BY <1>1 DEF T!ThermalState
    <2>2. a.advice = T!GenerateRecommendations(p, T!BudgetOf(d), a.note, trend, found)
      BY <1>6
    <2>3. ASSUME p.sensor, p.state = "critical" PROVE "reduce-workload" \in a.advice
      BY <2>2, <2>3 DEF T!GenerateRecommendations
    <2>4. ASSUME p.sensor, p.state = "warning" PROVE "consider-reducing" \in a.advice
      BY <2>2, <2>4 DEF T!GenerateRecommendations
    <2> QED
      BY <1>2, <2>1, <2>3, <2>4 DEF Warned
  <1>8. IF a.trended THEN Len(k) >= 2 /\ a.note # Absent ELSE a.note = note
    <2>1. a.trended = (trend # Absent)
      BY <1>6
    <2>2. a.note = IF trend # Absent THEN T!CoolingNote(p.celsius, trend, T!BudgetOf(d)) ELSE note
      BY <1>6
    <2>3. T!CoolingNote(p.celsius, trend, T!BudgetOf(d)) \in BOOLEAN
      BY DEF T!CoolingNote
    <2>4. Absent \notin BOOLEAN
      BY DEF T!ThermalAssumption
    <2>5. CASE trend # Absent
      <3>1. a.note = T!CoolingNote(p.celsius, trend, T!BudgetOf(d))
        BY <2>2, <2>5
      <3>2. a.note # Absent
        BY <2>3, <2>4, <3>1, Zenon
      <3>3. Len(k) >= 2
        BY <1>4, <2>5
      <3> QED
        BY <2>1, <2>5, <3>2, <3>3
    <2>6. CASE trend = Absent
      BY <2>1, <2>2, <2>6
    <2> QED
      BY <2>5, <2>6
  <1>9. Earned(r.stage, k, a.note, a.advice)
    <2>1. p.stage \in ThermalStages /\ (p.stage # "discovered" => Earned(p.stage, h, note, advised))
      BY <1>1 DEF Measures, Earned, ThermalStages
    <2>2. Len(h) \in Nat /\ Len(k) \in Nat
      BY <1>1
    <2>3. Earned(T!Analyzed(p.stage, a.trended, a.advice # {}), k, a.note, a.advice)
      BY <1>1, <1>8, <2>1, <2>2, AdvancesEarned, Zenon
    <2> QED
      BY <1>2, <2>3
  <1>10. Covers(r, k)
    BY <1>1, <1>2 DEF Covers
  <1> QED
    BY <1>1, <1>2, <1>3, <1>7, <1>9, <1>10 DEF Measures

\* A state midway in a collection.
Measured(ps, hs, notes, advised, told) ==
  /\ ps = [d \in ThermalUnits |-> ps[d]] /\ notes = [d \in ThermalUnits |-> notes[d]]
  /\ advised = [d \in ThermalUnits |-> advised[d]] /\ told = [d \in ThermalUnits |-> told[d]]
  /\ hs \in [ThermalUnits -> Seq(Int)]
  /\ \A d \in ThermalUnits : ps[d] # Absent => Measures(ps[d], hs[d], notes[d], advised[d], told[d])
IsCollected(st) == \E ps, hs, notes, advised, found, told, thrown :
  Measured(ps, hs, notes, advised, told) /\ st = T!Midway(ps, hs, notes, advised, found, told, thrown)

LEMMA CollectedMeasured ==
  ASSUME NEW ps, NEW hs, NEW notes, NEW advised, NEW found, NEW told, Measured(ps, hs, notes, advised, told)
  PROVE  \A x : IsCollected(T!Midway(ps, hs, notes, advised, found, told, x))
  BY DEF IsCollected

LEMMA OneMeasured ==
  ASSUME NEW ps, NEW hs, NEW notes, NEW advised, NEW told, Measured(ps, hs, notes, advised, told), NEW d \in ThermalUnits,
         NEW p, NEW h, NEW n, NEW a, NEW t, Measures(p, h, n, a, t), h \in Seq(Int),
         NEW ps2, Replaced(ps, d, p, ps2), NEW hs2, Replaced(hs, d, h, hs2), NEW notes2, Replaced(notes, d, n, notes2),
         NEW advised2, Replaced(advised, d, a, advised2), NEW told2, Replaced(told, d, t, told2)
  PROVE  Measured(ps2, hs2, notes2, advised2, told2)
  <1>1. /\ ps2 = [e \in ThermalUnits |-> IF e = d THEN p ELSE ps[e]]
        /\ notes2 = [e \in ThermalUnits |-> IF e = d THEN n ELSE notes[e]]
        /\ advised2 = [e \in ThermalUnits |-> IF e = d THEN a ELSE advised[e]]
    BY DEF Measured, Replaced
  <1>2. /\ told2 = [e \in ThermalUnits |-> IF e = d THEN t ELSE told[e]]
        /\ hs2 = [e \in ThermalUnits |-> IF e = d THEN h ELSE hs[e]] /\ hs2 \in [ThermalUnits -> Seq(Int)]
    BY DEF Measured, Replaced
  <1>3. /\ ps2 = [e \in ThermalUnits |-> ps2[e]] /\ notes2 = [e \in ThermalUnits |-> notes2[e]]
        /\ advised2 = [e \in ThermalUnits |-> advised2[e]] /\ told2 = [e \in ThermalUnits |-> told2[e]]
    BY <1>1, <1>2
  <1>4. ASSUME NEW e \in ThermalUnits, ps2[e] # Absent
        PROVE  Measures(ps2[e], hs2[e], notes2[e], advised2[e], told2[e])
    <2>1. CASE e = d
      BY <1>1, <1>2, <2>1
    <2>2. CASE e # d
      <3>1. ps2[e] = ps[e] /\ hs2[e] = hs[e] /\ notes2[e] = notes[e] /\ advised2[e] = advised[e] /\ told2[e] = told[e]
        BY <1>1, <1>2, <2>2
      <3> QED
        BY <1>4, <3>1 DEF Measured
    <2> QED
      BY <2>1, <2>2
  <1> QED
    BY <1>2, <1>3, <1>4 DEF Measured

LEMMA ProcessKeeps ==
  ASSUME T!ThermalAssumption, NEW st, IsCollected(st), NEW s \in T!ThermalSample
  PROVE  IsCollected(T!ProcessSample(st, s))
  <1>1. PICK ps, hs, notes, advised, found, told, thrown :
          Measured(ps, hs, notes, advised, told) /\ st = T!Midway(ps, hs, notes, advised, found, told, thrown)
    BY DEF IsCollected
  <1>2. st.profiles = ps /\ st.history = hs /\ st.forecasts = notes /\ st.advice = advised /\ st.anomalies = found
        /\ st.heard = told /\ st.thrown = thrown
    BY <1>1 DEF T!Midway
  <1>3. CASE thrown
    BY <1>2, <1>3 DEF T!ProcessSample
  <1>4. CASE ~thrown /\ s.available /\ ~T!Possible(s.celsius)
    <2>1. T!ProcessSample(st, s) = T!Midway(ps, hs, notes, advised, found, told, TRUE)
      BY <1>2, <1>4 DEF T!ProcessSample
    <2>2. \A x : IsCollected(T!Midway(ps, hs, notes, advised, found, told, x))
      BY <1>1, CollectedMeasured
    <2> QED
      BY <2>1, <2>2
  <1>5. CASE ~thrown /\ ~(s.available /\ ~T!Possible(s.celsius))
    <2>1. PICK d, q, h : d = s.device /\ q = ps[d] /\ h = hs[d]
      OBVIOUS
    <2>2. PICK p, k : p = T!Measured(st, s) /\ k = IF s.available THEN Append(h, s.celsius) ELSE h
      OBVIOUS
    <2>3. PICK note, adv, t : note = notes[d] /\ adv = advised[d] /\ t = told[d]
      OBVIOUS
    <2>4. PICK a : a = T!RunAnalysis(d, p, q, k, s.fan, note)
      OBVIOUS
    <2>5. PICK r : Restaged(p, T!Analyzed(p.stage, a.trended, a.advice # {}), r)
      BY DEF Restaged
    <2>6. PICK u : u = T!Announced(IF q = Absent THEN Absent ELSE q.state, p.state, t)
      OBVIOUS
    <2>7. d \in ThermalUnits /\ h \in Seq(Int) /\ (q # Absent => Measures(q, h, note, adv, t))
      BY <1>1, <2>1, <2>3 DEF Measured, T!ThermalSample
    <2>8. Taken(p, s, d, q, h, k)
      <3>1. d = s.device /\ q = st.profiles[d] /\ h = st.history[d]
        BY <1>2, <2>1
      <3>2. q # Absent => Covers(q, h)
        BY <2>7 DEF Measures
      <3> QED
        BY <2>2, <2>7, <3>1, <3>2, MeasuredIs
    <2>9. Measures(r, k, a.note, a.advice, u) /\ k \in Seq(Int)
      BY <2>4, <2>5, <2>6, <2>7, <2>8, SampleMeasures
    <2>10. PICK ps2, hs2, notes2, advised2, found2, told2 :
             /\ Replaced(ps, d, r, ps2) /\ Replaced(hs, d, k, hs2) /\ Replaced(notes, d, a.note, notes2)
             /\ Replaced(advised, d, a.advice, advised2) /\ Replaced(found, d, a.found, found2) /\ Replaced(told, d, u, told2)
      BY DEF Replaced
    <2>11. Measured(ps2, hs2, notes2, advised2, told2)
      BY <1>1, <2>7, <2>9, <2>10, OneMeasured
    <2>12. T!ProcessSample(st, s) = T!Recorded(st, s, p, q, k)
      BY <1>2, <1>5, <2>1, <2>2 DEF T!ProcessSample
    <2>13. T!Recorded(st, s, p, q, k) = T!Midway(ps2, hs2, notes2, advised2, found2, told2, FALSE)
      <3>1. T!RunAnalysis(s.device, p, q, k, s.fan, st.forecasts[s.device]) = a /\ s.device = d
        BY <1>2, <2>1, <2>3, <2>4
      <3>2. ps2 = [ps EXCEPT ![d] = [p EXCEPT !.stage = T!Analyzed(p.stage, a.trended, a.advice # {})]]
        BY <2>5, <2>10 DEF Replaced, Restaged
      <3>3. told2 = [told EXCEPT ![d] = T!Announced(IF q = Absent THEN Absent ELSE q.state, p.state, told[d])]
        BY <2>3, <2>6, <2>10 DEF Replaced
      <3> QED
        BY <1>2, <2>10, <3>1, <3>2, <3>3 DEF T!Recorded, Replaced
    <2>14. \A x : IsCollected(T!Midway(ps2, hs2, notes2, advised2, found2, told2, x))
      BY <2>11, CollectedMeasured
    <2> QED
      BY <2>12, <2>13, <2>14
  <1> QED
    BY <1>3, <1>4, <1>5

LEMMA CollectionKeeps ==
  ASSUME T!ThermalAssumption, IsCollected(T!Current), NEW samples \in Seq(T!ThermalSample)
  PROVE  IsCollected(T!FoldLeft(T!ProcessSample, T!Current, samples))
  <1> DEFINE N == Len(samples)
  <1>1. N \in Nat /\ DOMAIN samples = 1..N /\ \A n \in 1..N : samples[n] \in T!ThermalSample
    OBVIOUS
  <1> HIDE DEF N
  <1>2. PICK g : /\ g[0] = T!Current /\ g[N] = T!FoldLeft(T!ProcessSample, T!Current, samples)
                 /\ \A n \in 1..N : g[n] = T!ProcessSample(g[n - 1], samples[n])
    BY <1>1, ProcessedInTurn
  <1> DEFINE Wrong == {n \in 0..N : ~IsCollected(g[n])}
  <1>3. Wrong = {}
    <2> SUFFICES ASSUME Wrong # {} PROVE FALSE
      OBVIOUS
    <2>1. Wrong \in SUBSET Nat
      BY <1>1
    <2>2. PICK n \in Wrong : \A m \in Wrong : n <= m
      BY <2>1, Least
    <2>3. n # 0 /\ n \in 0..N
      BY <1>2
    <2>4. n - 1 \in 0..N /\ n \in 1..N /\ n - 1 \notin Wrong
      BY <1>1, <2>2, <2>3
    <2>5. IsCollected(T!ProcessSample(g[n - 1], samples[n]))
      BY <1>1, <2>4, ProcessKeeps
    <2> QED
      BY <1>2, <2>4, <2>5
  <1>4. N \in 0..N
    BY <1>1
  <1> QED
    BY <1>2, <1>3, <1>4

ThermalInv == Measured(thermalProfiles, history, forecasts, advice, heard)

LEMMA ThermalStarts == T!Init => ThermalInv
  BY DEF T!Init, ThermalInv, Measured

LEMMA CollectKeeps ==
  ASSUME T!ThermalAssumption, ThermalInv, NEW batch \in ThermalBatches, T!CollectAndUpdate(batch)
  PROVE  ThermalInv'
  <1>1. batch.samples \in Seq(T!ThermalSample)
    BY DEF T!ThermalAssumption
  <1>2. PICK st : st = T!FoldLeft(T!ProcessSample, T!Current, batch.samples)
    OBVIOUS
  <1>3. IsCollected(st)
    <2>1. IsCollected(T!Current)
      BY DEF ThermalInv, IsCollected, T!Current
    <2> QED
      BY <1>1, <1>2, <2>1, CollectionKeeps
  <1>4. PICK ps, hs, notes, advised, found, told, thrown :
          Measured(ps, hs, notes, advised, told) /\ st = T!Midway(ps, hs, notes, advised, found, told, thrown)
    BY <1>3 DEF IsCollected
  <1>5. /\ thermalProfiles' = IF st.thrown THEN st.profiles ELSE T!WithoutSensor(st.profiles, batch.unavailable)
        /\ history' = st.history /\ forecasts' = st.forecasts /\ advice' = st.advice /\ heard' = st.heard
    BY <1>2 DEF T!CollectAndUpdate
  <1>6. /\ thermalProfiles' = IF thrown THEN ps ELSE T!WithoutSensor(ps, batch.unavailable)
        /\ history' = hs /\ forecasts' = notes /\ advice' = advised /\ heard' = told
    BY <1>4, <1>5 DEF T!Midway
  <1>7. thermalProfiles' = [d \in ThermalUnits |-> thermalProfiles'[d]]
    BY <1>4, <1>6 DEF Measured, T!WithoutSensor
  <1>8. ASSUME NEW d \in ThermalUnits, thermalProfiles'[d] # Absent
        PROVE  Measures(thermalProfiles'[d], hs[d], notes[d], advised[d], told[d])
    <2>1. CASE thermalProfiles'[d] = ps[d]
      BY <1>4, <1>8, <2>1 DEF Measured
    <2>2. CASE thermalProfiles'[d] # ps[d]
      <3>1. ps[d] # Absent /\ thermalProfiles'[d] = [ps[d] EXCEPT !.sensor = FALSE, !.state = "unknown"]
        BY <1>6, <2>2 DEF T!WithoutSensor
      <3>2. Measures(ps[d], hs[d], notes[d], advised[d], told[d])
        BY <1>4, <3>1 DEF Measured
      <3>3. \A x, y : LET q == [[ps[d] EXCEPT !.sensor = x] EXCEPT !.state = y] IN
                      IsReading(q) /\ q.state = y /\ q.peak = ps[d].peak /\ q.min = ps[d].min /\ q.stage = ps[d].stage
        <4>1. IsReading(ps[d])
          BY <3>2 DEF Measures
        <4> QED
          BY <4>1, SensorChanged
      <3>4. LET q == [[ps[d] EXCEPT !.sensor = FALSE] EXCEPT !.state = "unknown"] IN
            IsReading(q) /\ q.state = "unknown" /\ q.peak = ps[d].peak /\ q.min = ps[d].min /\ q.stage = ps[d].stage
        BY <3>3, Zenon
      <3>5. PICK q : q = thermalProfiles'[d]
        OBVIOUS
      <3>6. IsReading(q) /\ q.state = "unknown" /\ q.peak = ps[d].peak /\ q.min = ps[d].min /\ q.stage = ps[d].stage
        BY <3>1, <3>4, <3>5
      <3>7. Measures(q, hs[d], notes[d], advised[d], told[d])
        BY <3>2, <3>6 DEF Measures, Heard, Warned, Covers
      <3> QED
        BY <3>5, <3>7
    <2> QED
      BY <2>1, <2>2
  <1> QED
    BY <1>4, <1>6, <1>7, <1>8 DEF ThermalInv, Measured

LEMMA ThermalKeeps ==
  ASSUME T!ThermalAssumption, ThermalInv, T!Next
  PROVE  ThermalInv'
  <1>1. ASSUME NEW d \in ThermalUnits, T!RegisterDevice(d)
        PROVE  ThermalInv'
    <2>1. PICK p : p = [celsius |-> 0, idle |-> Idles[d], peak |-> Absent, min |-> Absent, state |-> "unknown",
                        stage |-> "profiled", sensor |-> FALSE]
      OBVIOUS
    <2>2. \A h, n, a, t : Measures(p, h, n, a, t)
      BY <2>1 DEF Measures, IsReading, Heard, Warned, Earned, ThermalStages, Covers
    <2>3. thermalProfiles' = [thermalProfiles EXCEPT ![d] = p] /\ UNCHANGED <<history, forecasts, advice, heard>>
      BY <1>1, <2>1 DEF T!RegisterDevice
    <2>4. thermalProfiles' = [e \in ThermalUnits |-> IF e = d THEN p ELSE thermalProfiles[e]]
      BY <2>3 DEF ThermalInv, Measured
    <2>5. thermalProfiles' = [e \in ThermalUnits |-> thermalProfiles'[e]]
      BY <2>4
    <2>6. ASSUME NEW e \in ThermalUnits, thermalProfiles'[e] # Absent
          PROVE  Measures(thermalProfiles'[e], history[e], forecasts[e], advice[e], heard[e])
      <3>1. CASE e = d
        BY <2>2, <2>4, <3>1
      <3>2. CASE e # d
        BY <2>4, <2>6, <3>2 DEF ThermalInv, Measured
      <3> QED
        BY <3>1, <3>2
    <2> QED
      BY <2>3, <2>5, <2>6 DEF ThermalInv, Measured
  <1>2. ASSUME NEW key \in DOMAIN budgets, NEW b \in BudgetsOf, T!SetBudget(key, b)
        PROVE  ThermalInv'
    BY <1>2 DEF T!SetBudget, ThermalInv, Measured
  <1>3. ASSUME NEW batch \in ThermalBatches, T!CollectAndUpdate(batch)
        PROVE  ThermalInv'
    BY <1>3, CollectKeeps
  <1> QED
    BY <1>1, <1>2, <1>3 DEF T!Next

LEMMA ThermalReadings ==
  ASSUME ThermalInv
  PROVE  T!DangerIsHeard /\ T!DangerIsAdvised /\ T!StagesAreEarned /\ T!ExtremesCover
  <1>1. ASSUME NEW d \in ThermalUnits, T!Known(d)
        PROVE  Measures(thermalProfiles[d], history[d], forecasts[d], advice[d], heard[d]) /\ history[d] \in Seq(Int)
    BY <1>1 DEF T!Known, ThermalInv, Measured
  <1>2. T!DangerIsHeard /\ T!DangerIsAdvised /\ T!StagesAreEarned
    BY <1>1 DEF T!DangerIsHeard, T!DangerIsAdvised, T!StagesAreEarned, Measures, Heard, Warned, Earned
  <1>3. T!ExtremesCover
    BY <1>1 DEF T!ExtremesCover, Measures, Covers
  <1> QED
    BY <1>2, <1>3

(* ReadingsAreHeard (core/power_authority/src/PowerAuthority.ts, core/thermal_authority/src/ThermalAuthority.ts:
   collectAndUpdate()): for any devices and batches, also those that end midway in an error, a profile's average,
   peak and reading are those of the latest points kept of the device, its stage was earned by them, and what was last
   announced of a budget is what the budget says; a hot device was announced and advised about, its stage was earned
   too, and its extremes cover every temperature that was recorded. *)
THEOREM ReadingsAreTold == FacilitySpec => []ReadingsAreHeard
  <1> DEFINE ReadingsInv == PowerInv /\ ThermalInv
  <1>1. FacilityInit => ReadingsInv
    BY FacilityAssumption, PowerStarts, ThermalStarts DEF FacilityInit
  <1>2. ReadingsInv /\ [FacilityNext]_facilityVars => ReadingsInv'
    <2> SUFFICES ASSUME ReadingsInv, [FacilityNext]_facilityVars
                 PROVE  ReadingsInv'
      OBVIOUS
    <2>1. P!Next \/ UNCHANGED powerVars
      BY DEF FacilityNext, facilityVars
    <2>2. T!Next \/ UNCHANGED thermalVars
      BY DEF FacilityNext, facilityVars
    <2>3. UNCHANGED powerVars => PowerInv'
      BY DEF powerVars, PowerInv, Told, Advised, BudgetsInv, P!Registered, P!BudgetsAreHeard
    <2>4. UNCHANGED thermalVars => ThermalInv'
      BY DEF thermalVars, ThermalInv, Measured
    <2> QED
      BY <2>1, <2>2, <2>3, <2>4, FacilityAssumption, PowerKeeps, ThermalKeeps
  <1>3. ReadingsInv => ReadingsAreHeard
    BY FacilityAssumption, PowerReadings, ThermalReadings DEF ReadingsAreHeard
  <1> QED
    BY <1>1, <1>2, <1>3, PTL DEF FacilitySpec

=============================================================================
