-------------------------- MODULE BenchmarkAuthority --------------------------
(* The Benchmark Authority (core/benchmark_authority): runs of benchmarks on  *)
(* their way from created to archived, the comparison of each with a run that *)
(* was stored before, and the knowledge base that correlates them. All        *)
(* operations are synchronous; a step below is one of them, up to its end or  *)
(* to the exception that ends it.                                             *)
EXTENDS Integers, FiniteSets

CONSTANTS
  Runs,             \* run ids, which are numbers only so that they can be given in turn
  Types,            \* benchmark types, each with its version
  Components,       \* component kinds
  Definitions,      \* what a type may be registered as: [active, higher, supports]
  Results,          \* run -> what its execution may report: [metric, value]
  Signals,          \* average watts that the power provider may report
  Threshold,        \* regressionThresholdPercent
  None,
  MaxOpen, MaxFaults, MaxNow
                    \* bounds of the model: runs on their way to storage at once, what goes wrong, the last instant

VARIABLES
  catalog,          \* BenchmarkCatalog: type -> its definition, or None
  runs,             \* BenchmarkRunRegistry: id -> the run, or None
  raw,              \* the hardware store: id -> how often its result was recorded
  knowledge,        \* InstitutionalPerformanceKnowledgeBase: id -> [watts, comparison], or None
  comparisons,      \* id -> [baseline, class, at], or None
  recommendations,  \* the runs that have a recommendation
  now

vars == <<catalog, runs, raw, knowledge, comparisons, recommendations, now>>

States == <<"created", "validated", "scheduled", "executed", "verified", "stored", "compared", "archived">>
Follows(from, to) == \E i \in 1..7 : States[i] = from /\ States[i + 1] = to
Settled == {"stored", "compared", "archived"}

BenchmarkRun ==
  [type : Types, component : Components, state : {States[i] : i \in 1..8},
   result : {None} \union UNION {Results[r] : r \in Runs},
   created : Nat, stored : Nat \union {None}, failed : BOOLEAN]
BenchmarkComparison ==
  [baseline : Runs \union {None}, at : Nat, class : {"no-baseline", "stable", "regressed", "improved"}]

BenchmarkAssumption ==
  /\ Runs \subseteq Nat /\ Threshold \in Nat
  /\ \A r \in Runs : \A result \in Results[r] : result.value \in Int
  /\ \A d \in Definitions : d.higher \in BOOLEAN
  /\ None \notin BenchmarkRun \union BenchmarkComparison

Created == {r \in Runs : runs[r] # None}
MayMove(r, to) == r \in Created /\ Follows(runs[r].state, to)

\* What went wrong so far: runs that failed, that nobody knows of, or that have no recommendation.
Faults ==
  Cardinality({r \in Created : runs[r].failed})
  + Cardinality({r \in Created : runs[r].state \in Settled /\ knowledge[r] = None})
  + Cardinality({r \in Created : comparisons[r] # None /\ r \notin recommendations})
Defined(r) == catalog[runs[r].type] # None

Init ==
  /\ catalog = [t \in Types |-> None]
  /\ runs = [r \in Runs |-> None]
  /\ raw = [r \in Runs |-> 0]
  /\ knowledge = [r \in Runs |-> None]
  /\ comparisons = [r \in Runs |-> None]
  /\ recommendations = {}
  /\ now = 0

-----------------------------------------------------------------------------
(* The catalog. *)

RegisterBenchmarkType(t, d) ==
  /\ catalog' = [catalog EXCEPT ![t] = d]
  /\ UNCHANGED <<runs, raw, knowledge, comparisons, recommendations, now>>
RemoveBenchmarkType(t) ==
  /\ catalog[t] # None /\ catalog' = [catalog EXCEPT ![t] = None]
  /\ UNCHANGED <<runs, raw, knowledge, comparisons, recommendations, now>>

-----------------------------------------------------------------------------
(* A run up to its verification. *)

Moved(r, to) == runs' = [runs EXCEPT ![r].state = to]

Create(r, t, component) ==
  /\ r \notin Created /\ (\A o \in Runs : o < r => o \in Created)
  /\ Cardinality({o \in Created : runs[o].state \notin Settled}) < MaxOpen
  /\ catalog[t] # None /\ catalog[t].active
  /\ runs' = [runs EXCEPT ![r] = [type |-> t, component |-> component, state |-> "created", result |-> None,
                                  created |-> now, stored |-> None, failed |-> FALSE]]
  /\ UNCHANGED <<catalog, raw, knowledge, comparisons, recommendations, now>>

\* The definition is that of now, which need not be active, or support what it did.
Validate(r) ==
  /\ MayMove(r, "validated") /\ Defined(r)
  /\ catalog[runs[r].type].supports \intersect {runs[r].component, "*"} # {}
  /\ Moved(r, "validated")
  /\ UNCHANGED <<catalog, raw, knowledge, comparisons, recommendations, now>>

MarkScheduled(r) ==
  /\ MayMove(r, "scheduled") /\ Moved(r, "scheduled")
  /\ UNCHANGED <<catalog, raw, knowledge, comparisons, recommendations, now>>

\* The metric is what the caller says, not that of the definition.
Execute(r, result) ==
  /\ MayMove(r, "executed") /\ runs' = [runs EXCEPT ![r].state = "executed", ![r].result = result]
  /\ UNCHANGED <<catalog, raw, knowledge, comparisons, recommendations, now>>

Verify(r) ==
  /\ MayMove(r, "verified") /\ runs[r].result # None
  /\ Moved(r, "verified")
  /\ UNCHANGED <<catalog, raw, knowledge, comparisons, recommendations, now>>

\* A failure is only noted; the run goes on from where it was.
Fail(r) ==
  /\ r \in Created /\ Faults < MaxFaults
  /\ runs' = [runs EXCEPT ![r].failed = TRUE]
  /\ UNCHANGED <<catalog, raw, knowledge, comparisons, recommendations, now>>

-----------------------------------------------------------------------------
(* Storage, comparison and the knowledge base. *)

\* What is known of a run is correlated anew each time, unless a provider throws.
Known(r, watts, comparison) ==
  knowledge' = IF watts = None THEN knowledge
               ELSE [knowledge EXCEPT ![r] = [watts |-> watts, comparison |-> comparison]]

\* Mutant: the knowledge is recorded before the state says that the result is stored.
MutStore(r, watts) ==
  /\ MayMove(r, "stored") /\ runs[r].result # None
  /\ watts = None => Faults < MaxFaults
  /\ raw' = [raw EXCEPT ![r] = @ + 1]
  /\ IF watts = None THEN UNCHANGED runs ELSE runs' = [runs EXCEPT ![r].state = "stored", ![r].stored = now]
  /\ Known(r, watts, None)
  /\ UNCHANGED <<catalog, comparisons, recommendations, now>>

\* The hardware store has the result before the state says so, the knowledge base after. A hardware store
\* that throws leaves everything as it was, a provider that throws leaves a stored run nobody knows of.
Store(r, watts) ==
  /\ MayMove(r, "stored") /\ runs[r].result # None
  /\ watts = None => Faults < MaxFaults
  /\ raw' = [raw EXCEPT ![r] = @ + 1]
  /\ runs' = [runs EXCEPT ![r].state = "stored", ![r].stored = now]
  /\ Known(r, watts, None)
  /\ UNCHANGED <<catalog, comparisons, recommendations, now>>

Comparable(r) ==
  {c \in Created \ {r} : runs[c].type = runs[r].type /\ runs[c].component = runs[r].component
                         /\ runs[c].result # None /\ runs[c].state \in Settled}

\* Mutant: the earliest is preferred.
MutPreferred(a, b) == runs[a].stored < runs[b].stored

\* The latest stored, and of those the first created.
Preferred(a, b) ==
  \/ runs[a].stored > runs[b].stored
  \/ runs[a].stored = runs[b].stored /\ runs[a].created < runs[b].created

\* compareBenchmarkRuns; nothing is said of the change from nothing.
Classified(r, base, higher) ==
  LET is == runs[r].result.value
      was == runs[base].result.value
      change == IF higher THEN is - was ELSE was - is
      share == Threshold * (IF was < 0 THEN -was ELSE was) IN
  IF was = 0 THEN "stable"
  ELSE IF 100 * change <= -share THEN "regressed"
  ELSE IF 100 * change >= share THEN "improved" ELSE "stable"

\* A handler that throws keeps the recommendation from being made; so does a provider.
Compare(r, watts, heard) ==
  /\ MayMove(r, "compared") /\ Defined(r)
  /\ watts = None \/ ~heard => Faults < MaxFaults
  /\ \E base \in Comparable(r) \union {None} :
       /\ IF base = None THEN Comparable(r) = {}
                         ELSE \A c \in Comparable(r) \ {base} : ~Preferred(c, base)
       /\ LET comparison ==
                [baseline |-> base, at |-> now,
                 class |-> IF base = None THEN "no-baseline"
                           ELSE Classified(r, base, catalog[runs[r].type].higher)] IN
            /\ comparisons' = [comparisons EXCEPT ![r] = comparison]
            /\ Known(r, watts, comparison)
  /\ Moved(r, "compared")
  /\ recommendations' = IF watts # None /\ heard THEN recommendations \union {r} ELSE recommendations
  /\ UNCHANGED <<catalog, raw, now>>

Archive(r) ==
  /\ MayMove(r, "archived") /\ Moved(r, "archived")
  /\ UNCHANGED <<catalog, raw, knowledge, comparisons, recommendations, now>>

\* highestHashratePerWatt, of what may be the answer.
Efficient ==
  LET known == {r \in Runs : knowledge[r] # None /\ runs[r].result.metric = "hashrate" /\ knowledge[r].watts > 0} IN
  {r \in known : \A o \in known :
     runs[r].result.value * knowledge[o].watts >= runs[o].result.value * knowledge[r].watts}

TimePasses ==
  /\ now < MaxNow /\ now' = now + 1
  /\ UNCHANGED <<catalog, runs, raw, knowledge, comparisons, recommendations>>

Next ==
  \/ \E t \in Types :
       \/ \E d \in Definitions : RegisterBenchmarkType(t, d)
       \/ RemoveBenchmarkType(t)
       \/ \E r \in Runs, c \in Components : Create(r, t, c)
  \/ \E r \in Runs :
       \/ Validate(r) \/ MarkScheduled(r) \/ Verify(r) \/ Archive(r) \/ Fail(r)
       \/ \E result \in Results[r] : Execute(r, result)
       \/ \E watts \in Signals \union {None} : Store(r, watts) \/ \E heard \in BOOLEAN : Compare(r, watts, heard)
  \/ TimePasses

Spec == Init /\ [][Next]_vars

-----------------------------------------------------------------------------
(* Properties. *)

\* What a run is compared with was the latest comparable one at that time, whatever was stored since,
\* and the class tells a change of the two results that are still on record.
LatestIsBaseline ==
  \A r \in Created : comparisons[r] # None =>
    LET c == comparisons[r] IN
    /\ runs[r].state \in Settled \ {"stored"}
    /\ c.baseline = None => \A o \in Comparable(r) : runs[o].stored >= c.at
    /\ c.baseline # None =>
         /\ c.baseline \in Comparable(r) /\ runs[c.baseline].stored <= c.at
         /\ \A o \in Comparable(r) : runs[o].stored > runs[c.baseline].stored => runs[o].stored >= c.at
         /\ c.class \in {Classified(r, c.baseline, higher) : higher \in BOOLEAN}

\* A result is in the hardware store once from when its run counts as stored, and what is known or
\* recommended is about such a run, whichever providers or handlers threw on the way.
StoredOnce ==
  \A r \in Runs :
    /\ raw[r] = IF r \in Created /\ runs[r].state \in Settled THEN 1 ELSE 0
    /\ knowledge[r] # None => raw[r] = 1 /\ knowledge[r].comparison \in {None, comparisons[r]}
    /\ r \in recommendations => comparisons[r] # None /\ knowledge[r].comparison = comparisons[r]
    /\ r \in Efficient => raw[r] = 1

\* What the code does not keep.
\* A "historical baseline" (comparison.ts:52) was stored before the run that is compared with it.
BaselineIsPast ==
  \A r \in Created : comparisons[r] # None /\ comparisons[r].baseline # None =>
    runs[comparisons[r].baseline].stored <= runs[r].stored
\* A failed run is no baseline.
FailedIsNoBaseline ==
  [][\A r \in Created : comparisons[r] = None /\ comparisons'[r] # None /\ comparisons'[r].baseline # None =>
       ~runs[comparisons'[r].baseline].failed]_vars
\* Like is compared with like.
SameMetric ==
  \A r \in Created : comparisons[r] # None /\ comparisons[r].baseline # None =>
    runs[r].result.metric = runs[comparisons[r].baseline].result.metric
\* What is compared is known with its comparison, and advised about.
ComparedIsKnown ==
  \A r \in Created : comparisons[r] # None => knowledge[r] # None /\ r \in recommendations
=============================================================================
