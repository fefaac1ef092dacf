-------------------------- MODULE WorkloadAuthority --------------------------
(* The Workload Authority (core/workload_authority): a registry of workloads  *)
(* whose lifecycle is reported by others, the dependencies between them, and  *)
(* the advice the authority gives about their placement and their completion. *)
(* Every operation is synchronous. One that throws changes nothing, except    *)
(* markAssigned(), which files the resources before it checks the transition. *)
(* Times are left out but for whether they are known.                         *)
EXTENDS Integers, FiniteSets, Sequences

CONSTANTS
  Workloads,      \* the workloads that are asked for
  Priorities,     \* the priorities in use
  Resources,      \* resources a candidate provider may rank and an authority confirm
  Samples,        \* telemetry samples: [celsius, busy, throughput, idle]
  MaxSamples,     \* samples of one workload
  MaxRuns,        \* terminal reports of one workload
  Absent          \* what no sample or reading says

VARIABLES
  profiles,       \* WorkloadRegistry: workload -> its profile; its domain is the registered ones
  history,        \* WorkloadHistoryStore: workload -> the actions of its entries
  telemetry,      \* workload -> its samples in order
  advice          \* workload -> the last placement recommended

vars == <<profiles, history, telemetry, advice>>

WorkloadAssumption ==
  /\ \A s \in Samples : s.busy \in Int /\ s.celsius \in Int \union {Absent} /\ s.throughput \in Int \union {Absent}
  /\ MaxSamples \in Nat /\ MaxRuns \in Nat

Transitions ==
  [created   |-> {"validated", "archived"},
   validated |-> {"queued", "archived"},
   queued    |-> {"assigned", "archived"},
   assigned  |-> {"running", "archived"},
   running   |-> {"paused", "completed", "failed", "archived"},
   paused    |-> {"running", "completed", "failed", "archived"},
   completed |-> {"archived"},
   failed    |-> {"archived"},
   archived  |-> {}]

\* A workload may always move to the state it is in.
Allowed(from, to) == from = to \/ to \in Transitions[from]

Registered == DOMAIN profiles

NewProfile(deps, priority) ==
  [state |-> "created", assigned |-> {}, dependencies |-> deps, priority |-> priority,
   completedRuns |-> 0, failedRuns |-> 0, started |-> FALSE, outcome |-> "none"]

Incomplete(w) ==
  {d \in profiles[w].dependencies : d \notin Registered \/ profiles[d].outcome # "completed"}

\* What the transition writes besides the state.
Moved(p, to) ==
  [p EXCEPT !.state = to, !.started = @ \/ to = "running",
            !.outcome = IF to \in {"completed", "failed"} THEN to ELSE @]

Entered(w, action) == history' = [history EXCEPT ![w] = @ \union {action}]

\* Every operation that moves a workload asserts the transition first.
Move(w, to) ==
  /\ w \in Registered /\ Allowed(profiles[w].state, to)
  /\ Entered(w, to)

-----------------------------------------------------------------------------
(* The forecast: what getForecast() answers, and updateForecast() publishes. *)

Terminal(w) == profiles[w].outcome \in {"completed", "failed"}

Confidence(w) ==
  LET runs == profiles[w].completedRuns + profiles[w].failedRuns IN
  CASE Terminal(w)      -> 100
    [] ~Terminal(w) /\ runs >= 5            -> 85
    [] ~Terminal(w) /\ runs \in 1..4        -> 65
    [] ~Terminal(w) /\ runs = 0 /\ telemetry[w] # <<>> -> 50
    [] OTHER            -> 35

Forecast(w) ==
  [projected |-> Terminal(w) \/ profiles[w].started,
   delayed |-> ~Terminal(w) /\ {"queued", "assigned"} \subseteq history[w],
   confidence |-> Confidence(w)]

-----------------------------------------------------------------------------
Init ==
  /\ profiles = [w \in {} |-> NewProfile({}, 0)]
  /\ history = [w \in Workloads |-> {}]
  /\ telemetry = [w \in Workloads |-> <<>>]
  /\ advice = [w \in Workloads |-> "none"]

\* createWorkload(): dependencies may name workloads that do not exist, and the workload itself.
CreateWorkload(w, deps, priority) ==
  /\ w \notin Registered
  /\ profiles' = [v \in Registered \union {w} |-> IF v = w THEN NewProfile(deps, priority) ELSE profiles[v]]
  /\ Entered(w, "created")
  /\ UNCHANGED <<telemetry, advice>>

Validate(w) ==
  /\ Move(w, "validated")
  /\ \A d \in profiles[w].dependencies : d # w /\ d \in Registered
  /\ profiles' = [profiles EXCEPT ![w] = Moved(@, "validated")]
  /\ UNCHANGED <<telemetry, advice>>

Queue(w) ==
  /\ Move(w, "queued")
  /\ profiles' = [profiles EXCEPT ![w] = Moved(@, "queued")]
  /\ UNCHANGED <<telemetry, advice>>

\* Mutant: markAssigned() does not ask for the dependencies.
MutAssignable(w, resources) == w \in Registered /\ resources # {}

Assignable(w, resources) == w \in Registered /\ Incomplete(w) = {} /\ resources # {}

MarkAssigned(w, resources) ==
  /\ Assignable(w, resources)
  /\ Move(w, "assigned")
  /\ profiles' = [profiles EXCEPT ![w] = Moved([@ EXCEPT !.assigned = resources], "assigned")]
  /\ UNCHANGED <<telemetry, advice>>

\* The same call of a workload that is not queued throws after the resources were filed.
MarkAssignedThrows(w, resources) ==
  /\ Assignable(w, resources)
  /\ ~Allowed(profiles[w].state, "assigned")
  /\ profiles' = [profiles EXCEPT ![w].assigned = resources]
  /\ UNCHANGED <<history, telemetry, advice>>

Start(w) ==
  /\ Move(w, "running")
  /\ profiles' = [profiles EXCEPT ![w] = Moved(@, "running")]
  /\ UNCHANGED <<telemetry, advice>>

Pause(w) ==
  /\ Move(w, "paused")
  /\ profiles' = [profiles EXCEPT ![w] = Moved(@, "paused")]
  /\ UNCHANGED <<telemetry, advice>>

\* recordTerminalPerformance(): the averages are left out, the counts they are taken over are not.
Performed(p, outcome) ==
  IF outcome = "completed" THEN [p EXCEPT !.completedRuns = @ + 1] ELSE [p EXCEPT !.failedRuns = @ + 1]

Finish(w, outcome) ==
  /\ Move(w, outcome)
  /\ profiles[w].completedRuns + profiles[w].failedRuns < MaxRuns
  /\ profiles' = [profiles EXCEPT ![w] = Performed(Moved(@, outcome), outcome)]
  /\ UNCHANGED <<telemetry, advice>>

Complete(w) == Finish(w, "completed")
Fail(w) == Finish(w, "failed")

Cancel(w) ==
  /\ w \in Registered /\ profiles[w].state \notin {"completed", "failed", "archived"}
  /\ Move(w, "archived")
  /\ profiles' = [profiles EXCEPT ![w] = [Moved(@, "archived") EXCEPT !.outcome = "cancelled"]]
  /\ UNCHANGED <<telemetry, advice>>

Archive(w) ==
  /\ w \in Registered /\ profiles[w].state \in {"completed", "failed"}
  /\ Move(w, "archived")
  /\ profiles' = [profiles EXCEPT ![w] = Moved(@, "archived")]
  /\ UNCHANGED <<telemetry, advice>>

SetPriority(w, priority) ==
  /\ w \in Registered /\ profiles[w].state # "archived"
  /\ profiles' = [profiles EXCEPT ![w].priority = priority]
  /\ UNCHANGED <<history, telemetry, advice>>

Placement(w, candidates) ==
  IF profiles[w].state \notin {"validated", "queued"} \/ Incomplete(w) # {} \/ candidates = {} THEN "defer"
  ELSE IF profiles[w].state = "validated" THEN "queue"
  ELSE "place-now"

RecommendPlacement(w, candidates) ==
  /\ w \in Registered
  /\ advice' = [advice EXCEPT ![w] = Placement(w, candidates)]
  /\ UNCHANGED <<profiles, history, telemetry>>

\* Every queued workload is advised in one call; the provider answers for each.
GetBalanceRecommendations(candidates) ==
  /\ advice' = [w \in Workloads |->
                  IF w \in Registered /\ profiles[w].state = "queued" THEN Placement(w, candidates[w]) ELSE advice[w]]
  /\ UNCHANGED <<profiles, history, telemetry>>

RecordTelemetry(w, sample) ==
  /\ w \in Registered /\ Len(telemetry[w]) < MaxSamples
  /\ telemetry' = [telemetry EXCEPT ![w] = Append(@, sample)]
  /\ UNCHANGED <<profiles, history, advice>>

Next ==
  \/ \E w \in Workloads :
       \/ \E deps \in SUBSET Workloads, p \in Priorities : CreateWorkload(w, deps, p)
       \/ Validate(w) \/ Queue(w) \/ Start(w) \/ Pause(w) \/ Complete(w) \/ Fail(w)
       \/ Cancel(w) \/ Archive(w)
       \/ \E r \in SUBSET Resources :
            MarkAssigned(w, r) \/ MarkAssignedThrows(w, r) \/ RecommendPlacement(w, r)
       \/ \E p \in Priorities : SetPriority(w, p)
       \/ \E s \in Samples : RecordTelemetry(w, s)
  \/ \E candidates \in [Workloads -> SUBSET Resources] : GetBalanceRecommendations(candidates)

Spec == Init /\ [][Next]_vars

-----------------------------------------------------------------------------
(* Properties. *)

Working == {"assigned", "running", "paused", "completed", "failed"}

\* No workload gets past the queue before every workload it depends on has completed, however
\* long ago that was checked; so no cycle of dependencies ever runs.
\* assertDependenciesCompleted() is asked once, and outcomes must not change after it.
WorkIsReady ==
  \A w \in Registered : profiles[w].state \in Working =>
    /\ profiles[w].assigned # {}
    /\ \A d \in profiles[w].dependencies : d \in Registered /\ profiles[d].outcome = "completed"

\* A workload has one outcome, which its counts and its history tell alike: nothing that
\* completed is ever counted or recorded as failed or cancelled, and the other way round.
OneOutcome ==
  \A w \in Registered : LET p == profiles[w] IN
    /\ (p.completedRuns > 0 <=> p.outcome = "completed") /\ (p.failedRuns > 0 <=> p.outcome = "failed")
    /\ \A o \in {"completed", "failed"} : o \in history[w] <=> p.outcome = o

\* The advice to place a queued workload now stays good until the workload leaves the queue.
AdviceHolds ==
  \A w \in Registered : advice[w] = "place-now" /\ profiles[w].state = "queued" => Incomplete(w) = {}

\* The forecast of work under way always knows how long it was queued, from the history alone.
DelayKnown ==
  \A w \in Registered : profiles[w].started /\ ~Terminal(w) => Forecast(w).delayed
=============================================================================
