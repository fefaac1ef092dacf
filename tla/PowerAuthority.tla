---------------------------- MODULE PowerAuthority ----------------------------
(* The Power Authority (core/power_authority): profiles of devices built from *)
(* samples of their power draw, budgets over them and advice about both.      *)
(* collectAndUpdate() reads nothing before it awaits the provider, so a call  *)
(* takes effect at one moment; a sample of a device nobody registered makes   *)
(* it throw there, with the samples before it applied and nothing else done.  *)
(* Costs are the average draw times a rate and are left out.                  *)
EXTENDS Integers, Sequences, SequencesExt, FiniteSetsExt

CONSTANTS
  Devices,      \* device ids
  Domain,       \* device -> its PowerDomain
  Idle, Rated,  \* device -> its idle and its rated maximum power
  Samples,      \* samples that are ingested: [device, watts]
  Batches,      \* what a collection may return: sequences of samples
  Invalid,      \* the watts of a sample that is no number, or impossible
  None,         \* the watts of a sample whose sensor is unavailable, and what is not there
  Workload,     \* the workload telemetry a device may have: [hashes, revenue]
  Budgets,      \* budget ids
  Scopes,       \* scopes of budgets
  Limits,       \* their limits
  MaxHistory    \* history points of one device

VARIABLES
  profiles,         \* PowerRegistry: device -> its profile, None when unregistered
  accounts,         \* device -> [count, sum, peak] of its samples
  history,          \* PowerHistoryStore: device -> the watts of its points
  workloads,        \* device -> its workload telemetry
  budgets,          \* BudgetManager: id -> [scope, limit, watts, exceeded], None when not set
  recommendations,  \* the advice given: [action, of], kept for ever
  heard             \* id -> the last event about the budget since it was set (external)

vars == <<profiles, accounts, history, workloads, budgets, recommendations, heard>>

PowerSample == [device : Devices, watts : Nat \union {None, Invalid}]

PowerAssumption ==
  /\ \A d \in Devices : Idle[d] \in Nat /\ Rated[d] \in Nat
  /\ Samples \subseteq PowerSample /\ Batches \subseteq Seq(PowerSample)
  /\ Limits \subseteq Nat \ {0} /\ MaxHistory \in Nat

Registered == {d \in Devices : profiles[d] # None}

Init ==
  /\ profiles = [d \in Devices |-> None]
  /\ accounts = [d \in Devices |-> [count |-> 0, sum |-> 0, peak |-> 0]]
  /\ history = [d \in Devices |-> <<>>]
  /\ workloads = [d \in Devices |-> [hashes |-> 0, revenue |-> 0]]
  /\ budgets = [b \in Budgets |-> None]
  /\ recommendations = {}
  /\ heard = [b \in Budgets |-> None]

-----------------------------------------------------------------------------
(* A device and its samples. *)

\* Mutant: the sums of an earlier registration are kept.
MutOpened(d) == IF d \in Registered THEN accounts[d] ELSE [count |-> 0, sum |-> 0, peak |-> Idle[d]]

Opened(d) == [count |-> 0, sum |-> 0, peak |-> Idle[d]]

\* Registering a device again starts its profile and its sums anew; its history, its
\* workload and the advice about it stay.
RegisterDevice(d) ==
  /\ profiles' = [profiles EXCEPT ![d] =
       [watts |-> Idle[d], peak |-> Idle[d], health |-> "unknown", stage |-> "profiled", sensor |-> FALSE,
        trend |-> "unknown", hashes |-> None, revenue |-> None]]
  /\ accounts' = [accounts EXCEPT ![d] = Opened(d)]
  /\ UNCHANGED <<history, workloads, budgets, recommendations, heard>>

SetWorkloadTelemetry(d, workload) ==
  /\ d \in Registered
  /\ workloads' = [workloads EXCEPT ![d] = workload]
  /\ UNCHANGED <<profiles, accounts, history, budgets, recommendations, heard>>

\* Rates are fractions <<numerator, denominator>> of a positive denominator.
Exceeds(a, b, num, den) == a[1] * b[2] * den > b[1] * a[2] * num

EfficiencyTrend(now, before) ==
  IF before[1] = 0 THEN "unknown"
  ELSE IF Exceeds(now, before, 105, 100) THEN "improving"
  ELSE IF Exceeds(before, now, 100, 95) THEN "declining" ELSE "stable"

\* computeEfficiency() of the average draw, and the trend against the profile's last rate.
Efficiency(p, account, workload) ==
  LET rate(amount) == IF account.sum > 0 /\ amount > 0 THEN <<amount * account.count, account.sum>> ELSE None
      hashes == rate(workload.hashes) IN
  [hashes |-> hashes, revenue |-> rate(workload.revenue),
   trend |-> IF p.hashes # None /\ hashes # None THEN EfficiencyTrend(hashes, p.hashes) ELSE p.trend]

AssessHealth(d, watts) ==
  IF Rated[d] > 0 /\ watts > Rated[d] THEN "faulted"
  ELSE IF Rated[d] > 0 /\ 10 * watts > 9 * Rated[d] THEN "degraded" ELSE "healthy"

\* One sample moves the stage by one: the second test reads the profile of before the first.
Advanced(stage) ==
  CASE stage = "profiled" -> "monitored" [] stage = "monitored" -> "analyzed" [] OTHER -> stage

\* A state of the profiles, the sums and the history, and whether a sample made the call throw.
Midway(ps, as, hs, thrown) == [profiles |-> ps, accounts |-> as, history |-> hs, thrown |-> thrown]
Current == Midway(profiles, accounts, history, FALSE)

ApplySample(st, d, watts) ==
  LET a == [count |-> st.accounts[d].count + 1, sum |-> st.accounts[d].sum + watts,
            peak |-> Max({st.accounts[d].peak, watts})]
      e == Efficiency(st.profiles[d], a, workloads[d]) IN
  Midway([st.profiles EXCEPT ![d] =
            [watts |-> watts, peak |-> a.peak, health |-> AssessHealth(d, watts), stage |-> Advanced(@.stage), sensor |-> TRUE,
             trend |-> e.trend, hashes |-> e.hashes, revenue |-> e.revenue]],
         [st.accounts EXCEPT ![d] = a], [st.history EXCEPT ![d] = Append(@, watts)], FALSE)

SensorUnavailable(st, d) ==
  Midway([st.profiles EXCEPT ![d] = [@ EXCEPT !.sensor = FALSE, !.health = "degraded"]], st.accounts, st.history, FALSE)

Ingested(st, sample) ==
  IF st.thrown \/ sample.watts = Invalid THEN st
  ELSE IF sample.device \notin Registered THEN Midway(st.profiles, st.accounts, st.history, TRUE)
  ELSE IF sample.watts = None THEN SensorUnavailable(st, sample.device)
  ELSE ApplySample(st, sample.device, sample.watts)

Bounded(h) == \A d \in Devices : Len(h[d]) <= MaxHistory

\* ingestTelemetry() neither looks at the budgets nor gives advice.
IngestTelemetry(sample) ==
  LET st == Ingested(Current, sample) IN
  /\ sample.watts # Invalid /\ ~st.thrown /\ Bounded(st.history)
  /\ profiles' = st.profiles /\ accounts' = st.accounts /\ history' = st.history
  /\ UNCHANGED <<workloads, budgets, recommendations, heard>>

-----------------------------------------------------------------------------
(* Budgets and advice. *)

WattsOf(ps, scope) ==
  FoldSet(LAMBDA d, total : ps[d].watts + total, 0,
    {d \in Devices : ps[d] # None /\ (scope \in {"platform", "fleet", "rack"} \/ Domain[d] = scope)})

SetBudget(b, scope, limit) ==
  LET watts == WattsOf(profiles, scope) IN
  /\ budgets' = [budgets EXCEPT ![b] = [scope |-> scope, limit |-> limit, watts |-> watts, exceeded |-> watts > limit]]
  /\ heard' = [heard EXCEPT ![b] = None]
  /\ UNCHANGED <<profiles, accounts, history, workloads, recommendations>>

Evaluated(ps) ==
  [b \in Budgets |->
     IF budgets[b] = None THEN None
     ELSE LET watts == WattsOf(ps, budgets[b].scope) IN
          [budgets[b] EXCEPT !.watts = watts, !.exceeded = watts > budgets[b].limit]]

\* BudgetExceeded and BudgetRecovered are published when the answer changes.
Announced(evaluated) ==
  [b \in Budgets |->
     IF budgets[b] = None THEN None
     ELSE IF budgets[b].exceeded = evaluated[b].exceeded THEN heard[b]
     ELSE IF evaluated[b].exceeded THEN "exceeded" ELSE "recovered"]

Advice(ps, evaluated, peakWindow) ==
  LET known == {d \in Devices : ps[d] # None}
      rated == {d \in known : ps[d].sensor /\ ps[d].revenue # None} IN
  {[action |-> "limit", of |-> d] :
     d \in {x \in known : ps[x].sensor /\ Rated[x] > 0 /\ 100 * ps[x].watts > 95 * Rated[x]}}
  \union {[action |-> "declining", of |-> d] : d \in {x \in known : ps[x].sensor /\ ps[x].trend = "declining"}}
  \union {[action |-> evaluated[b].scope, of |-> None] :
            b \in {x \in Budgets : evaluated[x] # None /\ evaluated[x].exceeded}}
  \union (IF peakWindow /\ \E d \in known : ps[d].watts > 2 * Idle[d] THEN {[action |-> "delay", of |-> None]} ELSE {})
  \union {[action |-> "shift", of |-> d] :
            d \in {x \in rated : /\ \A y \in rated \ {x} : ~Exceeds(ps[x].revenue, ps[y].revenue, 1, 1)
                                 /\ \E y \in rated \ {x} : Exceeds(ps[y].revenue, ps[x].revenue, 3, 2)}}

\* A device that has been analyzed and advised about is optimized.
Optimized(ps, advice) ==
  [d \in Devices |->
     IF ps[d] # None /\ ps[d].stage = "analyzed" /\ \E r \in advice : r.of = d
     THEN [ps[d] EXCEPT !.stage = "optimized"] ELSE ps[d]]

\* collectAndUpdate(): the samples in order, then the budgets and the advice.
CollectAndUpdate(samples, peakWindow) ==
  LET st == FoldLeft(Ingested, Current, samples)
      evaluated == Evaluated(st.profiles)
      advice == recommendations \union Advice(st.profiles, evaluated, peakWindow) IN
  /\ ~st.thrown /\ Bounded(st.history)
  /\ profiles' = Optimized(st.profiles, advice)
  /\ accounts' = st.accounts /\ history' = st.history
  /\ budgets' = evaluated /\ heard' = Announced(evaluated)
  /\ recommendations' = advice
  /\ UNCHANGED workloads

CollectionThrows(samples) ==
  LET st == FoldLeft(Ingested, Current, samples) IN
  /\ st.thrown /\ Bounded(st.history)
  /\ profiles' = st.profiles /\ accounts' = st.accounts /\ history' = st.history
  /\ UNCHANGED <<workloads, budgets, recommendations, heard>>

Next ==
  \/ \E d \in Devices : RegisterDevice(d) \/ \E w \in Workload : SetWorkloadTelemetry(d, w)
  \/ \E s \in Samples : IngestTelemetry(s)
  \/ \E b \in Budgets, scope \in Scopes, limit \in Limits : SetBudget(b, scope, limit)
  \/ \E samples \in Batches :
       CollectionThrows(samples) \/ \E peakWindow \in BOOLEAN : CollectAndUpdate(samples, peakWindow)

Spec == Init /\ [][Next]_vars

-----------------------------------------------------------------------------
(* Properties. *)

\* A profile tells what was measured since the device was last registered, whatever was
\* collected, ingested or thrown in the middle of a batch: the sums are those of the latest
\* points of the history, the peak is the highest of them, and the current draw the last.
ProfilesTellHistory ==
  \A d \in Registered :
    LET a == accounts[d]  latest == SubSeq(history[d], Len(history[d]) - a.count + 1, Len(history[d])) IN
    /\ a.count <= Len(history[d])
    /\ a.sum = FoldLeft(+, 0, latest)
    /\ profiles[d].peak = Max({Idle[d]} \union ToSet(latest))
    /\ profiles[d].watts = IF latest = <<>> THEN Idle[d] ELSE Last(latest)

\* A device is analyzed after two samples at least, and optimized when there is advice for it.
StagesAreEarned ==
  \A d \in Registered :
    /\ profiles[d].stage = "monitored" => accounts[d].count >= 1
    /\ profiles[d].stage \in {"analyzed", "optimized"} => accounts[d].count >= 2
    /\ profiles[d].stage = "optimized" => \E r \in recommendations : r.of = d

\* Whoever heard of a budget since it was set knows whether it is exceeded.
BudgetsAreHeard ==
  \A b \in Budgets : budgets[b] # None /\ heard[b] # None => (heard[b] = "exceeded") = budgets[b].exceeded

\* What the code does not keep.
\* A budget tells the power of its scope: only the next collection that does not throw tells it.
BudgetsAreCurrent == \A b \in Budgets : budgets[b] # None => budgets[b].watts = WattsOf(profiles, budgets[b].scope)
\* No budget is exceeded that nobody heard of: setBudget() below the current draw is silent.
ExcessIsHeard == \A b \in Budgets : budgets[b] # None /\ budgets[b].exceeded => heard[b] = "exceeded"
=============================================================================
