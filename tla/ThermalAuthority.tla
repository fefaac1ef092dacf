--------------------------- MODULE ThermalAuthority ---------------------------
(* The Thermal Authority (core/thermal_authority): profiles of devices, with  *)
(* a state against a budget, and from the history a trend, a forecast,        *)
(* anomalies and advice. A collection reads nothing before its await and is   *)
(* one step; an impossible temperature makes it throw there, with the samples *)
(* before it processed. Samples of a device come a minute apart.              *)
EXTENDS Integers, Sequences, SequencesExt, FiniteSetsExt

CONSTANTS
  Devices,      \* device ids, of one domain
  DeviceType,   \* the domain, under which a budget may be set for all of them
  Idles,        \* device -> the idle temperature it is registered with, None for none
  BudgetsOf,    \* the budgets in use: [target, warning, critical]
  Default,      \* the budget of the domain where none was set
  Batches,      \* what a collection may return: [samples, unavailable], of [device, celsius, fan, available]
  None,
  MaxHistory    \* history points of one device

VARIABLES
  profiles,     \* ThermalRegistry: device -> its profile, None when unknown
  history,      \* ThermalHistoryStore: device -> the temperatures of its points
  budgets,      \* BudgetManager: device, or the domain -> the budget set for it, None for none
  forecasts,    \* device -> its forecast's cooling note, None when there is no forecast
  advice,       \* device -> the kinds of its recommendations
  anomalies,    \* device -> the kinds of its anomalies
  heard         \* device -> the last event about its state (external)

vars == <<profiles, history, budgets, forecasts, advice, anomalies, heard>>

ValidBudget(b) == b.target < b.warning /\ b.warning < b.critical

ThermalSample == [device : Devices, celsius : Int, fan : Nat \union {None}, available : BOOLEAN]

ThermalAssumption ==
  /\ ValidBudget(Default) /\ MaxHistory \in Nat /\ DeviceType \notin Devices
  /\ Batches \subseteq [samples : Seq(ThermalSample), unavailable : SUBSET Devices]
  /\ None \notin BOOLEAN /\ None \notin {"warning", "critical"}

Known(d) == profiles[d] # None
Init ==
  /\ profiles = [d \in Devices |-> None]
  /\ history = [d \in Devices |-> <<>>]
  /\ budgets = [key \in Devices \union {DeviceType} |-> None]
  /\ forecasts = [d \in Devices |-> None]
  /\ advice = [d \in Devices |-> {}] /\ anomalies = [d \in Devices |-> {}]
  /\ heard = [d \in Devices |-> None]

-----------------------------------------------------------------------------
(* Diagnostics, trend, forecast. *)

Possible(celsius) == celsius \in -50..150

BudgetOf(d) ==
  IF budgets[d] # None THEN budgets[d] ELSE IF budgets[DeviceType] # None THEN budgets[DeviceType] ELSE Default

ThermalState(celsius, b, available) ==
  IF ~available THEN "unknown"
  ELSE IF celsius >= b.critical THEN "critical"
  ELSE IF celsius >= b.warning THEN "warning"
  ELSE IF celsius >= b.target THEN "elevated" ELSE "nominal"

Total(s) == FoldLeft(+, 0, s)
Steps(h) == [i \in 1..(Len(h) - 1) |-> h[i + 1] - h[i]]
Rises(h) == SelectSeq(Steps(h), LAMBDA x : x > 0)
Falls(h) == SelectSeq(Steps(h), LAMBDA x : x < 0)

\* Fractions <<numerator, denominator>> with a positive denominator: degrees per minute.
MeanRate(steps) == IF steps = <<>> THEN <<0, 1>> ELSE <<Total(steps), Len(steps)>>
Below(a, b, num, den) == a[1] * b[2] * den < b[1] * a[2] * num

\* Least squares over the points, at the minutes 0, 1, ...
Slope(h) ==
  LET n == Len(h)
      x == [i \in 1..n |-> i - 1]
      sum(f) == FoldLeft(+, 0, f) IN
  <<n * sum([i \in 1..n |-> x[i] * h[i]]) - sum(x) * sum(h), n * sum([i \in 1..n |-> x[i] * x[i]]) - sum(x) * sum(x)>>

Trend(h) == [slope |-> Slope(h), heating |-> MeanRate(Rises(h)),
             cooling |-> LET f == MeanRate(Falls(h)) IN <<-f[1], f[2]>>]

\* Why a forecast notes that cooling is required: the device is hot, will be in half an hour,
\* or cools less than half as fast as it heats.
CoolingNote(celsius, trend, b) ==
  \/ celsius >= b.warning
  \/ trend.slope[1] > 0 /\ (b.warning - celsius) * trend.slope[2] < 30 * trend.slope[1]
  \/ trend.slope[1] > 0 /\ Below(trend.cooling, trend.heating, 1, 2)

-----------------------------------------------------------------------------
(* Anomalies and advice. *)

Direction(x) == IF x > 0 THEN 1 ELSE IF x < 0 THEN -1 ELSE 0
Turns(h) ==
  LET ds == SelectSeq([i \in 1..(Len(h) - 1) |-> Direction(Steps(h)[i])], LAMBDA x : x # 0) IN
  Cardinality({i \in 2..Len(ds) : ds[i] # ds[i - 1]})

\* p is the new profile, q the one before it or None, fan the sample's speed or None.
DetectAnomalies(p, q, h, trend, fan) ==
  IF ~p.sensor THEN {"sensor-failure"}
  ELSE {k \in {"temperature-spike", "unexpected-idle-temp", "oscillation", "fan-anomaly", "abnormal-heating",
               "cooling-degradation"} :
          CASE k = "temperature-spike" -> q # None /\ p.celsius - q.celsius >= 15
            [] k = "unexpected-idle-temp" -> p.idle # None /\ p.celsius - p.idle >= 20 /\ (fan = None \/ fan < 1000)
            [] k = "oscillation" -> Len(h) >= 4 /\ Turns(h) >= 3
            [] k = "fan-anomaly" -> fan # None /\ fan < 500 /\ p.celsius > 70 /\ p.state # "nominal"
            [] k = "abnormal-heating" ->
                 Len(h) >= 3 /\ p.state = "warning"
                 /\ \A i \in (Len(h) - 1)..Len(h) : h[i] > h[i - 1]
            [] OTHER -> trend # None /\ p.state # "nominal" /\ 2 * trend.heating[1] > trend.heating[2]
                        /\ Below(trend.cooling, trend.heating, 3, 10)}

GenerateRecommendations(p, b, note, trend, found) ==
  IF ~p.sensor THEN {"investigate-sensor"}
  ELSE {k \in {"reduce-workload", "consider-reducing", "review-cooling", "rising", "inspect-fan", "maintenance",
               "above-target"} :
          CASE k = "reduce-workload" -> p.state = "critical"
            [] k = "consider-reducing" -> p.state = "warning"
            [] k = "review-cooling" -> note = TRUE
            [] k = "rising" -> trend # None /\ 2 * trend.slope[1] > trend.slope[2]
            [] k = "inspect-fan" -> "fan-anomaly" \in found
            [] k = "maintenance" -> "cooling-degradation" \in found
            [] OTHER -> p.celsius > b.target /\ p.state = "nominal"}

-----------------------------------------------------------------------------
(* Lifecycle: a transition that is not allowed is skipped. *)

Transitions ==
  [discovered  |-> {"profiled", "archived"}, profiled |-> {"monitored", "archived"},
   monitored   |-> {"analyzed", "archived"}, analyzed |-> {"forecasted", "monitored", "archived"},
   forecasted  |-> {"recommended", "analyzed", "archived"}, recommended |-> {"monitored", "archived"},
   archived    |-> {}]
Advance(stage, to) == IF to \in Transitions[stage] THEN to ELSE stage
AdvanceIf(stage, condition, to) == IF condition THEN Advance(stage, to) ELSE stage

\* The stages an analysis goes through.
Analyzed(stage, trended, advised) ==
  LET forecast == IF trended THEN Advance(Advance(stage, "analyzed"), "forecasted") ELSE stage IN
  AdvanceIf(Advance(forecast, "monitored"), advised, "recommended")

RegisterDevice(d) ==
  /\ profiles' = [profiles EXCEPT ![d] =
       [celsius |-> 0, idle |-> Idles[d], peak |-> None, min |-> None, state |-> "unknown", stage |-> "profiled",
        sensor |-> FALSE]]
  /\ UNCHANGED <<history, budgets, forecasts, advice, anomalies, heard>>

\* A budget whose thresholds are out of order is refused.
SetBudget(key, b) ==
  /\ ValidBudget(b)
  /\ budgets' = [budgets EXCEPT ![key] = b]
  /\ UNCHANGED <<profiles, history, forecasts, advice, anomalies, heard>>

-----------------------------------------------------------------------------
(* A collection. *)

\* Mutant: a device whose state was not known is not announced.
MutAnnounced(before, state, last) ==
  IF state = before \/ before = "unknown" THEN last
  ELSE IF state \in {"warning", "critical"} THEN state
  ELSE IF before \in {"warning", "critical"} /\ state \in {"nominal", "elevated"} THEN "recovered" ELSE last

\* What is published when the state changes.
Announced(before, state, last) ==
  IF state = before THEN last
  ELSE IF state \in {"warning", "critical"} THEN state
  ELSE IF before \in {"warning", "critical"} /\ state \in {"nominal", "elevated"} THEN "recovered" ELSE last

\* A state of what a collection changes, and whether a sample made it throw.
Midway(ps, hs, notes, advised, found, told, thrown) ==
  [profiles |-> ps, history |-> hs, forecasts |-> notes, advice |-> advised, anomalies |-> found, heard |-> told, thrown |-> thrown]
Current == Midway(profiles, history, forecasts, advice, anomalies, heard, FALSE)

\* The temperature of a sensor that is unavailable counts for the extremes, checked or not. A
\* device nobody registered starts as discovered, which no later step leaves.
Measured(st, s) ==
  LET q == st.profiles[s.device]
      seen == {s.celsius} \union ToSet(st.history[s.device]) IN
  [celsius |-> s.celsius, idle |-> IF q = None THEN None ELSE q.idle,
   peak |-> Max(seen \union IF q = None \/ q.peak = None THEN {} ELSE {q.peak}),
   min |-> Min(seen \union IF q = None \/ q.min = None THEN {} ELSE {q.min}),
   state |-> ThermalState(s.celsius, BudgetOf(s.device), s.available),
   stage |-> IF q = None THEN "discovered" ELSE q.stage, sensor |-> s.available]

\* p is the profile with the sample, q the one before it, h the history with it and last the note of the
\* forecast before it, which stays without a trend.
RunAnalysis(d, p, q, h, fan, last) ==
  LET trend == IF Len(h) >= 2 THEN Trend(h) ELSE None
      note == IF trend # None THEN CoolingNote(p.celsius, trend, BudgetOf(d)) ELSE last
      found == DetectAnomalies(p, q, h, trend, fan) IN
  [trended |-> trend # None, note |-> note, found |-> found,
   advice |-> GenerateRecommendations(p, BudgetOf(d), note, trend, found)]

Recorded(st, s, p, q, h) ==
  LET d == s.device
      a == RunAnalysis(d, p, q, h, s.fan, st.forecasts[d]) IN
  Midway([st.profiles EXCEPT ![d] = [p EXCEPT !.stage = Analyzed(@, a.trended, a.advice # {})]],
         [st.history EXCEPT ![d] = h], [st.forecasts EXCEPT ![d] = a.note], [st.advice EXCEPT ![d] = a.advice],
         [st.anomalies EXCEPT ![d] = a.found],
         [st.heard EXCEPT ![d] = Announced(IF q = None THEN None ELSE q.state, p.state, @)], FALSE)

ProcessSample(st, s) ==
  IF st.thrown THEN st
  ELSE IF s.available /\ ~Possible(s.celsius)
       THEN Midway(st.profiles, st.history, st.forecasts, st.advice, st.anomalies, st.heard, TRUE)
  ELSE Recorded(st, s, Measured(st, s), st.profiles[s.device],
                IF s.available THEN Append(st.history[s.device], s.celsius) ELSE st.history[s.device])

\* The devices the provider names as unavailable lose their state, without an analysis.
WithoutSensor(ps, unavailable) ==
  [d \in Devices |->
     IF d \in unavailable /\ ps[d] # None THEN [ps[d] EXCEPT !.sensor = FALSE, !.state = "unknown"] ELSE ps[d]]

CollectAndUpdate(batch) ==
  \E st \in {FoldLeft(ProcessSample, Current, batch.samples)} :
  /\ \A d \in Devices : Len(st.history[d]) <= MaxHistory
  /\ profiles' = IF st.thrown THEN st.profiles ELSE WithoutSensor(st.profiles, batch.unavailable)
  /\ history' = st.history /\ forecasts' = st.forecasts
  /\ advice' = st.advice /\ anomalies' = st.anomalies /\ heard' = st.heard
  /\ UNCHANGED budgets

Next ==
  \/ \E d \in Devices : RegisterDevice(d)
  \/ \E key \in DOMAIN budgets, b \in BudgetsOf : SetBudget(key, b)
  \/ \E batch \in Batches : CollectAndUpdate(batch)

Spec == Init /\ [][Next]_vars

-----------------------------------------------------------------------------
(* Properties. *)

\* Whoever listens knows of every device in a warning or a critical state, whatever came in
\* between: other budgets, a sensor that was away, a device registered again.
DangerIsHeard ==
  \A d \in Devices : Known(d) /\ profiles[d].state \in {"warning", "critical"} => heard[d] = profiles[d].state

\* And its owner is advised about it, by advice that is made anew with every sample.
DangerIsAdvised ==
  \A d \in Devices : Known(d) =>
    /\ profiles[d].state = "critical" => "reduce-workload" \in advice[d]
    /\ profiles[d].state = "warning" => "consider-reducing" \in advice[d]

\* A stage is reached for a reason that still holds, though transitions that are not allowed
\* are skipped in silence: a forecast from two points, and advice that is there.
StagesAreEarned ==
  \A d \in Devices : Known(d) =>
    /\ profiles[d].stage \in {"analyzed", "forecasted", "recommended"} => Len(history[d]) >= 2 /\ forecasts[d] # None
    /\ profiles[d].stage = "recommended" => advice[d] # {}

\* The extremes of a profile that was measured cover all of its history, of before it was
\* registered again as well.
ExtremesCover ==
  \A d \in Devices : Known(d) /\ profiles[d].peak # None =>
    \A i \in DOMAIN history[d] : profiles[d].min <= history[d][i] /\ history[d][i] <= profiles[d].peak

\* What the code does not keep.
\* A device that was announced as hot and is not any more was announced as recovered: not if
\* its sensor was away in between.
RecoveryIsHeard ==
  \A d \in Devices : Known(d) /\ profiles[d].state \in {"nominal", "elevated"} => heard[d] \in {None, "recovered"}
\* A device that is monitored leaves the first stage: not one that nobody registered.
NoneStuck == \A d \in Devices : Known(d) => profiles[d].stage # "discovered"
\* The advice about a temperature above target that is nominal: never given.
TargetIsWatched == \A d \in Devices : "above-target" \notin advice[d]
=============================================================================
