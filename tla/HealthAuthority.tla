---------------------------- MODULE HealthAuthority ----------------------------
(* The Health Authority (core/health_authority): the profiles it scores from  *)
(* the signals that other authorities publish, their history, the forecast    *)
(* and what listeners are told. All operations are synchronous; a step below  *)
(* is one of them, up to its end or to the exception that ends it.            *)
EXTENDS Integers, FiniteSets, Sequences, SequencesExt, Functions

CONSTANTS
  Identities,       \* [component, provider]: who is observed, and by whom
  Batches,          \* what the providers may publish at a refresh: sequences of observations
  Weightings,       \* the weights that may be set: part of the score -> Nat
  Default,          \* DEFAULT_HEALTH_SCORE_WEIGHTS
  None,
  MaxHistory, MaxProfiles    \* bounds of the model: assessments of a profile, profiles ever made

VARIABLES
  profiles,         \* HealthRegistry: identity -> [id, overall, status, history], or None
  weights,
  audit,            \* HealthAuditTrail: for each profile ever made, the overall scores of its records
  heard             \* identity -> what its listeners heard last: "alarm", "recovery" or None

vars == <<profiles, weights, audit, heard>>

Parts == {"reliability", "stability", "performance", "availability"}

Statuses == {"healthy", "warning", "critical"}
HealthProfile == [id : Nat, overall : Int, status : Statuses, history : Seq([at : Nat, overall : Int])]

\* An observation is of an identity and a time, with the scores of some parts or of the whole.
HealthAssumption ==
  /\ Weightings \union {Default} \subseteq [Parts -> Nat] /\ \A w \in Weightings \union {Default} : \E p \in Parts : w[p] > 0
  /\ \A b \in Batches : b \in Seq(Range(b)) /\ \A o \in Range(b) :
       o.of \in Identities /\ o.at \in Nat /\ DOMAIN o.scores \subseteq Parts \union {"overall"}
       /\ Range(o.scores) \subseteq Int
  /\ IsFiniteSet(Identities) /\ None \notin HealthProfile

Profiled == {k \in Identities : profiles[k] # None}

Init ==
  /\ profiles = [k \in Identities |-> None]
  /\ weights = Default
  /\ audit = <<>>
  /\ heard = [k \in Identities |-> None]

-----------------------------------------------------------------------------
(* Scores and the forecast. *)

\* A part that nobody scored counts as zero, unless the whole was scored.
Score(scores, part) ==
  IF part \in DOMAIN scores THEN scores[part] ELSE IF "overall" \in DOMAIN scores THEN scores["overall"] ELSE 0

Total(f) == FoldFunctionOnSet(LAMBDA a, b : a + b, 0, f, DOMAIN f)
\* In hundredths, rounded down.
Overall(scores, w) == (100 * Total([p \in Parts |-> w[p] * Score(scores, p)])) \div Total(w)

StatusFor(overall) == IF overall >= 8000 THEN "healthy" ELSE IF overall >= 5000 THEN "warning" ELSE "critical"

WellFormed(o) == DOMAIN o.scores # {} /\ Range(o.scores) \subseteq 0..100

\* The first and the last of the history by the time of observation; what was observed at one time stays
\* in order of assessment.
NoLater(h, i, j) == h[i].at < h[j].at \/ (h[i].at = h[j].at /\ i <= j)
Earliest(h) == h[CHOOSE i \in DOMAIN h : \A j \in DOMAIN h : NoLater(h, i, j)]
Latest(h) == h[CHOOSE i \in DOMAIN h : \A j \in DOMAIN h : NoLater(h, j, i)]

Trend(profile) ==
  LET h == profile.history
      change == Latest(h).overall - Earliest(h).overall IN
  IF Len(h) < 2 THEN "unknown"
  ELSE IF change <= -200 * (Len(h) - 1) THEN "degrading"
  ELSE IF change >= 200 * (Len(h) - 1) THEN "improving" ELSE "stable"

ExpectedFailure(profile) ==
  \/ profile.status = "critical"
  \/ Trend(profile) = "degrading" /\ profile.overall <= 6000

-----------------------------------------------------------------------------
(* Operations. *)

\* The events of an assessment in their order, of those that say how it stands.
Events(profile, previous) ==
  <<"HealthUpdated">>
  \o (IF profile.status = "critical" THEN <<"HealthCritical">>
      ELSE IF profile.status = "warning" THEN <<"HealthWarning">> ELSE <<>>)
  \o (IF previous # None /\ previous.status # "healthy" /\ profile.status = "healthy" THEN <<"HealthRecovered">> ELSE <<>>)
  \o (IF ExpectedFailure(profile) THEN <<"FailurePredicted">> ELSE <<>>)

\* Listeners hear the events up to the one whose handler throws.
Told(events, deaf) == SelectInSeq(events, LAMBDA e : e = deaf)
Hears(k, events, deaf, h) ==
  LET reach == IF Told(events, deaf) = 0 THEN Len(events) ELSE Told(events, deaf) - 1
      told == Range(SubSeq(events, 1, reach)) IN
  IF {"HealthCritical", "HealthWarning"} \intersect told # {} THEN [h EXCEPT ![k] = "alarm"]
  ELSE IF "HealthRecovered" \in told THEN [h EXCEPT ![k] = "recovery"] ELSE h

\* Mutant: a profile goes on from that of any provider of its component.
MutPrevious(s, k) ==
  LET same == {j \in Identities : j.component = k.component /\ s.profiles[j] # None} IN
  IF same = {} THEN None ELSE s.profiles[CHOOSE j \in same : TRUE]

Previous(s, k) == s.profiles[k]

\* The profile that an observation makes or adds to.
Assessed(s, o) ==
  LET previous == Previous(s, o.of)
      entry == [at |-> o.at, overall |-> Overall(o.scores, weights)] IN
  [id |-> IF previous = None THEN Len(s.audit) + 1 ELSE previous.id,
   overall |-> entry.overall, status |-> StatusFor(entry.overall),
   history |-> IF previous = None THEN <<entry>> ELSE Append(previous.history, entry)]

Recorded(trail, profile) ==
  IF profile.id > Len(trail) THEN Append(trail, <<profile.overall>>)
  ELSE [trail EXCEPT ![profile.id] = Append(@, profile.overall)]

\* assess(): s is the authority before it, with how it ended so far.
Midway(made, trail, told, thrown) == [profiles |-> made, audit |-> trail, heard |-> told, thrown |-> thrown]
Assess(s, o, deaf) ==
  LET profile == Assessed(s, o)
      events == Events(profile, Previous(s, o.of)) IN
  IF s.thrown THEN s
  ELSE IF ~WellFormed(o) THEN Midway(s.profiles, s.audit, s.heard, TRUE)
  ELSE Midway([s.profiles EXCEPT ![o.of] = profile], Recorded(s.audit, profile),
              Hears(o.of, events, deaf, s.heard), Told(events, deaf) # 0)

\* All signals are collected before the first is assessed; the first exception ends the refresh.
Refresh(batch, deaf) ==
  /\ Len(audit) + Cardinality({o.of : o \in Range(batch)} \ Profiled) <= MaxProfiles
  /\ \A o \in Range(batch) : profiles[o.of] # None => Len(profiles[o.of].history) + Len(batch) <= MaxHistory
  /\ \E s \in {FoldLeft(LAMBDA t, o : Assess(t, o, deaf), Midway(profiles, audit, heard, FALSE), batch)} :
       profiles' = s.profiles /\ audit' = s.audit /\ heard' = s.heard
  /\ UNCHANGED weights

\* What was overridden before stays so. History is not scored anew.
SetWeights(w) ==
  /\ weights' = w
  /\ UNCHANGED <<profiles, audit, heard>>

\* HealthRegistry.remove(): whoever holds the authority may.
Withdraw(k) ==
  /\ k \in Profiled /\ profiles' = [profiles EXCEPT ![k] = None]
  /\ UNCHANGED <<weights, audit, heard>>

Next ==
  \/ \E b \in Batches, deaf \in {None, "HealthUpdated", "HealthRecovered"} : Refresh(b, deaf)
  \/ \E w \in Weightings : SetWeights(w)
  \/ \E k \in Identities : Withdraw(k)

Spec == Init /\ [][Next]_vars

-----------------------------------------------------------------------------
(* The digital twin, a view of the registry. *)

Institutional ==
  LET overall == Total([k \in Profiled |-> profiles[k].overall]) \div Cardinality(Profiled) IN
  [overall |-> overall, status |-> StatusFor(overall)]

-----------------------------------------------------------------------------
(* Properties. *)

\* A profile's history is what the audit trail recorded of it, assessment by assessment, whichever of
\* them ended in an exception; no two identities share a profile, and a removed one is not taken up again.
AuditIsHistory ==
  /\ \A k \in Profiled : LET p == profiles[k] IN
       /\ p.id \in DOMAIN audit /\ audit[p.id] = [i \in DOMAIN p.history |-> p.history[i].overall]
       /\ p.overall = Last(audit[p.id])
  /\ \A j, k \in Profiled : profiles[j].id = profiles[k].id => j = k

\* A failure is predicted of what is critical, or was better at the first time it was observed and is
\* not well now; the institution is never worse than its worst profile or better than its best.
ForecastIsGrounded ==
  /\ \A k \in Profiled : ExpectedFailure(profiles[k]) =>
       /\ profiles[k].status # "healthy"
       /\ \/ profiles[k].status = "critical"
          \/ \E e, f \in Range(profiles[k].history) : e.at <= f.at /\ f.overall < e.overall
  /\ Profiled # {} => \E j, k \in Profiled :
       profiles[j].overall <= Institutional.overall /\ Institutional.overall <= profiles[k].overall

\* What the code does not keep.
\* The current health is what was observed last.
CurrentIsLatest == \A k \in Profiled : profiles[k].overall = Latest(profiles[k].history).overall
\* An alarm that was raised is called off once the component is healthy.
RecoveryIsHeard == \A k \in Profiled : profiles[k].status = "healthy" => heard[k] # "alarm"
\* A danger is heard of.
DangerIsHeard == \A k \in Profiled : profiles[k].status # "healthy" => heard[k] = "alarm"
=============================================================================
