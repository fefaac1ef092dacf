------------------------ MODULE CertificationAuthority ------------------------
(* The Certification Authority (core/certification_authority): certifications *)
(* of hardware, decided by the policy of their level over the observations    *)
(* that were attached to them, and the trust it reads from observations. All  *)
(* operations are synchronous; a step below is one of them, up to its end or  *)
(* to the exception that ends it.                                             *)
EXTENDS Integers, FiniteSets, Functions

CONSTANTS
  Certifications,   \* certification ids
  Hardware,         \* hardware ids
  Levels,           \* the certification levels in use
  Requirements,     \* level -> [minimum, thresholds, types]; thresholds is metric -> the least score
  Observations,     \* evidence ids, unique over all providers
  TypeOf,           \* observation -> its evidence type
  Metrics,          \* observation -> (metric -> score of 0..100)
  None,
  MaxObserved       \* bound of the model: observations a collection brings

VARIABLES
  records,          \* CertificationRegistry: id -> [hardware, level, status, stage, expires, recurs, due, decision,
                    \* revocations], or None
  attached,         \* CertificationEvidenceStore: id -> the observations attached
  trust,            \* InstitutionalHardwareTrustModel: hardware -> the observations its score is of
  policies,         \* PolicyRegistry: the levels that have a policy
  lifecycle         \* the stages each record went through

vars == <<records, attached, trust, policies, lifecycle>>

Stages == {"discovered", "evaluated", "qualified", "certified", "production-approved", "recertified", "revoked"}
Statuses ==
  {"pending", "qualified", "certified", "production-approved", "recertified", "denied", "expired", "revoked"}
Decisions == [passed : BOOLEAN, evidence : SUBSET Observations]
CertificationRecord ==
  [hardware : Hardware, level : Levels, status : Statuses, stage : Stages, expires : BOOLEAN, recurs : BOOLEAN,
   due : BOOLEAN, decision : Decisions \union {None}, revocations : Nat]

CertificationAssumption ==
  /\ \A l \in Levels : Requirements[l].minimum \in Nat /\ Range(Requirements[l].thresholds) \subseteq 0..100
  /\ \A o \in Observations : Range(Metrics[o]) \subseteq 0..100
  /\ None \notin Decisions \union CertificationRecord

Successors(stage) ==
  CASE stage = "discovered" -> {"evaluated"}
    [] stage = "evaluated" -> {"qualified"}
    [] stage = "qualified" -> {"certified"}
    [] stage = "certified" -> {"production-approved", "revoked"}
    [] stage = "production-approved" -> {"recertified", "revoked"}
    [] stage = "recertified" -> {"revoked"}
    [] stage = "revoked" -> {}
ProductionGrade == {"production", "mission-critical"}

Registered == {c \in Certifications : records[c] # None}
MayMove(c, stage) == c \in Registered /\ stage \in Successors(records[c].stage)

Init ==
  /\ records = [c \in Certifications |-> None]
  /\ attached = [c \in Certifications |-> {}]
  /\ trust = [h \in Hardware |-> None]
  /\ policies = Levels
  /\ lifecycle = [c \in Certifications |-> {}]

-----------------------------------------------------------------------------
(* The policy of a level. *)

\* The mean of the scores of a metric, in hundredths and rounded.
Scored(metric, evidence) == {o \in evidence : metric \in DOMAIN Metrics[o]}
Aggregate(metric, evidence) ==
  LET scored == Scored(metric, evidence)
      sum == FoldFunctionOnSet(LAMBDA s, t : s + t, 0, [o \in scored |-> Metrics[o][metric]], scored) IN
  (200 * sum + Cardinality(scored)) \div (2 * Cardinality(scored))

Eligible(level, evidence) ==
  LET r == Requirements[level] IN
  /\ Cardinality(evidence) >= r.minimum
  /\ \A m \in DOMAIN r.thresholds : Scored(m, evidence) # {} /\ Aggregate(m, evidence) >= 100 * r.thresholds[m]
  /\ \A t \in r.types : \E o \in evidence : TypeOf[o] = t

RemovePolicy(level) ==
  /\ policies' = policies \ {level}
  /\ UNCHANGED <<records, attached, trust, lifecycle>>
RegisterPolicy(level) ==
  /\ policies' = policies \union {level}
  /\ UNCHANGED <<records, attached, trust, lifecycle>>

-----------------------------------------------------------------------------
(* Operations. *)

Start(c, h, level, expires, recurs) ==
  /\ records[c] = None
  /\ records' = [records EXCEPT ![c] =
       [hardware |-> h, level |-> level, status |-> "pending", stage |-> "discovered", expires |-> expires,
        recurs |-> recurs, due |-> FALSE, decision |-> None, revocations |-> 0]]
  /\ lifecycle' = [lifecycle EXCEPT ![c] = @ \union {"discovered"}]
  /\ UNCHANGED <<attached, trust, policies>>

\* An observation is attached once: the evaluation of one that is attached already throws at once.
\* Where its level has no policy it throws later, and what it attached remains.
Attach(c, observed) ==
  /\ observed \intersect attached[c] = {}
  /\ attached' = [attached EXCEPT ![c] = @ \union observed]
  /\ trust' = [trust EXCEPT ![records[c].hardware] = attached[c] \union observed]

Decision(c, observed) ==
  LET evidence == attached[c] \union observed IN
  [passed |-> Eligible(records[c].level, evidence), evidence |-> evidence]

Moved(c, stage, record) ==
  /\ records' = [records EXCEPT ![c] = [record EXCEPT !.stage = stage]]
  /\ lifecycle' = [lifecycle EXCEPT ![c] = @ \union {stage}]

Evaluate(c, observed) ==
  /\ MayMove(c, "evaluated") /\ records[c].level \in policies
  /\ Attach(c, observed)
  /\ LET decision == Decision(c, observed) IN
       Moved(c, "evaluated", [records[c] EXCEPT !.status = IF decision.passed THEN "qualified" ELSE "denied",
                                                !.decision = decision])
  /\ UNCHANGED policies

Unevaluated(c, observed) ==
  /\ MayMove(c, "evaluated") \/ MayMove(c, "recertified")
  /\ records[c].level \notin policies
  /\ Attach(c, observed)
  /\ UNCHANGED <<records, policies, lifecycle>>

\* Mutant: any evaluation qualifies.
MutQualify(c) ==
  /\ MayMove(c, "qualified")
  /\ Moved(c, "qualified", [records[c] EXCEPT !.status = "qualified"])
  /\ UNCHANGED <<attached, trust, policies>>

\* The status changed already when it was evaluated.
Qualify(c) ==
  /\ MayMove(c, "qualified") /\ records[c].decision # None /\ records[c].decision.passed
  /\ Moved(c, "qualified", [records[c] EXCEPT !.status = "qualified"])
  /\ UNCHANGED <<attached, trust, policies>>

Certify(c) ==
  /\ MayMove(c, "certified")
  /\ Moved(c, "certified", [records[c] EXCEPT !.status = "certified", !.due = records[c].recurs])
  /\ UNCHANGED <<attached, trust, policies>>

\* The stage is what counts, not the status: what has expired may be approved.
ApproveProduction(c) ==
  /\ MayMove(c, "production-approved") /\ records[c].level \in ProductionGrade
  /\ Moved(c, "production-approved", [records[c] EXCEPT !.status = "production-approved"])
  /\ UNCHANGED <<attached, trust, policies>>

\* New observations are judged with all the old ones. What fails is revoked.
Recertify(c, observed) ==
  /\ MayMove(c, "recertified") /\ records[c].level \in policies
  /\ Attach(c, observed)
  /\ LET decision == Decision(c, observed) IN
       IF decision.passed
       THEN Moved(c, "recertified", [records[c] EXCEPT !.status = "recertified", !.decision = decision,
                                                       !.due = records[c].recurs])
       ELSE Moved(c, "revoked", [records[c] EXCEPT !.status = "revoked", !.decision = decision,
                                                   !.revocations = @ + 1])
  /\ UNCHANGED policies

\* A handler of CertificationFailed throws before the revocation.
RecertifyInterrupted(c, observed) ==
  /\ MayMove(c, "recertified") /\ records[c].level \in policies
  /\ Attach(c, observed)
  /\ LET decision == Decision(c, observed) IN
       ~decision.passed /\ records' = [records EXCEPT ![c].decision = decision]
  /\ UNCHANGED <<policies, lifecycle>>

Revoke(c) ==
  /\ MayMove(c, "revoked")
  /\ Moved(c, "revoked", [records[c] EXCEPT !.status = "revoked", !.revocations = @ + 1])
  /\ UNCHANGED <<attached, trust, policies>>

\* Somebody says that the date on record has come. The stage stays.
Expire(c) ==
  /\ c \in Registered /\ records[c].expires /\ records[c].stage \in {"certified", "production-approved", "recertified"}
  /\ records' = [records EXCEPT ![c].status = "expired"]
  /\ UNCHANGED <<attached, trust, policies, lifecycle>>

RefreshTrust(h, observed) ==
  /\ trust' = [trust EXCEPT ![h] = observed]
  /\ UNCHANGED <<records, attached, policies, lifecycle>>

\* What the providers report at a time.
Collections == {o \in SUBSET Observations : Cardinality(o) <= MaxObserved}

Next ==
  \/ \E c \in Certifications :
       \/ \E h \in Hardware, l \in Levels, expires, recurs \in BOOLEAN : Start(c, h, l, expires, recurs)
       \/ \E o \in Collections :
            Evaluate(c, o) \/ Unevaluated(c, o) \/ Recertify(c, o) \/ RecertifyInterrupted(c, o)
       \/ Qualify(c) \/ Certify(c) \/ ApproveProduction(c) \/ Revoke(c) \/ Expire(c)
  \/ \E h \in Hardware, o \in Collections : RefreshTrust(h, o)
  \/ \E l \in Levels : RemovePolicy(l) \/ RegisterPolicy(l)

Spec == Init /\ [][Next]_vars

-----------------------------------------------------------------------------
(* Properties. *)

\* The standing of hardware rests on evidence that is attached and that its level's requirements are
\* met by, all of it and as judged by the last evaluation, unless that was a failing recertification
\* whose revocation a handler prevented; what is approved for production is of a level for it.
StandingIsEarned ==
  \A c \in Registered : LET r == records[c] IN
    /\ r.decision # None =>
         r.decision.evidence \subseteq attached[c] /\ r.decision.passed = Eligible(r.level, r.decision.evidence)
    /\ r.stage \in {"qualified", "certified", "recertified"} => r.decision # None /\ r.decision.passed
    /\ r.stage \in {"production-approved", "recertified"} => r.level \in ProductionGrade
    /\ r.stage = "recertified" => "production-approved" \in lifecycle[c]

\* A revocation is final, is made of what stood before, and leaves its trace.
RevokedStays ==
  \A c \in Registered : LET r == records[c] IN
    (r.stage = "revoked" <=> r.status = "revoked") /\ (r.stage = "revoked" <=> r.revocations = 1)
    /\ (r.stage = "revoked" <=> "revoked" \in lifecycle[c])
    /\ (r.stage = "revoked" => "certified" \in lifecycle[c])

\* What the code does not keep.
\* "A failed recertification immediately records revocation" (CertificationAuthority.ts:146).
FailedIsRevoked ==
  \A c \in Registered : records[c].decision # None /\ ~records[c].decision.passed => records[c].stage \in {"evaluated", "revoked"}
\* What expired does not come into force again without being recertified.
ExpiredStays ==
  [][\A c \in Registered : records[c].status = "expired" => records'[c].status # "production-approved"]_vars
\* What was observed for a certification is judged.
AllIsJudged ==
  \A c \in Registered : attached[c] # {} => records[c].decision # None /\ records[c].decision.evidence = attached[c]
=============================================================================
