----------------------- MODULE MiningPluginCertification -----------------------
(***************************************************************************)
(* The Mining Plugin Certification Authority                               *)
(* (core/mining_plugin_certification_authority/src): certifications of     *)
(* plugin versions are submitted, put through a pipeline of seven tests,   *)
(* decided on, suspended, revoked and repeated.                            *)
(*                                                                         *)
(* The pipeline awaits a provider for each test, with a private copy of    *)
(* the record that is saved at its end; everything else is one step, but   *)
(* for the notification of a decision, which changes nothing.  What a test *)
(* observed is kept as the set of a run's observations.                    *)
(***************************************************************************)
EXTENDS Naturals, Sequences, FiniteSetsExt

CONSTANTS
  Plugins,         \* plugins in a version each
  Claims,          \* plugins whose manifest certifies itself
  Certifications,  \* the records there are to submit
  Observations,    \* [passed, degraded, score, blocked, critical]: what a test may observe
  Nothing,
  MaxAttempts      \* bound of the model: recertifications of a record

CertificationLevels == {"Experimental", "Development", "Qualified", "Production", "InstitutionalCritical"}
CertificationLifecycleStages ==
  {"Submitted", "Validated", "Testing", "EvidenceCollected", "Reviewed", "Certified", "Active", "Suspended", "Revoked",
   "Recertified", "Rejected", "Failed"}
\* tests: how many of the latest run's tests have a result on record, of which
\* evidence is the set.
PluginCertificationRecord ==
  [plugin : Plugins, stage : CertificationLifecycleStages,
   level : CertificationLevels \cup {Nothing}, tests : 0..7, evidence : SUBSET Observations, attempts : Nat]

MiningPluginCertificationAssumption ==
  /\ Claims \subseteq Plugins
  /\ Observations \subseteq [passed : BOOLEAN, degraded : BOOLEAN, score : 0..100, blocked : BOOLEAN,
                             critical : BOOLEAN]
  /\ Nothing \notin PluginCertificationRecord

VARIABLES
  certifications,  \* the stored records
  updated,         \* the submitted ones in the order of their last update
  pipelines        \* the pipelines under way, each with its copy of a record

certificationVars == <<certifications, updated, pipelines>>

PipelineStages ==
  <<"StaticValidation", "DependencyValidation", "SecurityValidation", "FunctionalTesting", "CompatibilityTesting",
    "PerformanceTesting", "RuntimeTesting">>
\* What each level demands: policies.ts, the published thresholds.
Policies ==
  [level \in CertificationLevels |->
    CASE level = "Experimental" -> [minimum |-> 0, undegraded |-> FALSE, critical |-> FALSE]
      [] level = "Development"  -> [minimum |-> 60, undegraded |-> FALSE, critical |-> FALSE]
      [] level = "Qualified"    -> [minimum |-> 75, undegraded |-> FALSE, critical |-> FALSE]
      [] level = "Production"   -> [minimum |-> 85, undegraded |-> TRUE, critical |-> FALSE]
      [] OTHER                  -> [minimum |-> 95, undegraded |-> TRUE, critical |-> TRUE]]
CertificationLifecycle ==
  {<<"Submitted", "Validated">>, <<"Submitted", "Rejected">>, <<"Validated", "Testing">>, <<"Validated", "Rejected">>,
   <<"Validated", "Failed">>, <<"Testing", "EvidenceCollected">>, <<"Testing", "Failed">>, <<"Testing", "Rejected">>,
   <<"EvidenceCollected", "Reviewed">>, <<"EvidenceCollected", "Failed">>, <<"Reviewed", "Certified">>,
   <<"Reviewed", "Failed">>, <<"Reviewed", "Rejected">>, <<"Certified", "Active">>, <<"Certified", "Suspended">>,
   <<"Certified", "Revoked">>, <<"Active", "Suspended">>, <<"Active", "Revoked">>, <<"Suspended", "Revoked">>,
   <<"Suspended", "Recertified">>, <<"Revoked", "Recertified">>, <<"Recertified", "Submitted">>,
   <<"Recertified", "Revoked">>}

CertificationInit ==
  /\ certifications = [c \in Certifications |-> Nothing]
  /\ updated = <<>> /\ pipelines = {}

----------------------------------------------------------------------------
Exists(c) == certifications[c] # Nothing
At(c, stage) == Exists(c) /\ certifications[c].stage = stage
Upsert(c, record) ==
  /\ certifications' = [certifications EXCEPT ![c] = record]
  /\ updated' = Append(SelectSeq(updated, LAMBDA d : d # c), c)

\* shown: the manifest is given, and refused when it certifies itself.
Submit(c, p, shown) ==
  /\ ~Exists(c) /\ ~(shown /\ p \in Claims)
  /\ Upsert(c, [plugin |-> p, stage |-> "Submitted", level |-> Nothing, tests |-> 0, evidence |-> {}, attempts |-> 0])
  /\ UNCHANGED pipelines

\* runPipeline(), from Submitted only, to its first await; [recertifies] when
\* recertify() goes on to certify().
Tests(c, record, recertifies) ==
  /\ Upsert(c, [record EXCEPT !.stage = "Validated"])
  /\ pipelines' = pipelines \cup
       {[of |-> c, record |-> [record EXCEPT !.stage = "Validated", !.tests = 0, !.evidence = {}],
         recertifies |-> recertifies]}
RunPipeline(c, shown) ==
  /\ At(c, "Submitted") /\ ~(shown /\ certifications[c].plugin \in Claims)
  /\ Tests(c, certifications[c], FALSE)
Recertify(c, shown) ==
  /\ At(c, "Revoked") \/ At(c, "Suspended")
  /\ ~(shown /\ certifications[c].plugin \in Claims) /\ certifications[c].attempts < MaxAttempts
  /\ Tests(c, [certifications[c] EXCEPT !.attempts = @ + 1], TRUE)

Testing(t) == t.record.stage # "EvidenceCollected"

\* A test is observed; the copy moves on, and what is stored only at the end.
Observed(t, observation) ==
  LET record == [t.record EXCEPT !.tests = @ + 1, !.evidence = @ \cup {observation},
                                 !.stage = IF ~observation.passed THEN IF t.record.tests = 0 THEN "Rejected" ELSE "Failed"
                                           ELSE IF t.record.tests + 1 = Len(PipelineStages) THEN "EvidenceCollected"
                                           ELSE "Testing"]
  IN  IF record.stage = "Testing"
      THEN pipelines' = (pipelines \ {t}) \cup {[t EXCEPT !.record = record]} /\ UNCHANGED <<certifications, updated>>
      ELSE /\ Upsert(t.of, record)
           /\ pipelines' = (pipelines \ {t}) \cup
                (IF t.recertifies /\ record.stage = "EvidenceCollected" THEN {[t EXCEPT !.record = record]} ELSE {})
\* A provider throws: what is stored stays Validated.
ProviderThrows(t) ==
  /\ Testing(t)
  /\ pipelines' = pipelines \ {t}
  /\ UNCHANGED <<certifications, updated>>

\* Mutant: the evidence of six tests is enough, and blocks nothing.
MutAssignedLevel(tests, evidence) == IF \E o \in evidence : o.score >= 85 THEN "Production" ELSE "Experimental"
\* assignCertificationLevel(); for Production every test suffices for the two it names.
AssignedLevel(tests, evidence) ==
  LET scores(minimum) == \A o \in evidence : o.score >= minimum
      undegraded == \A o \in evidence : ~o.degraded
  IN  IF tests # Len(PipelineStages) \/ \E o \in evidence : ~o.passed \/ o.blocked THEN Nothing
      ELSE IF scores(95) /\ undegraded /\ \E o \in evidence : o.critical THEN "InstitutionalCritical"
      ELSE IF scores(85) /\ undegraded THEN "Production"
      ELSE IF scores(75) THEN "Qualified"
      ELSE IF scores(60) THEN "Development"
      ELSE "Experimental"

Certified(c) ==
  LET record == certifications[c]
      level  == AssignedLevel(record.tests, record.evidence)
  IN  IF level = Nothing THEN Upsert(c, [record EXCEPT !.stage = "Failed"])
      ELSE Upsert(c, [record EXCEPT !.stage = "Active", !.level = level])
Certify(c) == At(c, "EvidenceCollected") /\ Certified(c) /\ UNCHANGED pipelines
\* recertify() goes on; somebody else may have certified meanwhile, and it throws.
CertifyAgain(t) ==
  /\ ~Testing(t)
  /\ pipelines' = pipelines \ {t}
  /\ IF At(t.of, "EvidenceCollected") THEN Certified(t.of) ELSE UNCHANGED <<certifications, updated>>

Withdraw(c, stage) ==
  /\ Exists(c) /\ <<certifications[c].stage, stage>> \in CertificationLifecycle
  /\ Upsert(c, [certifications[c] EXCEPT !.stage = stage])
  /\ UNCHANGED pipelines
Suspend(c) == Withdraw(c, "Suspended")
Revoke(c) == Withdraw(c, "Revoked")

\* decidePluginTrust() of the latest record; the level is the last one assigned.
Trusted(record) == record.stage \in {"Certified", "Active", "Recertified"} /\ record.tests > 0 /\ record.level # Nothing
Latest(p) == SelectSeq(updated, LAMBDA c : certifications[c].plugin = p)
CertificationStatus(p, shown) ==
  /\ ~(shown /\ p \in Claims) /\ Latest(p) # <<>>
  /\ Trusted(certifications[Latest(p)[Len(Latest(p))]])

CertificationNext ==
  \/ \E c \in Certifications :
       \/ Certify(c) \/ Suspend(c) \/ Revoke(c)
       \/ \E shown \in BOOLEAN :
            RunPipeline(c, shown) \/ Recertify(c, shown) \/ \E p \in Plugins : Submit(c, p, shown)
  \/ \E t \in pipelines : ProviderThrows(t) \/ CertifyAgain(t)
  \/ \E t \in {u \in pipelines : Testing(u)}, observation \in Observations :
       Observed(t, observation)

----------------------------------------------------------------------------
\* A pipeline saves a copy taken before its awaits: nothing else has changed the
\* record meanwhile, whoever runs, suspends or revokes it, and no two test at once.
\* (A recertify() whose pipeline has ended may go on when the next one tests.)
PipelineOwned ==
  /\ \A t, u \in pipelines : t.of = u.of /\ Testing(t) /\ Testing(u) => t = u
  /\ \A t \in pipelines : Testing(t) =>
       /\ certifications[t.of].stage = "Validated"
       /\ certifications[t.of].plugin = t.record.plugin /\ certifications[t.of].attempts = t.record.attempts
\* What is trusted has earned it: all seven tests of the latest run passed, none
\* blocked it, and the level is one whose published policy they meet.
TrustIsEarned ==
  \A c \in Certifications : Exists(c) /\ Trusted(certifications[c]) =>
    LET record == certifications[c]
        policy == Policies[record.level]
    IN  /\ record.tests = Len(PipelineStages)
        /\ \A o \in record.evidence : /\ o.passed /\ ~o.blocked /\ o.score >= policy.minimum
                                      /\ policy.undegraded => ~o.degraded
        /\ policy.critical => \E o \in record.evidence : o.critical

\* A certified plugin stays certified until it is suspended or revoked.
TrustIsKept ==
  [][\A p \in Plugins : CertificationStatus(p, FALSE) /\ ~CertificationStatus(p, FALSE)' =>
       \E c \in Certifications : Exists(c)' /\ certifications'[c].stage \in {"Suspended", "Revoked"}]_certificationVars
=============================================================================
