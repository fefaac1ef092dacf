------------------------------- MODULE Services -------------------------------
(* The authorities that keep the platform's information and evidence, side by *)
(* side: data, configuration, notifications, versions, certifications and     *)
(* health.  They share no state, so each behaviour is one of the authority in *)
(* focus, or of one elsewhere, and the others stay in an initial state.       *)
EXTENDS DataAuthority

CONSTANTS
  Keys, PluginKeys, Mutability, Masked, Settings, Accepts, Defaults, Conflicts, Checkers, Migration,
  Redacted, MaxSupplies, MaxLoads,                                                 \* configuration
  Notifications, NoticeTypes, Channels, Digest, MaxAttempts,                       \* notification
  ArtifactTypes, Semvers, Artifacts, Changes, Migrations, Schema, Recovers, Throwing, MaxRelationships,
  MaxSnapshots,                                                                    \* versions
  Certifications, Hardware, Levels, Requirements, Observations, TypeOf, Metrics, MaxObserved,  \* certification
  Identities, Batches, Weightings, DefaultWeights, MaxAssessments, MaxProfiles     \* health

VARIABLES
  focus,
  registry, checkers, given, malformed, history, index, version, lastValid, provenance, saved, reverted, restored,
  supplies,                                                                        \* configuration
  records, deliveries, acks, due, recent, counts, answered,                        \* notification
  versions, relationships, migrations, executions, captured, made, served, tally,  \* versions
  certificates, attached, trust, policies, lifecycle,                              \* certification
  profiles, weights, assessments, heard                                            \* health

configurationVars == <<registry, checkers, given, malformed, history, index, version, lastValid, provenance, saved,
                       reverted, restored, supplies>>
notificationVars == <<records, deliveries, acks, due, recent, counts, answered>>
versionVars == <<versions, relationships, migrations, executions, captured, made, served, tally>>
certificationVars == <<certificates, attached, trust, policies, lifecycle>>
healthVars == <<profiles, weights, assessments, heard>>

C == INSTANCE ConfigurationAuthority WITH Values <- Settings, Default <- Defaults, MaxHistory <- MaxLoads
N == INSTANCE NotificationAuthority WITH Types <- NoticeTypes, Registered <- Channels, calls <- deliveries
V == INSTANCE VersionGovernanceAuthority WITH Types <- ArtifactTypes, calls <- executions
F == INSTANCE CertificationAuthority WITH None <- Nothing, records <- certificates
H == INSTANCE HealthAuthority WITH
       None <- Nothing, Default <- DefaultWeights, MaxHistory <- MaxAssessments, audit <- assessments

ASSUME ServicesAssumption ==
  /\ C!ConfigurationAssumption /\ N!NotificationAssumption /\ V!VersionGovernanceAssumption
  /\ F!CertificationAssumption /\ H!HealthAssumption

servicesVars ==
  <<focus, vars, configurationVars, notificationVars, versionVars, certificationVars, healthVars>>

ServicesInit ==
  /\ focus \in {"data", "configuration", "notification", "versions", "certification", "health", "elsewhere"}
  /\ Init /\ C!Init /\ N!Init /\ V!Init /\ F!Init /\ H!Init
  /\ focus = "data" \/ conn.content = Empty

ServicesNext ==
  /\ UNCHANGED focus
  /\ IF focus = "data" THEN Next ELSE UNCHANGED vars
  /\ IF focus = "configuration" THEN C!Next ELSE UNCHANGED configurationVars
  /\ IF focus = "notification" THEN N!Next ELSE UNCHANGED notificationVars
  /\ IF focus = "versions" THEN V!Next ELSE UNCHANGED versionVars
  /\ IF focus = "certification" THEN F!Next ELSE UNCHANGED certificationVars
  /\ IF focus = "health" THEN H!Next ELSE UNCHANGED healthVars

ServicesSpec == ServicesInit /\ [][ServicesNext]_servicesVars

\* Configuration: what is served when the last load was rejected is the last that was valid, and the
\* provenance explains the values of the active snapshot.
ServedIsExplained == focus = "configuration" => C!FallbackIsServed /\ C!ProvenanceExplains
\* Notifications: no attempt of a delivery is lost, and one that is delivered was answered with a success.
AttemptsKept == focus = "notification" => N!AttemptsKept
\* Versions: a migration has one call, whose copy is current, the counters agree, and it went through
\* every gate.
MigrationsAreGated == focus = "versions" => V!PipelineOwned /\ V!GatesPassed
\* Certified hardware stands on evidence that meets its level's requirements until it is revoked, and
\* a health profile's history is what was assessed, with a forecast that follows from it.
EvidenceStands ==
  /\ focus = "certification" => F!StandingIsEarned /\ F!RevokedStays
  /\ focus = "health" => H!AuditIsHistory /\ H!ForecastIsGrounded
=============================================================================
