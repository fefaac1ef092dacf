----------------------- MODULE VersionGovernanceAuthority -----------------------
(***************************************************************************)
(* The Version Governance & Migration Authority                            *)
(* (core/version_governance_authority/src): the versions of governed       *)
(* artifacts, the compatibility recorded between them, and migrations that *)
(* run through executors, with the two executors the package ships.        *)
(*                                                                         *)
(* executeMigration() is asynchronous: it awaits execute(), verify() and   *)
(* rollback() of the executor, each of which does its work when called and *)
(* answers later; other migrations, registrations and configuration loads  *)
(* go on meanwhile.  requestMigration() is Plan followed by Execute.       *)
(* Events and the audit trail, which keeps every record written, are left  *)
(* out.                                                                    *)
(***************************************************************************)
EXTENDS Naturals, Sequences, FiniteSetsExt, SequencesExt

CONSTANTS
  Types,        \* the registered artifact types that have an executor
  Semvers,      \* version strings
  Artifacts,    \* <<t, v>>: the artifact versions there are to register
  Changes,      \* <<t, from, to>>: what compatibility is recorded of and migrations do
  Migrations,
  Schema,       \* Schema[t]: the version the authority behind t states
  Recovers,     \* types whose executor is wrapped by withResilienceRollback()
  Throwing,     \* whether executors other than the package's are used, which may throw
  Nothing,
  MaxRelationships, MaxSnapshots   \* bounds of the model

Configuration == "configuration-schema"

VARIABLES
  versions,       \* the record of each artifact version, Nothing if there is none
  relationships,  \* what was recorded of compatibility, in that order
  migrations,     \* the record of each migration
  calls,          \* the executeMigration() under way, each with its copy of the record
  captured,       \* preMigrationSnapshotVersion of the configuration's executor
  made, served,   \* configuration snapshots made, and the one that is served
  tally           \* the counters

versionVars == <<versions, relationships, migrations, calls, captured, made, served, tally>>

VersionStatuses ==
  {"registered", "certified", "released", "supported", "deprecated", "retired", "rejected"}
VersionRecord == [status : VersionStatuses, certification : {"uncertified", "certified", "rejected"},
                  deprecation : BOOLEAN]
VersionTransitions ==
  {<<"registered", "certified">>, <<"registered", "rejected">>, <<"certified", "released">>,
   <<"released", "supported">>, <<"supported", "deprecated">>, <<"deprecated", "retired">>}

CompatibilityRelationship == [change : Changes, compatible : BOOLEAN]

MigrationStatuses ==
  {"planned", "validated", "compatibility-verified", "executed", "verified", "certified", "rollback",
   "rolled-back", "failed"}
MigrationRecord == [change : Changes, status : MigrationStatuses, steps : Seq(MigrationStatuses)]
MigrationTransitions ==
  {<<"planned", "validated">>, <<"planned", "failed">>, <<"validated", "compatibility-verified">>,
   <<"compatibility-verified", "executed">>, <<"executed", "verified">>, <<"verified", "certified">>,
   <<"rollback", "rolled-back">>, <<"rollback", "failed">>}
  \cup ({"validated", "compatibility-verified", "executed", "verified"} \X {"rollback"})
Ended == {"certified", "rolled-back", "failed"}

VersionGovernanceAssumption ==
  /\ Schema \in [Types -> Semvers] /\ Recovers \subseteq Types
  /\ Artifacts \subseteq Types \X Semvers /\ Changes \subseteq Types \X Semvers \X Semvers
  /\ Throwing \in BOOLEAN /\ IsFiniteSet(Migrations)
  /\ Nothing \notin VersionRecord \cup MigrationRecord

Init ==
  /\ versions = [v \in Artifacts |-> Nothing]
  /\ relationships = <<>>
  /\ migrations = [m \in Migrations |-> Nothing]
  /\ captured = [m \in Migrations |-> Nothing]
  /\ calls = {} /\ made = 0 /\ served = 0
  /\ tally = [migrated |-> 0, unmigrated |-> 0, rolledBack |-> 0, notRolledBack |-> 0]

----------------------------------------------------------------------------
\* The Version Registry: one record per artifact and version.
Unregistered(v) == versions[v] = Nothing
NewVersion == [status |-> "registered", certification |-> "uncertified", deprecation |-> FALSE]
Register(v) ==
  /\ Unregistered(v)
  /\ versions' = [versions EXCEPT ![v] = NewVersion]
  /\ UNCHANGED <<relationships, migrations, calls, captured, made, served, tally>>

\* What the configuration, the data domains and the event definitions state.
CurrentVersions == {v \in Artifacts : Schema[v[1]] = v[2]}
\* syncVersions(): what the sources state and is not registered yet.
SyncVersions ==
  LET new == {v \in CurrentVersions : Unregistered(v)}
  IN  /\ new # {}
      /\ versions' = [v \in Artifacts |-> IF v \in new THEN NewVersion ELSE versions[v]]
      /\ UNCHANGED <<relationships, migrations, calls, captured, made, served, tally>>

TransitionVersion(v, record, status) ==
  /\ versions[v] # Nothing
  /\ <<versions[v].status, status>> \in VersionTransitions
  /\ versions' = [versions EXCEPT ![v] = [record EXCEPT !.status = status]]
  /\ UNCHANGED <<relationships, migrations, calls, captured, made, served, tally>>

CertifyVersion(v, outcome) == TransitionVersion(v, [versions[v] EXCEPT !.certification = outcome], outcome)
ReleaseVersion(v) == TransitionVersion(v, versions[v], "released")
MarkSupported(v) == TransitionVersion(v, versions[v], "supported")
DeprecateVersion(v) == TransitionVersion(v, [versions[v] EXCEPT !.deprecation = TRUE], "deprecated")
RetireVersion(v) == TransitionVersion(v, versions[v], "retired")

RecordCompatibility(r) ==
  /\ Len(relationships) < MaxRelationships
  /\ relationships' = Append(relationships, r)
  /\ UNCHANGED <<versions, migrations, calls, captured, made, served, tally>>

Concerning(change) == {k \in DOMAIN relationships : relationships[k].change = change}
\* Mutant: what was not recorded is compatible.
MutCompatible(change) ==
  LET ks == Concerning(change) IN ks = {} \/ relationships[Max(ks)].compatible
\* check(): the latest relationship recorded; none is no compatibility.
Compatible(change) ==
  LET ks == Concerning(change) IN ks # {} /\ relationships[Max(ks)].compatible
\* The evolution graph: canUpgradeSafely() takes the first one recorded, and
\* compatibleWith() and deprecatedWithActiveDependents() any.
CanUpgradeSafely(change) ==
  LET ks == Concerning(change) IN ks # {} /\ relationships[Min(ks)].compatible
CompatibleWith(t, to) ==
  {change \in Changes : /\ change[1] = t /\ change[3] = to
                        /\ \E k \in DOMAIN relationships : relationships[k] = [change |-> change, compatible |-> TRUE]}
DeprecatedWithActiveDependents ==
  {v \in Artifacts : versions[v] # Nothing /\ versions[v].status = "deprecated" /\ CompatibleWith(v[1], v[2]) # {}}

----------------------------------------------------------------------------
\* The executors' calls: [ok] is what they answer, Nothing when they throw; the
\* rest is the configuration after them.
Quiet(ok) == [ok |-> ok, made |-> made, served |-> served, captured |-> captured]
Thrown == IF Throwing THEN {Quiet(Nothing)} ELSE {}

\* reload() makes a snapshot or, rejected, returns the last valid one without a
\* sign of it; getSnapshot() throws when nothing was loaded.
ExecuteConfiguration(m) ==
  LET noted == [captured EXCEPT ![m] = served]
  IN  IF served = 0 THEN {Quiet(Nothing)}
      ELSE {[ok |-> TRUE, made |-> made + 1, served |-> made + 1, captured |-> noted],
            [ok |-> TRUE, made |-> made, served |-> served, captured |-> noted]}
RollbackConfiguration(m) ==
  IF captured[m] = Nothing THEN {Quiet(FALSE)}
  ELSE {[Quiet(TRUE) EXCEPT !.served = captured[m]]}

\* find() of the domain may throw, which is caught; there is no undo but a recovery.
Executes(m, t) == (IF t = Configuration THEN ExecuteConfiguration(m) ELSE {Quiet(TRUE), Quiet(FALSE)}) \cup Thrown
Verifies(m, t) ==
  (IF t = Configuration /\ served = 0 THEN {Quiet(Nothing)} ELSE {Quiet(Schema[t] = migrations[m].change[3])}) \cup Thrown
Undoes(m, t) ==
  (IF t \in Recovers THEN {Quiet(TRUE), Quiet(FALSE)}
   ELSE IF t = Configuration THEN RollbackConfiguration(m) ELSE {Quiet(FALSE)}) \cup Thrown

----------------------------------------------------------------------------
Plan(m, change) ==
  /\ migrations[m] = Nothing
  /\ migrations' = [migrations EXCEPT ![m] = [change |-> change, status |-> "planned", steps |-> <<"planned">>]]
  /\ UNCHANGED <<versions, relationships, calls, captured, made, served, tally>>

Stepped(record, status) == [record EXCEPT !.status = status, !.steps = Append(@, status)]

\* The executor is called and awaited, with the record as it then is.
Awaits(others, m, record, at, answer) ==
  /\ made' = answer.made /\ served' = answer.served /\ captured' = answer.captured
  /\ answer.made <= MaxSnapshots
  /\ migrations' = [migrations EXCEPT ![m] = record]
  /\ calls' = others \cup {[of |-> m, at |-> at, record |-> record, ok |-> answer.ok]}

\* Mutant: the transition is not asserted.
MutMayStart(record) == record.status \notin Ended
MayStart(record) == <<record.status, "validated">> \in MigrationTransitions

\* executeMigration() as far as its first await.
Execute(m) ==
  /\ migrations[m] # Nothing /\ MayStart(migrations[m])
  /\ LET validated == Stepped(migrations[m], "validated")
         t == validated.change[1]
     IN  IF Compatible(validated.change)
         THEN \E answer \in Executes(m, t) :
                Awaits(calls, m, Stepped(validated, "compatibility-verified"), "executing", answer)
         ELSE \E answer \in Undoes(m, t) : Awaits(calls, m, Stepped(validated, "rollback"), "undoing", answer)
  /\ UNCHANGED <<versions, relationships, tally>>

Ends(c, record, count) ==
  /\ calls' = calls \ {c}
  /\ migrations' = [migrations EXCEPT ![c.of] = record]
  /\ tally' = count
  /\ UNCHANGED <<versions, relationships, captured, made, served>>

\* The executor answers no, or yes; it threw, and the call with it.
Fails(c) ==
  /\ c.ok = FALSE /\ c.at \in {"executing", "verifying"}
  /\ \E answer \in Undoes(c.of, c.record.change[1]) : Awaits(calls \ {c}, c.of, Stepped(c.record, "rollback"), "undoing", answer)
  /\ UNCHANGED <<versions, relationships, tally>>
Executed(c) ==
  /\ c.ok = TRUE /\ c.at = "executing"
  /\ \E answer \in Verifies(c.of, c.record.change[1]) : Awaits(calls \ {c}, c.of, Stepped(c.record, "executed"), "verifying", answer)
  /\ UNCHANGED <<versions, relationships, tally>>
Verified(c) ==
  /\ c.ok = TRUE /\ c.at = "verifying"
  /\ Ends(c, Stepped(Stepped(c.record, "verified"), "certified"), [tally EXCEPT !.migrated = @ + 1])
RolledBack(c) ==
  /\ c.ok # Nothing /\ c.at = "undoing"
  /\ IF c.ok THEN Ends(c, Stepped(c.record, "rolled-back"),
                       [tally EXCEPT !.rolledBack = @ + 1, !.unmigrated = @ + 1])
     ELSE Ends(c, Stepped(c.record, "failed"), [tally EXCEPT !.notRolledBack = @ + 1, !.unmigrated = @ + 1])
Rejects(c) ==
  /\ c.ok = Nothing
  /\ calls' = calls \ {c}
  /\ UNCHANGED <<versions, relationships, migrations, captured, made, served, tally>>

\* Somebody else loads the configuration.
ConfigurationLoads ==
  /\ Configuration \in Types /\ made < MaxSnapshots
  /\ made' = made + 1 /\ served' = made + 1
  /\ UNCHANGED <<versions, relationships, migrations, calls, captured, tally>>

Next ==
  \/ SyncVersions \/ ConfigurationLoads
  \/ \E v \in Artifacts :
       \/ Register(v) \/ ReleaseVersion(v) \/ MarkSupported(v) \/ DeprecateVersion(v) \/ RetireVersion(v)
       \/ \E outcome \in {"certified", "rejected"} : CertifyVersion(v, outcome)
  \/ \E r \in CompatibilityRelationship : RecordCompatibility(r)
  \/ \E m \in Migrations :
       \/ Execute(m)
       \/ \E change \in Changes : Plan(m, change)
  \/ \E c \in calls : Fails(c) \/ Executed(c) \/ Verified(c) \/ RolledBack(c) \/ Rejects(c)

Spec == Init /\ [][Next]_versionVars

----------------------------------------------------------------------------
\* The records each call writes back are copies from before its awaits: they are
\* the current ones, no migration is run by two calls, none after it ended, and
\* the counters add up to what the records say.
PipelineOwned ==
  /\ \A c \in calls : migrations[c.of] = c.record /\ migrations[c.of].status \notin Ended
  /\ \A c, d \in calls : c.of = d.of => c = d
  /\ LET ended(s) == Cardinality({m \in Migrations : migrations[m] # Nothing /\ migrations[m].status = s})
     IN  tally = [migrated |-> ended("certified"), rolledBack |-> ended("rolled-back"),
                  notRolledBack |-> ended("failed"), unmigrated |-> ended("rolled-back") + ended("failed")]

\* "Compatibility Before Migration": nothing was executed that had not been recorded
\* compatible, and no version released that had not been certified.
GatesPassed ==
  /\ \A m \in Migrations : migrations[m] # Nothing =>
       ((\E k \in DOMAIN migrations[m].steps : migrations[m].steps[k] = "compatibility-verified") =>
         \E k \in DOMAIN relationships : relationships[k] = [change |-> migrations[m].change, compatible |-> TRUE])
  /\ \A v \in Artifacts : versions[v] # Nothing =>
       versions[v].status \notin {"released", "supported", "deprecated", "retired"} \/ versions[v].certification = "certified"

\* A migration that no call runs has ended or has not begun.
EverySettles ==
  \A m \in Migrations : migrations[m] # Nothing =>
    migrations[m].status \in Ended \cup {"planned"} \/ \E c \in calls : c.of = m

\* The evolution graph answers as executeMigration() would.
GraphAgrees ==
  /\ \A change \in Changes : CanUpgradeSafely(change) <=> Compatible(change)
  /\ \A v \in DeprecatedWithActiveDependents : \E change \in CompatibleWith(v[1], v[2]) : Compatible(change)
=============================================================================
