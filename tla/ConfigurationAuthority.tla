------------------------ MODULE ConfigurationAuthority ------------------------
(***************************************************************************)
(* The Configuration Authority (core/configuration_authority/src): values  *)
(* resolved from sources by precedence, migrated, validated and served as  *)
(* immutable snapshots; updates, rollbacks, and snapshots put back by the  *)
(* Resilience Authority.                                                   *)
(*                                                                         *)
(* Everything is synchronous: an action is one call.  A load(), reload()   *)
(* or requestUpdate() that is rejected changes nothing but the logs and is *)
(* not an action.  Events, masked views and the audit log, which states    *)
(* every update and rollback and no load, are left out.                    *)
(***************************************************************************)
EXTENDS Naturals, Sequences, FiniteSetsExt

CONSTANTS
  Keys, PluginKeys,   \* registered by the constructor; declared by plugins later
  Mutability,         \* runtimeMutability of each
  Masked,             \* those that are confidential, restricted or secret
  Values, Accepts,    \* Accepts[k]: values of k's type, enum and range
  Default,
  Conflicts,          \* <<k, v, l, w>>: k's own rule rejects v when l is w
  Checkers,           \* <<k, v>>: what hardware and policy checkers may reject
  Migration,          \* the migrations, as a partial map from <<k, v>> to values
  Nothing, Redacted,
  MaxSupplies, MaxHistory  \* bounds of the model

AllKeys == Keys \cup PluginKeys
\* In the order of precedence.
Sources == <<"cli", "env", "secrets", "file">>
Snapshot == [version : Nat, values : UNION {[S -> Values] : S \in SUBSET AllKeys}]

ConfigurationAssumption ==
  /\ Mutability \in [AllKeys -> {"immutable", "hot-reloadable", "authorized-update-only"}]
  /\ Masked \subseteq AllKeys /\ Default \in [AllKeys -> Values]
  /\ Accepts \in [AllKeys -> SUBSET Values]
  /\ {Nothing, Redacted} \cap Values = {}

VARIABLES
  registry,      \* the keys that are registered
  checkers,      \* the checkers that are registered
  given,         \* what each source says of each key
  malformed,     \* the file is not JSON
  history, index,     \* SnapshotStore: its history and which one is current, 0 for none
  version,       \* snapshotVersion
  lastValid,     \* lastValidSnapshot
  provenance,    \* value, source and snapshot version of each key
  saved,         \* the snapshot a backup holds
  reverted,      \* since the last load a snapshot was put back
  restored,      \* and that of a backup is being served
  supplies

configVars == <<registry, checkers, given, malformed, history, index, version, lastValid,
                provenance, saved, reverted, restored, supplies>>

Started ==
  [registry |-> Keys, checkers |-> {}, history |-> <<>>, index |-> 0, version |-> 0, lastValid |-> Nothing,
   provenance |-> [k \in AllKeys |-> Nothing]]

Init ==
  /\ registry = Started.registry /\ checkers = Started.checkers
  /\ history = Started.history /\ index = Started.index /\ version = Started.version
  /\ lastValid = Started.lastValid /\ provenance = Started.provenance
  /\ given = [s \in {Sources[n] : n \in DOMAIN Sources} |-> [k \in AllKeys |-> Nothing]]
  /\ malformed = FALSE /\ saved = Nothing
  /\ reverted = FALSE /\ restored = FALSE /\ supplies = 0

Current == history[index]
\* The sources that say something of k; what the first of them says.
Saying(k) == {n \in DOMAIN Sources : given[Sources[n]][k] # Nothing}
SourceOf(k) == IF Saying(k) = {} THEN "default" ELSE Sources[Min(Saying(k))]
Resolved(k) == IF Saying(k) = {} THEN Default[k] ELSE given[SourceOf(k)][k]
Migrate(values) ==
  [k \in DOMAIN values |-> IF <<k, values[k]>> \in DOMAIN Migration THEN Migration[<<k, values[k]>>]
                           ELSE values[k]]

\* runValidationPipeline().  Owners and namespaces of the entries are right by the
\* checks of registerPluginSchema().
Valid(values) ==
  LET at(k) == IF k \in DOMAIN values THEN values[k] ELSE Default[k]
  IN  /\ DOMAIN values \subseteq registry
      /\ \A k \in registry : at(k) \in Accepts[k] /\ <<k, at(k)>> \notin checkers
      /\ \A c \in Conflicts : ~(c[1] \in registry /\ at(c[1]) = c[2] /\ c[3] \in DOMAIN values /\ values[c[3]] = c[4])

Activate(snapshot) ==
  /\ Len(history) < MaxHistory
  /\ history' = Append(history, snapshot)
  /\ index' = Len(history) + 1

----------------------------------------------------------------------------
\* Mutant: the value before the migrations.
MutLoaded(k, values) == [value |-> Resolved(k), source |-> SourceOf(k), version |-> version + 1]
Loaded(k, values) == [value |-> values[k], source |-> SourceOf(k), version |-> version + 1]

\* load() and reload(), which looks at no key's mutability.
Load ==
  LET values == Migrate([k \in registry |-> Resolved(k)])
      snapshot == [version |-> version + 1, values |-> values]
  IN  /\ ~malformed /\ Valid(values)
      /\ version' = version + 1
      /\ Activate(snapshot)
      /\ lastValid' = snapshot
      /\ provenance' = [k \in AllKeys |->
           IF k \in registry THEN Loaded(k, values) ELSE provenance[k]]
      /\ reverted' = FALSE /\ restored' = FALSE
      /\ UNCHANGED <<registry, checkers, given, malformed, saved, supplies>>

\* requestUpdate().  A key registered since the last load() has no provenance, and
\* the call throws after all else is done.
RequestUpdate(k, v) ==
  LET candidate == [l \in DOMAIN Current.values \cup {k} |-> IF l = k THEN v ELSE Current.values[l]]
      snapshot == [version |-> version + 1, values |-> candidate]
  IN  /\ k \in registry /\ Mutability[k] # "immutable" /\ index # 0
      /\ Valid(candidate)
      /\ version' = version + 1
      /\ Activate(snapshot)
      /\ lastValid' = snapshot
      /\ restored' = FALSE
      /\ provenance' =
           IF provenance[k] = Nothing THEN provenance
           ELSE [provenance EXCEPT ![k].value = IF k \in Masked THEN Redacted ELSE v,
                                   ![k].version = version + 1]
      /\ UNCHANGED <<registry, checkers, given, malformed, saved, reverted, supplies>>

\* Mutant: what a rejected reload falls back to stays the later one.
MutRollback(v) ==
  LET found == {n \in DOMAIN history : history[n].version = v}
  IN  /\ index # 0 /\ found # {}
      /\ index' = Min(found)
      /\ reverted' = TRUE /\ restored' = FALSE
      /\ UNCHANGED <<registry, checkers, given, malformed, history, version, lastValid, provenance, saved, supplies>>

\* rollback(): to the first snapshot of that version; it is not validated again.
Rollback(v) ==
  LET found == {n \in DOMAIN history : history[n].version = v}
  IN  /\ index # 0 /\ found # {}
      /\ index' = Min(found)
      /\ lastValid' = history[Min(found)]
      /\ reverted' = TRUE /\ restored' = FALSE
      /\ UNCHANGED <<registry, checkers, given, malformed, history, version, provenance, saved, supplies>>

----------------------------------------------------------------------------
RegisterPlugin(k) ==
  /\ k \in PluginKeys \ registry
  /\ registry' = registry \cup {k}
  /\ UNCHANGED <<checkers, given, malformed, history, index, version, lastValid, provenance, saved,
                 reverted, restored, supplies>>

RegisterChecker(c) ==
  /\ c \in Checkers \ checkers
  /\ checkers' = checkers \cup {c}
  /\ UNCHANGED <<registry, given, malformed, history, index, version, lastValid, provenance, saved,
                 reverted, restored, supplies>>

\* The Resilience Authority's handler: it backs up the current snapshot and puts
\* it back by snapshots.activate().
Backup ==
  /\ index # 0
  /\ saved' = Current
  /\ UNCHANGED <<registry, checkers, given, malformed, history, index, version, lastValid, provenance,
                 reverted, restored, supplies>>
ActivateRestored ==
  /\ saved # Nothing
  /\ Activate(saved)
  /\ reverted' = TRUE /\ restored' = TRUE
  /\ UNCHANGED <<registry, checkers, given, malformed, version, lastValid, provenance, saved, supplies>>

\* The file or the secrets change; argv and the environment are those of the process.
Supply(s, k, v) ==
  /\ supplies < MaxSupplies /\ given[s][k] # v
  /\ s \in {"cli", "env"} => history = <<>>
  /\ s = "secrets" => k \in Masked
  /\ supplies' = supplies + 1
  /\ given' = [given EXCEPT ![s][k] = v]
  /\ UNCHANGED <<registry, checkers, malformed, history, index, version, lastValid, provenance, saved,
                 reverted, restored>>
Garble ==
  /\ supplies < MaxSupplies
  /\ supplies' = supplies + 1
  /\ malformed' = ~malformed
  /\ UNCHANGED <<registry, checkers, given, history, index, version, lastValid, provenance, saved,
                 reverted, restored>>

\* The process ends and starts again; the file and the backup outlive it.
Restart ==
  /\ registry' = Started.registry /\ checkers' = Started.checkers
  /\ history' = Started.history /\ index' = Started.index /\ version' = Started.version
  /\ lastValid' = Started.lastValid /\ provenance' = Started.provenance
  /\ reverted' = FALSE /\ restored' = FALSE
  /\ UNCHANGED <<given, malformed, saved, supplies>>

Next ==
  \/ Load \/ Backup \/ ActivateRestored \/ Restart \/ Garble
  \/ \E k \in AllKeys, v \in Values : RequestUpdate(k, v)
  \/ \E v \in 1..MaxHistory : Rollback(v)
  \/ \E k \in PluginKeys : RegisterPlugin(k)
  \/ \E c \in Checkers : RegisterChecker(c)
  \/ \E n \in DOMAIN Sources, k \in AllKeys, v \in Values \cup {Nothing} : Supply(Sources[n], k, v)

Spec == Init /\ [][Next]_configVars

----------------------------------------------------------------------------
\* What a rejected reload() returns is what get() serves, through updates,
\* rollbacks and rejected loads; only a restored backup is served without it.
FallbackIsServed == index # 0 /\ ~restored => lastValid = Current

\* "Every value can answer" where it comes from: the provenance of each key of
\* the current snapshot states its value and a snapshot that has it, unless one
\* was put back since the last load, which provenance does not follow.
ProvenanceExplains ==
  index # 0 /\ ~reverted =>
    \A k \in DOMAIN Current.values : provenance[k] # Nothing =>
      /\ provenance[k].value \in {Current.values[k]} \cup (IF k \in Masked THEN {Redacted} ELSE {})
      /\ \E n \in DOMAIN history : /\ history[n].version = provenance[k].version
                                   /\ k \in DOMAIN history[n].values
                                   /\ history[n].values[k] = Current.values[k]

\* "immutable: fixed after first load".
ImmutableFixed ==
  [][\A k \in Keys : Mutability[k] = "immutable" /\ index # 0 /\ index' # 0
       => (history'[index']).values[k] = Current.values[k]]_configVars

\* "Every attempt produces [...] on success, a provenance override entry".
OverrideExplained == index # 0 => \A k \in DOMAIN Current.values : provenance[k] # Nothing \/ restored
=============================================================================
