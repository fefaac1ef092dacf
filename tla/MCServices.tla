------------------------------ MODULE MCServices ------------------------------
(* A small instance of the services: two records; three configuration keys;   *)
(* two notifications; two migrations; one certification; one component under  *)
(* two providers; and, elsewhere, the heap of the bus.                        *)
EXTENDS Services, TLC

CONSTANTS a, b, x, y

MCHop == 1 :> 2

\* One key that is plain and one that is secret.
MCMutability == [k \in {"token", "plugin"} |-> "authorized-update-only"]
MCAccepts == [k \in {"token", "plugin"} |-> {1, 2}]
MCDefaults == [k \in {"token", "plugin"} |-> 1]
MCConflicts == {<<"plugin", 2, "token", 2>>}
MCCheckers == {<<"token", 2>>}
MCMigration == <<"plugin", 2>> :> 1

\* A type that must be acknowledged and escalates twice, and one that is for information.
MCNoticeTypes ==
  [alert |-> [ack |-> TRUE, dup |-> FALSE, quiet |-> FALSE, channels |-> <<"pager">>,
              steps |-> <<[retry |-> TRUE, channels |-> <<>>], [retry |-> FALSE, channels |-> <<"console", "pager">>]>>],
   note  |-> [ack |-> FALSE, dup |-> TRUE, quiet |-> TRUE, channels |-> <<"email">>,
              steps |-> <<[retry |-> FALSE, channels |-> <<"console", "email">>]>>]]
MCDigest == <<"console">>

\* The configuration is upgraded and downgraded, the database upgraded with its backup.
MCArtifacts == {<<"configuration-schema", "v2">>}
MCChanges ==
  {<<"configuration-schema", "v1", "v2">>, <<"configuration-schema", "v2", "v1">>, <<"database-schema", "v1", "v2">>}
MCSchema == [t \in ArtifactTypes |-> "v2"]

\* A level that production takes and one that it does not.
MCRequirements == "experimental" :> [minimum |-> 1, thresholds |-> "stability" :> 40, types |-> {}]
               @@ "production" :> [minimum |-> 2, thresholds |-> "stability" :> 75, types |-> {"benchmark"}]
MCTypeOf == [b |-> "benchmark", h |-> "health", i |-> "health"]
MCMetrics == [b |-> [score |-> 80], h |-> [stability |-> 90], i |-> [stability |-> 50]]

\* Two providers, one of which may report what is impossible.
MCIdentities == [component : {"g"}, provider : {"p", "q"}]
MCBy(provider, t, scores) == [of |-> [component |-> "g", provider |-> provider], at |-> t, scores |-> scores]
MCBatches ==
  {<<MCBy("p", 1, [overall |-> 90])>>, <<MCBy("p", 2, [overall |-> 58])>>, <<MCBy("q", 1, [reliability |-> 100])>>,
   <<MCBy("q", 2, [overall |-> 90]), MCBy("p", 3, [overall |-> 101]), MCBy("p", 3, [overall |-> 40])>>}
MCWeightings == {[reliability |-> 1, stability |-> 0, performance |-> 0, availability |-> 0]}
MCDefaultWeights == [reliability |-> 35, stability |-> 25, performance |-> 20, availability |-> 20]

\* Three priorities and up to seven items: a heap of three levels.
VARIABLES heap, sequenceCounter, dequeued
queueVars == <<heap, sequenceCounter, dequeued>>
Q == INSTANCE PriorityQueue WITH Ranks <- {0, 1, 2}, MaxSize <- 6, MaxItems <- 7, served <- dequeued

mcVars == <<servicesVars, queueVars>>
MCInit == ServicesInit /\ Q!Init
MCNext == ServicesNext /\ IF focus = "elsewhere" THEN Q!Next ELSE UNCHANGED queueVars
MCSpec == MCInit /\ [][MCNext]_mcVars

\* The bus's heap serves what the queue's promise allows.
KeepsPromise == Q!KeepsPromise
=============================================================================
