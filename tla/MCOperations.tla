----------------------------- MODULE MCOperations -----------------------------
(* A small instance of the mining stack.  Three calls at once of one process,  *)
(* which is spawned and restarted at most twice; three sessions, one after     *)
(* another or at once, on one device; what is not a number or a set of names   *)
(* is defined here.                                                            *)
EXTENDS Operations, TLC

MCDomains == <<"database", "configuration">>

MCKey == [p \in Processes |-> "key"]

\* Two adapters of one name, one of which cannot be configured; one request suits them.
MCSupport == [s \in {"operating-system", "hardware", "algorithm", "pool-protocol", "statistics", "control-operation"} |->
                {"supported"}]
MCId == [a \in Adapters |-> "miner"]
MCOffers == [a \in Adapters |-> MCSupport]
MCNeeds == [a \in Adapters |-> {"cpu"}]
MCMinimum == [a \in Adapters |-> 1]
MCNegotiations == [asks : {MCSupport}, supplies : SUBSET {"cpu"}, version : {1}]

\* Two instances of a plugin under one name, and one of the plugin that they depend on;
\* a test may go well, or pass and block, or fail.
MCObservations == {[passed |-> TRUE, degraded |-> FALSE, score |-> 95, blocked |-> FALSE, critical |-> TRUE],
                   [passed |-> TRUE, degraded |-> TRUE, score |-> 85, blocked |-> TRUE, critical |-> FALSE],
                   [passed |-> FALSE, degraded |-> FALSE, score |-> 60, blocked |-> FALSE, critical |-> FALSE]}
MCName == <<"n", "n", "m">>
MCPlugin == <<"p", "p", "q">>
MCDependencies == [p |-> {[plugin |-> "q", compatible |-> TRUE, required |-> TRUE]}, q |-> {}]

\* Two workloads that may depend on one another or on themselves, hot and busy in turn.
MCSamples == {[celsius |-> 80, busy |-> 95, throughput |-> 0, idle |-> TRUE]}
MCAbsent == -1

\* A location and the one of its archives, released and allocated again.
MCArchiveOf == [l \in {"logs"} |-> "archives"]
MCPolicies == {[ages |-> TRUE, keep |-> 1]}

\* Two requests of equal standing and one that outranks them, of two owners.
MCResourceOf == [r \in Requests |-> "gpu"]
MCOwnerOf == <<"alice", "bob", "alice">>
MCClaim == [r \in Requests |-> [priority |-> 0, exclusive |-> r = 3, reserved |-> r = 3, emergency |-> r = 3]]
=============================================================================
