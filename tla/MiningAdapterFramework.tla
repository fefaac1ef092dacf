------------------------- MODULE MiningAdapterFramework -------------------------
(***************************************************************************)
(* The Mining Adapter Framework (core/mining_adapter_framework/src):       *)
(* adapters are registered, negotiated with and driven through a lifecycle.*)
(*                                                                         *)
(* Every operation calls the adapter and awaits it before it records the   *)
(* new stage, but for those that stop it; other operations of the same     *)
(* adapter go on meanwhile.  An adapter does its part when called and may  *)
(* throw.  Events, secrets and the normalised errors and statistics are    *)
(* left out.                                                               *)
(***************************************************************************)
EXTENDS Naturals, FiniteSetsExt

CONSTANTS
  Ids,          \* the names the adapters give themselves
  Adapters,     \* the objects registered, some of which may share a name
  Id, Offers, Needs, Minimum,  \* of each adapter: what its manifest and capabilities state
  Translated,   \* adapters registered with a configuration translator
  Requests,     \* [asks, supplies, version]: what is negotiated for
  Nothing,
  MaxCalls      \* bound of the model

Subjects == {"operating-system", "hardware", "algorithm", "pool-protocol", "statistics", "control-operation"}
LifecycleStages ==
  {"discovered", "registered", "validated", "configured", "prepared", "started", "running", "stopping", "stopped",
   "retired", "failed", "rejected"}
CertificationStatuses ==
  {"uncertified", "experimental", "development", "qualified", "production", "mission-critical", "revoked"}
MiningAdapterAssumption ==
  /\ Id \in [Adapters -> Ids] /\ Minimum \in [Adapters -> Nat] /\ Translated \subseteq Adapters
  /\ \A r \in Requests : r.version \in Nat /\ DOMAIN r.asks = Subjects
  /\ Nothing \notin Adapters /\ Nothing \notin LifecycleStages /\ Nothing \notin CertificationStatuses

VARIABLES
  registry,      \* the adapter registered under each name
  stages,        \* the lifecycle stage of each name
  certification, \* the certification status of each name
  backend,       \* what each adapter does
  calls,         \* the calls under way
  incapable      \* names whose adapter threw when asked for its capabilities

adapterVars == <<registry, stages, certification, backend, calls, incapable>>

LifecycleTransitions ==
  {<<"discovered", "registered">>, <<"registered", "validated">>, <<"validated", "configured">>,
   <<"configured", "prepared">>, <<"prepared", "started">>, <<"started", "running">>, <<"started", "stopping">>,
   <<"running", "stopping">>, <<"stopping", "stopped">>, <<"stopped", "started">>, <<"stopped", "retired">>}
  \cup ({"failed"} \X {"started", "stopped", "retired"})
  \cup ({"discovered", "registered", "validated", "configured", "prepared"} \X {"rejected"})
  \cup ((LifecycleStages \ {"retired", "failed", "rejected"}) \X {"failed"})
CertificationTransitions ==
  {<<"uncertified", "experimental">>, <<"experimental", "development">>, <<"development", "qualified">>,
   <<"qualified", "production">>, <<"production", "mission-critical">>}
  \cup ((CertificationStatuses \ {"revoked"}) \X {"revoked"})

Init ==
  /\ registry = [i \in Ids |-> Nothing] /\ stages = [i \in Ids |-> Nothing]
  /\ certification = [i \in Ids |-> Nothing]
  /\ backend = [a \in Adapters |-> "idle"]
  /\ calls = {} /\ incapable = {}

----------------------------------------------------------------------------
Registered(i) == registry[i] # Nothing
Allowed(i, to) == <<stages[i], to>> \in LifecycleTransitions
\* Mutant: a failure leaves the stage.
MutFailedStage(i) == stages[i]
FailedStage(i) == IF Allowed(i, "failed") THEN "failed" ELSE stages[i]

Goes(c, at) == calls' = (calls \ {c}) \cup {[c EXCEPT !.at = at]}
Ends(c) == calls' = calls \ {c}
Enters(i, stage) == stages' = [stages EXCEPT ![i] = stage]

\* A call begins: the adapter is doing what it was asked for.
Begins(a, at, doing) ==
  LET free == (1..MaxCalls) \ {c.id : c \in calls}
  IN  /\ free # {}
      /\ calls' = calls \cup {[id |-> Min(free), adapter |-> a, at |-> at]}
      /\ backend' = [backend EXCEPT ![a] = doing]
Quietly == UNCHANGED <<registry, certification, incapable>>

----------------------------------------------------------------------------
\* registerAdapter()
Register(a) == Begins(a, "identifying", backend[a]) /\ UNCHANGED stages /\ Quietly
Identified(c) ==
  LET i == Id[c.adapter]
  IN  /\ c.at = "identifying"
      /\ IF Registered(i) \/ stages[i] # Nothing THEN Ends(c) /\ UNCHANGED stages
         ELSE Goes(c, "describing") /\ Enters(i, "discovered")
      /\ UNCHANGED backend /\ Quietly
Described(c) ==
  LET i == Id[c.adapter]
  IN  /\ c.at = "describing" /\ Ends(c)
      /\ registry' = [registry EXCEPT ![i] = c.adapter]
      /\ \E status \in CertificationStatuses : certification' = [certification EXCEPT ![i] = status]
      /\ Enters(i, "registered")
      /\ UNCHANGED <<backend, incapable>>
\* identify() or capabilities() throws, which nothing catches.
Unanswered(c) ==
  /\ c.at \in {"identifying", "describing"} /\ Ends(c)
  /\ incapable' = IF c.at = "describing" THEN incapable \cup {Id[c.adapter]} ELSE incapable
  /\ UNCHANGED <<registry, stages, certification, backend>>

CertifyAdapter(i, status) ==
  /\ Registered(i) /\ <<certification[i], status>> \in CertificationTransitions
  /\ certification' = [certification EXCEPT ![i] = status]
  /\ UNCHANGED <<registry, stages, backend, calls, incapable>>

\* CapabilityNegotiationEngine.negotiate()
Negotiated(a, r) ==
  /\ \A subject \in Subjects : r.asks[subject] \subseteq Offers[a][subject]
  /\ Needs[a] \subseteq r.supplies
  /\ r.version >= Minimum[a]
Validate(i, r) ==
  /\ Registered(i)
  /\ IF Negotiated(registry[i], r)
     THEN Begins(registry[i], "validating", backend[registry[i]]) /\ UNCHANGED stages
     ELSE /\ Allowed(i, "rejected") /\ Enters(i, "rejected") /\ UNCHANGED <<calls, backend>>
  /\ Quietly

----------------------------------------------------------------------------
\* The operations that call the adapter first and enter the next stage after.
Drives(i, at, doing) ==
  /\ Registered(i) /\ Begins(registry[i], at, doing)
  /\ UNCHANGED stages /\ Quietly
Fails(i) == Enters(i, FailedStage(i)) /\ UNCHANGED <<calls, backend>> /\ Quietly

Configure(i) ==
  /\ Registered(i)
  /\ IF registry[i] \in Translated THEN Drives(i, "configuring", backend[registry[i]]) ELSE Fails(i)
Prepare(i) == Drives(i, "preparing", backend[registry[i]])
Start(i) == Drives(i, "starting", "running")
Cleanup(i) == Drives(i, "cleaning", "idle")
CollectStatistics(i) == Drives(i, "measuring", backend[registry[i]])
PauseOrResume(i) ==
  /\ Registered(i) /\ backend[registry[i]] \in {"running", "paused"}
  /\ backend' = [backend EXCEPT ![registry[i]] = IF @ = "running" THEN "paused" ELSE "running"]
  /\ UNCHANGED <<stages, calls>> /\ Quietly

\* Those that leave the running stage before they call it.
Stop(i) ==
  /\ Registered(i)
  /\ IF Allowed(i, "stopping")
     THEN Enters(i, "stopping") /\ Begins(registry[i], "stopping", "idle") /\ Quietly
     ELSE Fails(i)
Restart(i) ==
  /\ Registered(i)
  /\ Enters(i, IF stages[i] \in {"running", "started", "stopping"} THEN "stopped" ELSE stages[i])
  /\ Begins(registry[i], "restarting", "running") /\ Quietly
Recover(i) == stages[i] = "failed" /\ Restart(i)

\* The stage each call enters when the adapter has answered; a start goes on to run.
Entered == [validating |-> "validated", configuring |-> "configured", preparing |-> "prepared", starting |-> "started",
            stopping |-> "stopped", restarting |-> "started", cleaning |-> "retired"]
Answered(c) ==
  LET i == Id[c.adapter]
  IN  /\ c.at \in DOMAIN Entered /\ Ends(c)
      /\ LET next == Entered[c.at]
         IN  Enters(i, IF ~Allowed(i, next) THEN FailedStage(i) ELSE IF next = "started" THEN "running" ELSE next)
      /\ UNCHANGED backend /\ Quietly
Invalid(c) ==
  LET i == Id[c.adapter]
  IN  /\ c.at = "validating" /\ Ends(c)
      /\ Enters(i, IF Allowed(i, "rejected") THEN "rejected" ELSE FailedStage(i))
      /\ UNCHANGED backend /\ Quietly
Measured(c) == c.at = "measuring" /\ Ends(c) /\ UNCHANGED <<stages, backend>> /\ Quietly
\* The adapter throws.
Throws(c) ==
  /\ c.at \in DOMAIN Entered \cup {"measuring"} /\ Ends(c)
  /\ Enters(Id[c.adapter], FailedStage(Id[c.adapter]))
  /\ UNCHANGED backend /\ Quietly

Next ==
  \/ \E a \in Adapters : Register(a)
  \/ \E i \in Ids :
       \/ Configure(i) \/ Prepare(i) \/ Start(i) \/ Cleanup(i) \/ CollectStatistics(i) \/ PauseOrResume(i)
       \/ Stop(i) \/ Restart(i) \/ Recover(i)
       \/ \E status \in CertificationStatuses : CertifyAdapter(i, status)
       \/ \E r \in Requests : Validate(i, r)
  \/ \E c \in calls :
       \/ Identified(c) \/ Described(c) \/ Unanswered(c) \/ Answered(c) \/ Invalid(c) \/ Measured(c) \/ Throws(c)

Spec == Init /\ [][Next]_adapterVars

----------------------------------------------------------------------------
\* However operations of an adapter overlap, none leaves it in a stage that only a
\* call would end; and of the registrations of one name one takes effect, wholly.
NoneLeftBehind ==
  \A i \in Ids :
    LET runs(at) == \E c \in calls : Id[c.adapter] = i /\ c.at = at
    IN  /\ stages[i] = "stopping" => runs("stopping")
        /\ stages[i] = "discovered" => runs("describing") \/ i \in incapable
        /\ stages[i] # "started"
        /\ Registered(i) <=> stages[i] \notin {Nothing, "discovered"}
        /\ Registered(i) <=> certification[i] # Nothing
        /\ Cardinality({c \in calls : Id[c.adapter] = i /\ c.at = "describing"}) <= 1

\* "The adapter cannot execute" once it was rejected, nor after it was retired.
RejectedNeverExecutes ==
  calls = {} => \A i \in Ids : stages[i] \in {"rejected", "retired"} => backend[registry[i]] # "running"
\* "Failed and Rejected are explicit terminal exception states."
FailedIsTerminal == [][\A i \in Ids : stages[i] = "failed" => stages'[i] = "failed"]_stages
=============================================================================
