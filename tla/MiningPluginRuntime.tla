-------------------------- MODULE MiningPluginRuntime --------------------------
(***************************************************************************)
(* The Mining Plugin Runtime (core/mining_plugin_runtime/src), composed    *)
(* with the authority that its certification gate asks: instances of       *)
(* plugins are loaded, driven through their entrypoints and unloaded.      *)
(*                                                                         *)
(* Every operation awaits an entrypoint, or the gate, before it records    *)
(* the stage.  An instance is an object, which calls hold on to, filed     *)
(* under a name.  Only an instance controls itself.  Processes are left to *)
(* the process manager, and the execution graph is left out.               *)
(***************************************************************************)
EXTENDS MiningPluginCertification

CONSTANTS
  Instances,     \* the objects there are to load
  Name, Plugin,  \* of each instance: what it is filed under and an instance of
  Dependencies,  \* Dependencies[p]: [plugin, compatible, required] that p declares
  WellFormed,         \* plugins whose manifest and interfaces are in order
  MaxCalls       \* bound of the model

VARIABLES
  filed,      \* PluginRuntimeRegistry: the instance filed under each name
  stages,     \* the stage of each instance, Nothing before it is loaded
  calls,      \* the calls under way
  hosted      \* instances that were given a runtime context

runtimeVars == <<filed, stages, calls, hosted>>
pluginVars  == <<certificationVars, runtimeVars>>

RuntimeStages ==
  {"discovered", "validated", "loaded", "initialized", "ready", "active", "paused", "stopping", "stopped", "unloaded",
   "failed"}
RuntimeTransitions ==
  {<<"discovered", "validated">>, <<"validated", "loaded">>, <<"loaded", "initialized">>, <<"initialized", "ready">>,
   <<"ready", "active">>, <<"active", "paused">>, <<"active", "stopping">>, <<"paused", "active">>,
   <<"paused", "stopping">>, <<"stopping", "stopped">>, <<"stopped", "unloaded">>}
  \cup ((RuntimeStages \ {"unloaded", "failed"}) \X {"failed"})

MiningPluginRuntimeAssumption == Nothing \notin Instances /\ Nothing \notin RuntimeStages

Init ==
  /\ CertificationInit
  /\ filed = [n \in {Name[i] : i \in Instances} |-> Nothing]
  /\ stages = [i \in Instances |-> Nothing]
  /\ calls = {} /\ hosted = {}

----------------------------------------------------------------------------
Allowed(i, to) == <<stages[i], to>> \in RuntimeTransitions
FailedStage(i) == IF Allowed(i, "failed") THEN "failed" ELSE stages[i]
Enters(i, stage) == stages' = [stages EXCEPT ![i] = stage]
Begins(i, at) ==
  LET free == (1..MaxCalls) \ {c.id : c \in calls}
  IN  /\ free # {}
      /\ calls' = calls \cup {[id |-> Min(free), of |-> i, at |-> at]}
Ends(c) == calls' = calls \ {c}
Control(i) == filed[Name[i]] = i
Uncertified == UNCHANGED certificationVars

\* validateDeclaredDependencies(), against whatever is filed, failed or not: two
\* instances of one plugin are in one version.
Available(p) == {q \in Plugins : \E n \in DOMAIN filed : filed[n] # Nothing /\ Plugin[filed[n]] = q}
DependenciesHold(p) ==
  \A d \in Dependencies[p] : IF d.plugin \in Available(p) THEN d.compatible ELSE ~d.required

\* load(), to the certification gate.
Load(i) ==
  /\ stages[i] = Nothing /\ filed[Name[i]] = Nothing
  /\ filed' = [filed EXCEPT ![Name[i]] = i]
  /\ IF Plugin[i] \in WellFormed /\ DependenciesHold(Plugin[i])
     THEN Enters(i, "discovered") /\ Begins(i, "gate")
     ELSE Enters(i, "failed") /\ UNCHANGED calls
  /\ UNCHANGED hosted /\ Uncertified
\* The gate's answer, by the certification as it is when asked.
Gated(c) ==
  /\ c.at = "gate" /\ Ends(c)
  /\ IF CertificationStatus(Plugin[c.of], TRUE) /\ Allowed(c.of, "validated")
     THEN Enters(c.of, "loaded") /\ hosted' = hosted \cup {c.of}
     ELSE Enters(c.of, FailedStage(c.of)) /\ UNCHANGED hosted
  /\ UNCHANGED filed /\ Uncertified
GateThrows(c) ==
  /\ c.at = "gate" /\ Ends(c) /\ Enters(c.of, FailedStage(c.of))
  /\ UNCHANGED <<filed, hosted>> /\ Uncertified

\* initialize(), start(), pause(), resume() and unload() call the entrypoint first,
\* which needs the context that load() makes.
Invoke(i, at) ==
  /\ Control(i)
  /\ IF i \in hosted THEN Begins(i, at) /\ UNCHANGED stages ELSE Enters(i, FailedStage(i)) /\ UNCHANGED calls
  /\ UNCHANGED <<filed, hosted>> /\ Uncertified
Initialize(i) == Invoke(i, "initialize")
Start(i) == Invoke(i, "start")
Pause(i) == Invoke(i, "pause")
Resume(i) == Invoke(i, "resume")
Unload(i) == Invoke(i, "unload")
\* stop() is Stopping before, and throws when that is not allowed.
Stop(i) ==
  /\ Control(i) /\ Allowed(i, "stopping")
  /\ Enters(i, "stopping") /\ Begins(i, "stop")
  /\ UNCHANGED <<filed, hosted>> /\ Uncertified

Target == [initialize |-> "initialized", start |-> "active", pause |-> "paused", resume |-> "active",
           stop |-> "stopped", unload |-> "unloaded"]
\* Mutant: the instance is unfiled whether or not it could be unloaded.
MutUnfiles(c) == c.at = "unload"
Unfiles(c) == c.at = "unload" /\ Allowed(c.of, "unloaded")
Invoked(c) ==
  /\ c.at \in DOMAIN Target
  /\ Enters(c.of, IF Allowed(c.of, Target[c.at]) THEN Target[c.at] ELSE FailedStage(c.of))
  /\ calls' = (calls \ {c}) \cup (IF c.at = "initialize" /\ Allowed(c.of, "initialized") THEN {[c EXCEPT !.at = "readying"]} ELSE {})
  /\ filed' = IF Unfiles(c) THEN [filed EXCEPT ![Name[c.of]] = Nothing] ELSE filed
  /\ UNCHANGED hosted /\ Uncertified
\* The rest of initialize() runs a moment later; it throws when it comes too late.
Readied(c) ==
  /\ c.at = "readying" /\ Ends(c)
  /\ IF Allowed(c.of, "ready") THEN Enters(c.of, "ready") ELSE UNCHANGED stages
  /\ UNCHANGED <<filed, hosted>> /\ Uncertified
EntrypointThrows(c) ==
  /\ c.at \in DOMAIN Target /\ Ends(c) /\ Enters(c.of, FailedStage(c.of))
  /\ UNCHANGED <<filed, hosted>> /\ Uncertified
Fail(i) ==
  /\ Control(i) /\ Enters(i, FailedStage(i))
  /\ UNCHANGED <<filed, calls, hosted>> /\ Uncertified

RuntimeNext ==
  \/ \E i \in Instances :
       \/ Load(i) \/ Initialize(i) \/ Start(i) \/ Pause(i) \/ Resume(i) \/ Stop(i) \/ Unload(i) \/ Fail(i)
  \/ \E c \in calls :
       \/ Gated(c) \/ GateThrows(c) \/ Invoked(c) \/ Readied(c) \/ EntrypointThrows(c)

Next == (CertificationNext /\ UNCHANGED runtimeVars) \/ RuntimeNext
Spec == Init /\ [][Next]_pluginVars

----------------------------------------------------------------------------
\* However calls of an instance overlap, none leaves it on the way; what was loaded
\* and is not unloaded is filed, so that it can be controlled.
NoneLeftBehind ==
  \A i \in Instances :
    LET runs(at) == \E c \in calls : c.of = i /\ c.at = at
    IN  /\ stages[i] = "discovered" => runs("gate")
        /\ stages[i] = "initialized" => runs("readying")
        /\ stages[i] = "stopping" => runs("stop")
        /\ stages[i] # "validated"
        /\ stages[i] \in RuntimeStages \ {"unloaded"} => Control(i)

\* What runs is certified, and what it depends on is there.
RunsCertified == \A i \in Instances : stages[i] = "active" => CertificationStatus(Plugin[i], TRUE)
DependenciesStay == \A i \in Instances : stages[i] = "active" => DependenciesHold(Plugin[i])
=============================================================================
