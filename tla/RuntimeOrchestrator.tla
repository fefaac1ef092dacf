------------------------- MODULE RuntimeOrchestrator -------------------------
(***************************************************************************)
(* The Institutional Runtime Bootstrap & Lifecycle Manager                 *)
(* (core/runtime_bootstrap/src): boots the registered components in        *)
(* dependency order, certifies them, shuts them down, restarts and         *)
(* recovers them.                                                          *)
(*                                                                         *)
(* Its operations are async calls that suspend at every publish of a       *)
(* runtime event and at every create, initialize and shutdown of a         *)
(* component; an action is what a call does between two suspensions.  The  *)
(* runtime's events are sync, so the bus refuses to publish one while one  *)
(* of the same name is on its dispatch stack, and the call that publishes  *)
(* rejects where it stands.                                                *)
(*                                                                         *)
(* Durations, metrics, messages and the history of operations are left     *)
(* out; degraded and unknown health count as not faulted.                  *)
(***************************************************************************)
EXTENDS Naturals, Sequences, FiniteSets, SequencesExt

CONSTANTS
  Components,      \* names of components
  EventBus,        \* the component the constructor registers
  Dependencies,    \* Dependencies[c]: the sets c may declare as its dependencies
  Callers,         \* how many calls may be under way at once
  Operations,      \* the operations they make
  Overlapping,     \* those they make while others are under way
  Partial,         \* the values of allowPartialStartup they pass to boot
  InOrder          \* whether components are registered after their dependencies

OperationNames == {"boot", "requestShutdown", "restartPlatform", "restartComponent",
                   "requestMaintenance", "pause", "resume", "recover"}
None == "none"

ASSUME RuntimeAssumption ==
  /\ Dependencies \in [Components -> SUBSET SUBSET Components]
  /\ Overlapping \subseteq Operations /\ Operations \subseteq OperationNames
  /\ EventBus \in Components
  /\ Partial \subseteq BOOLEAN /\ InOrder \in BOOLEAN
  /\ None \notin Components

VARIABLES
  definitions,     \* DependencyGraph: the registered components, in order
  depends,         \* the dependencies each of them declared
  state,           \* the runtime's lifecycle state
  instances,       \* what became of the component behind each entry of instances
  lifecycle, ready, faulted, eligible,     \* the Governance Board's records
  call,            \* the calls under way
  dispatchStack    \* the bus's stack of sync events being dispatched

graphVars == <<definitions, depends>>
boardVars == <<lifecycle, ready, faulted, eligible>>
vars == <<graphVars, state, instances, boardVars, call, dispatchStack>>

\* RUNTIME_STATE_TRANSITIONS
Successors(from) ==
  CASE from = "stopped"       -> {"booting"}
    [] from = "booting"       -> {"initializing", "faulted"}
    [] from = "initializing"  -> {"validating", "faulted"}
    [] from = "validating"    -> {"ready", "faulted"}
    [] from = "ready"         -> {"operational", "faulted"}
    [] from = "operational"   -> {"paused", "maintenance", "restarting", "shutting-down", "faulted"}
    [] from = "paused"        -> {"operational", "shutting-down", "faulted"}
    [] from = "maintenance"   -> {"operational", "shutting-down", "faulted"}
    [] from = "restarting"    -> {"booting", "faulted"}
    [] from = "shutting-down" -> {"stopped"}
    [] from = "recovering"    -> {"booting", "operational", "faulted"}
    [] from = "faulted"       -> {"recovering", "shutting-down"}
\* assertRuntimeTransition: staying where it is is always allowed.
Allowed(from, to) == from = to \/ to \in Successors(from)
\* ready and recovering are passed through without a suspension.
States == {"stopped", "booting", "initializing", "validating", "operational", "paused",
           "maintenance", "restarting", "shutting-down", "faulted"}

Events == {"BootstrapStarted", "InitializationStarted", "InitializationCompleted",
           "ReadinessVerified", "RuntimeCertified", "RuntimeOperational", "BootstrapCompleted",
           "RuntimeFaulted", "ShutdownRequested", "ShutdownCompleted", "RestartRequested",
           "RuntimePaused", "RuntimeResumed", "RuntimeRecovered"}
\* Where a call is suspended: publishing an event or in a component's hook.
Places == Events \cup {None, "create", "initialize", "shutdown"}

\* on: the component it works on; todo: those it has still to visit;
\* initialized: componentsInitialized; failed, unready: whether there are
\* initFailures and readinessFailures; settled: whether the event it publishes
\* has been dispatched
NoCall == [op |-> None, at |-> None, settled |-> FALSE, on |-> None, todo |-> <<>>, partial |-> FALSE,
           initialized |-> <<>>, failed |-> FALSE, unready |-> FALSE]

Registered == ToSet(definitions)
Has(c) == instances[c] # "none"

Init ==
  /\ definitions = <<EventBus>>
  /\ depends = [c \in Components |-> {}]
  /\ state = "stopped"
  /\ instances = [c \in Components |-> "none"]
  /\ lifecycle = [c \in Components |-> "unregistered"]
  /\ ready = [c \in Components |-> FALSE]
  /\ faulted = [c \in Components |-> FALSE]
  /\ eligible = [c \in Components |-> FALSE]
  /\ call = [k \in Callers |-> NoCall]
  /\ dispatchStack = <<>>

RegisterComponent(c, deps) ==
  /\ InOrder => deps \subseteq Registered
  /\ c \notin Registered                         \* else DuplicateComponentError
  /\ definitions' = Append(definitions, c)
  /\ depends' = [depends EXCEPT ![c] = deps]
  /\ UNCHANGED <<state, instances, boardVars, call, dispatchStack>>

----------------------------------------------------------------------------
(* DependencyGraph                                                         *)

\* Those of S, in registration order.
Listed(S) ==
  LET listed[i \in 0..Len(definitions)] ==
        IF i = 0 THEN <<>>
        ELSE IF definitions[i] \in S THEN Append(listed[i - 1], definitions[i]) ELSE listed[i - 1]
  IN  listed[Len(definitions)]

\* A round of Kahn's algorithm: the first of those ready is ordered, and the
\* dependents that waited only for it become ready, in registration order.
KahnRound(prev) ==
  IF prev.ready = <<>> THEN prev
  ELSE LET name  == Head(prev.ready)
           order == Append(prev.order, name)
           freed == {d \in Registered : name \in depends[d] /\ depends[d] \subseteq ToSet(order)}
       IN  [ready |-> Tail(prev.ready) \o Listed(freed), order |-> order]

StartupOrder ==
  LET round[k \in 0..Len(definitions)] ==
        IF k = 0 THEN [ready |-> Listed({d \in Registered : depends[d] = {}}), order |-> <<>>]
        ELSE KahnRound(round[k - 1])
  IN  round[Len(definitions)].order

\* startupOrder() throws MissingDependencyError or CircularDependencyError.
Ordered == /\ \A c \in Registered : depends[c] \subseteq Registered
           /\ Len(StartupOrder) = Len(definitions)

\* Mutant: shut down in the order of the start.
MutShutdownOrder == StartupOrder
ShutdownOrder == Reverse(StartupOrder)

----------------------------------------------------------------------------
(* What a call does                                                        *)

Go(k, fields) == call' = [call EXCEPT ![k] = fields] /\ UNCHANGED dispatchStack
Reject(k) == Go(k, NoCall)

\* publishRuntimeEvent: the call suspends, or rejects because an event of that
\* name is on the dispatch stack.
Publish(k, fields, e) ==
  IF e \in ToSet(dispatchStack) THEN Reject(k)
  ELSE /\ call' = [call EXCEPT ![k] = [fields EXCEPT !.at = e, !.settled = FALSE]]
       /\ dispatchStack' = Append(dispatchStack, e)

\* The dispatch ends and pops the top of the stack, whosever event that is; the
\* call goes on in a later microtask.
Dispatched(k) ==
  /\ call[k].at \in Events /\ ~call[k].settled
  /\ call' = [call EXCEPT ![k].settled = TRUE]
  /\ dispatchStack' = Front(dispatchStack)
  /\ UNCHANGED <<graphVars, state, instances, boardVars>>

Suspended(k, e) == call[k].at = e /\ (e \in Events => call[k].settled)
Boots(k) == call[k].op \in {"boot", "restartPlatform"}

\* The callers' own discipline: of the operations that are not Overlapping, one
\* is under way at a time.
May(k, op) ==
  /\ op \in Operations
  /\ call[k] = NoCall
  /\ op \in Overlapping \/ \A j \in Callers : call[j].op \in Overlapping \cup {None}

\* A call that makes the runtime `to` and publishes e.
Enter(k, op, to, e) ==
  /\ May(k, op)
  /\ Allowed(state, to)
  /\ state' = to
  /\ \E p \in (IF op = "boot" THEN Partial ELSE {FALSE}) :
       Publish(k, [NoCall EXCEPT !.op = op, !.partial = p], e)
  /\ UNCHANGED <<graphVars, instances, boardVars>>

Boot(k) == Enter(k, "boot", "booting", "BootstrapStarted")
RequestShutdown(k) == Enter(k, "requestShutdown", "shutting-down", "ShutdownRequested")
Pause(k) == Enter(k, "pause", "paused", "RuntimePaused")
Resume(k) == Enter(k, "resume", "operational", "RuntimeResumed")

RequestMaintenance ==
  /\ "requestMaintenance" \in Operations
  /\ Allowed(state, "maintenance")
  /\ state' = "maintenance"
  /\ UNCHANGED <<graphVars, instances, boardVars, call, dispatchStack>>

\* RestartRequested is published before anything is asserted.
RequestRestart(k, op) ==
  /\ May(k, op)
  /\ \E c \in (IF op = "restartComponent" THEN Registered ELSE {None}),
        p \in (IF op = "restartComponent" THEN {FALSE} ELSE Partial) :
       Publish(k, [NoCall EXCEPT !.op = op, !.on = c, !.partial = p], "RestartRequested")
  /\ UNCHANGED <<graphVars, state, instances, boardVars>>

\* The call goes on after its last publish, and returns or throws.
Finish(k) ==
  /\ \E e \in {"BootstrapCompleted", "RuntimeFaulted", "ShutdownCompleted",
               "RuntimePaused", "RuntimeResumed", "RuntimeRecovered"} : Suspended(k, e)
  /\ Reject(k)
  /\ UNCHANGED <<graphVars, state, instances, boardVars>>

----------------------------------------------------------------------------
(* runBootSequence                                                         *)

StartInitialization(k) ==
  /\ Suspended(k, "BootstrapStarted")
  /\ IF Allowed(state, "initializing")
     THEN state' = "initializing" /\ Publish(k, call[k], "InitializationStarted")
     ELSE UNCHANGED state /\ Reject(k)
  /\ UNCHANGED <<graphVars, instances, boardVars>>

\* Mutant: a dependency that was created but not initialized will do.
MutSatisfied(c, done) == \A d \in depends[c] : Has(d)
Satisfied(c, done) == depends[c] \subseteq ToSet(done)

\* On with the loop over the components: those blocked by a dependency that is
\* not initialized are failed with those in `bad`, and the next other one is
\* created; `good` has just been initialized.
InitializeNext(k, fields, bad, good) ==
  LET i       == SelectInSeq(fields.todo, LAMBDA c : Satisfied(c, fields.initialized))
      blocked == ToSet(IF i = 0 THEN fields.todo ELSE SubSeq(fields.todo, 1, i - 1))
      failing == bad \cup blocked
      next    == IF i = 0 THEN None ELSE fields.todo[i]
      after   == [fields EXCEPT !.on = next, !.failed = @ \/ failing # {},
                                !.todo = IF i = 0 THEN <<>> ELSE SubSeq(@, i + 1, Len(@))]
  IN  /\ lifecycle' = [c \in Components |-> IF c \in failing THEN "failed"
                                            ELSE IF c = next THEN "created"
                                            ELSE IF c \in good THEN "initialized" ELSE lifecycle[c]]
      /\ eligible' = [c \in Components |-> eligible[c] /\ c \notin failing]
      /\ IF i = 0 THEN Publish(k, after, "InitializationCompleted")
         ELSE Go(k, [after EXCEPT !.at = "create"])
      /\ UNCHANGED <<ready, faulted>>

\* When startupOrder() throws the runtime is left initializing.
InitializeFirst(k) ==
  /\ Suspended(k, "InitializationStarted")
  /\ IF Ordered THEN InitializeNext(k, [call[k] EXCEPT !.todo = StartupOrder], {}, {})
     ELSE Reject(k) /\ UNCHANGED boardVars
  /\ UNCHANGED <<graphVars, state, instances>>

\* create() returns an instance.
Create(k) ==
  /\ Suspended(k, "create")
  /\ instances' = [instances EXCEPT ![call[k].on] = "created"]
  /\ lifecycle' = IF Boots(k) THEN [lifecycle EXCEPT ![call[k].on] = "initializing"] ELSE lifecycle
  /\ Go(k, [call[k] EXCEPT !.at = "initialize"])
  /\ UNCHANGED <<graphVars, state, ready, faulted, eligible>>

\* create() or initialize() throws; an instance of the time before stays.
InitializeFails(k) ==
  /\ Boots(k)
  /\ call[k].at \in {"create", "initialize"}
  /\ InitializeNext(k, call[k], {call[k].on}, {})
  /\ UNCHANGED <<graphVars, state, instances>>

\* initialize() of the instance this call created, which another call may have
\* dropped or shut down meanwhile, succeeds.
Initialized(k) ==
  [instances EXCEPT ![call[k].on] = IF @ = "created" THEN "running" ELSE @]

Initialize(k) ==
  /\ Boots(k)
  /\ Suspended(k, "initialize")
  /\ instances' = Initialized(k)
  /\ InitializeNext(k, [call[k] EXCEPT !.initialized = Append(@, call[k].on)], {}, {call[k].on})
  /\ UNCHANGED <<graphVars, state>>

\* The boot fails: strict mode, or certification refused.
Fault(k) ==
  IF Allowed(state, "faulted")
  THEN state' = "faulted" /\ Publish(k, call[k], "RuntimeFaulted")
  ELSE UNCHANGED state /\ Reject(k)

\* Mutant: strict mode tolerates failed components.
MutTolerates(k, failures) == TRUE
Tolerates(k, failures) == ~failures \/ call[k].partial

InitializationFails(k) ==
  /\ Suspended(k, "InitializationCompleted")
  /\ ~Tolerates(k, call[k].failed)
  /\ Fault(k)
  /\ UNCHANGED <<graphVars, instances, boardVars>>

\* The readiness pass; a check of an instance that is gone may throw.
Validate(k) ==
  /\ Suspended(k, "InitializationCompleted")
  /\ Tolerates(k, call[k].failed)
  /\ IF ~Allowed(state, "validating") THEN Reject(k) /\ UNCHANGED <<state, ready, faulted>>
     ELSE LET done == call[k].initialized
              gone == SelectInSeq(done, LAMBDA c : ~Has(c))
          IN  /\ state' = "validating"
              /\ \E stop \in (IF gone = 0 THEN {0} ELSE {0, gone}) :
                   LET checked == ToSet(IF stop = 0 THEN done ELSE SubSeq(done, 1, stop - 1))
                   IN  \E sick, ill \in SUBSET checked :
                         /\ ready' = [c \in Components |-> IF c \in checked THEN c \notin sick ELSE ready[c]]
                         /\ faulted' = [c \in Components |-> IF c \in checked THEN c \in ill ELSE faulted[c]]
                         /\ IF stop # 0 THEN Reject(k)
                            ELSE Publish(k, [call[k] EXCEPT !.unready = sick # {}], "ReadinessVerified")
  /\ UNCHANGED <<graphVars, instances, lifecycle, eligible>>

ReadinessFails(k) ==
  /\ Suspended(k, "ReadinessVerified")
  /\ ~Tolerates(k, call[k].unready)
  /\ Fault(k)
  /\ UNCHANGED <<graphVars, instances, boardVars>>

\* certifyRuntime: whether a component blocks certification.
Blocking(r, f) == ~r \/ f

\* Certifies those of the initialized components the board calls ready.
Certify(k) ==
  /\ Suspended(k, "ReadinessVerified")
  /\ Tolerates(k, call[k].unready)
  /\ LET pool == {c \in ToSet(call[k].initialized) : ready[c]}
         blocked == {c \in pool : Blocking(ready[c], faulted[c])}
     IN  /\ eligible' = [c \in Components |-> IF c \in pool THEN c \notin blocked ELSE eligible[c]]
         /\ IF blocked = {} THEN Publish(k, call[k], "RuntimeCertified") /\ UNCHANGED state
            ELSE Fault(k)
  /\ UNCHANGED <<graphVars, instances, lifecycle, ready, faulted>>

\* Mutant: the second transition is forgotten.
MutOperate(k) ==
  /\ Suspended(k, "RuntimeCertified") /\ Allowed(state, "ready")
  /\ state' = "ready" /\ Publish(k, call[k], "RuntimeOperational")
  /\ UNCHANGED <<graphVars, instances, boardVars>>
\* Through ready to operational.
Operate(k) ==
  /\ Suspended(k, "RuntimeCertified")
  /\ IF Allowed(state, "ready") THEN state' = "operational" /\ Publish(k, call[k], "RuntimeOperational")
     ELSE UNCHANGED state /\ Reject(k)
  /\ UNCHANGED <<graphVars, instances, boardVars>>

Complete(k) ==
  /\ Suspended(k, "RuntimeOperational")
  /\ Publish(k, call[k], "BootstrapCompleted")
  /\ UNCHANGED <<graphVars, state, instances, boardVars>>

----------------------------------------------------------------------------
(* requestShutdown, requestRestart, recover                                *)

\* On with the loop over shutdownOrder(): the next component that has an
\* instance is shut down.  After the last one the runtime is stopped, or, in a
\* restart, every instance is dropped and the boot sequence begins.
ShutdownNext(k, from, todo) ==
  LET i     == SelectInSeq(todo, Has)
      ends  == call[k].op = "requestShutdown"
      after == IF ends THEN "stopped" ELSE "booting"
  IN  IF i # 0
      THEN /\ instances' = [instances EXCEPT ![todo[i]] = "down"]
           /\ Go(k, [call[k] EXCEPT !.at = "shutdown", !.on = todo[i], !.todo = SubSeq(todo, i + 1, Len(todo))])
           /\ state' = from
      ELSE /\ instances' = IF ends THEN instances ELSE [c \in Components |-> "none"]
           /\ IF Allowed(from, after)
              THEN state' = after /\ Publish(k, [call[k] EXCEPT !.on = None, !.todo = <<>>],
                                             IF ends THEN "ShutdownCompleted" ELSE "BootstrapStarted")
              ELSE state' = from /\ Reject(k)

\* When shutdownOrder() throws the runtime is left as it is.
ShutdownFirst(k, from) ==
  /\ IF Ordered THEN ShutdownNext(k, from, ShutdownOrder)
     ELSE state' = from /\ UNCHANGED instances /\ Reject(k)
  /\ UNCHANGED <<graphVars, boardVars>>

Shutdown(k) ==
  /\ Suspended(k, "ShutdownRequested")
  /\ ShutdownFirst(k, state)

\* Mutant: the first shutdown() that throws ends the call.
MutShutdownReturns(k) ==
  /\ call[k].op = "requestShutdown" /\ Suspended(k, "shutdown")
  /\ lifecycle' = [lifecycle EXCEPT ![call[k].on] = "failed"]
  /\ Reject(k)
  /\ UNCHANGED <<graphVars, state, instances, ready, faulted, eligible>>
\* shutdown() of a component returned, or threw: noted on the board, and no more.
ShutdownReturns(k) ==
  /\ call[k].op = "requestShutdown" /\ Suspended(k, "shutdown")
  /\ \/ /\ lifecycle' = [lifecycle EXCEPT ![call[k].on] = "shutdown"]
        /\ UNCHANGED eligible
     \/ /\ lifecycle' = [lifecycle EXCEPT ![call[k].on] = "failed"]
        /\ eligible' = [eligible EXCEPT ![call[k].on] = FALSE]
  /\ ShutdownNext(k, state, call[k].todo)
  /\ UNCHANGED <<graphVars, ready, faulted>>

Restart(k) ==
  /\ call[k].op = "restartPlatform" /\ Suspended(k, "RestartRequested")
  /\ Allowed(state, "restarting")
  /\ ShutdownFirst(k, "restarting")

RestartRefused(k) ==
  /\ call[k].op = "restartPlatform" /\ Suspended(k, "RestartRequested")
  /\ ~Allowed(state, "restarting")
  /\ Reject(k)
  /\ UNCHANGED <<graphVars, state, instances, boardVars>>

\* Whether shutdown() returned or threw.
RestartReturns(k) ==
  /\ call[k].op = "restartPlatform" /\ Suspended(k, "shutdown")
  /\ ShutdownNext(k, state, call[k].todo)
  /\ UNCHANGED <<graphVars, boardVars>>

\* restartComponent: no assertion on the state and none on the dependents.
ComponentShutdown(k) ==
  /\ call[k].op = "restartComponent" /\ Suspended(k, "RestartRequested")
  /\ instances' = [instances EXCEPT ![call[k].on] = IF @ = "none" THEN @ ELSE "down"]
  /\ Go(k, [call[k] EXCEPT !.at = IF Has(call[k].on) THEN "shutdown" ELSE "create"])
  /\ UNCHANGED <<graphVars, state, boardVars>>

ComponentReturns(k) ==
  /\ call[k].op = "restartComponent" /\ Suspended(k, "shutdown")
  /\ Go(k, [call[k] EXCEPT !.at = "create"])
  /\ UNCHANGED <<graphVars, state, instances, boardVars>>

\* create() or initialize() throws: the board does not hear of it.
ComponentThrows(k) ==
  /\ call[k].op = "restartComponent" /\ call[k].at \in {"create", "initialize"}
  /\ Reject(k)
  /\ UNCHANGED <<graphVars, state, instances, boardVars>>

ComponentRestarted(k) ==
  /\ call[k].op = "restartComponent" /\ Suspended(k, "initialize")
  /\ instances' = Initialized(k)
  /\ \E r, f \in BOOLEAN :
       /\ ready' = [ready EXCEPT ![call[k].on] = r]
       /\ faulted' = [faulted EXCEPT ![call[k].on] = f]
       /\ lifecycle' = [lifecycle EXCEPT ![call[k].on] = IF r THEN "initialized" ELSE "failed"]
       /\ eligible' = [eligible EXCEPT ![call[k].on] = @ /\ r]
  /\ Reject(k)
  /\ UNCHANGED <<graphVars, state>>

\* recover(): checks and certifies the components that have an instance.
Recover(k) ==
  /\ May(k, "recover")
  /\ Allowed(state, "recovering")
  /\ LET held == {c \in Registered : Has(c)}
     IN  \E sick, ill \in SUBSET held :
           LET blocked == {c \in held : Blocking(c \notin sick, c \in ill)}
           IN  /\ ready' = [c \in Components |-> IF c \in held THEN c \notin sick ELSE ready[c]]
               /\ faulted' = [c \in Components |-> IF c \in held THEN c \in ill ELSE faulted[c]]
               /\ eligible' = [c \in Components |-> IF c \in held THEN c \notin blocked ELSE eligible[c]]
               /\ state' = IF blocked = {} THEN "operational" ELSE "faulted"
               /\ Publish(k, [NoCall EXCEPT !.op = "recover"],
                          IF blocked = {} THEN "RuntimeRecovered" ELSE "RuntimeFaulted")
  /\ UNCHANGED <<graphVars, instances, lifecycle>>

----------------------------------------------------------------------------
Start(k) ==
  \/ Boot(k) \/ RequestShutdown(k) \/ Pause(k) \/ Resume(k) \/ Recover(k)
  \/ \E op \in {"restartPlatform", "restartComponent"} : RequestRestart(k, op)
Proceed(k) ==
  \/ Dispatched(k) \/ StartInitialization(k) \/ InitializeFirst(k) \/ Create(k) \/ InitializeFails(k) \/ Initialize(k)
  \/ InitializationFails(k) \/ Validate(k) \/ ReadinessFails(k) \/ Certify(k) \/ Operate(k)
  \/ Complete(k) \/ Shutdown(k) \/ ShutdownReturns(k) \/ Restart(k) \/ RestartRefused(k) \/ RestartReturns(k)
  \/ ComponentShutdown(k) \/ ComponentReturns(k) \/ ComponentThrows(k) \/ ComponentRestarted(k)
  \/ Finish(k)

Next ==
  \/ \E c \in Components : \E deps \in Dependencies[c] : RegisterComponent(c, deps)
  \/ RequestMaintenance
  \/ \E k \in Callers : Start(k) \/ Proceed(k)

Spec == Init /\ [][Next]_vars

----------------------------------------------------------------------------
(* Properties                                                              *)

\* Every variable has its type.
TypeOK ==
  /\ definitions \in Seq(Components) /\ depends \in [Components -> SUBSET Components]
  /\ state \in States
  /\ instances \in [Components -> {"none", "created", "running", "down"}]
  /\ lifecycle \in [Components -> {"unregistered", "created", "initializing", "initialized",
                                   "failed", "shutdown"}]
  /\ {ready, faulted, eligible} \subseteq [Components -> BOOLEAN]
  /\ call \in [Callers -> [op : OperationNames \cup {None}, at : Places, settled : BOOLEAN, on : Components \cup {None},
                           todo : Seq(Components), partial : BOOLEAN,
                           initialized : Seq(Components), failed : BOOLEAN, unready : BOOLEAN]]
  /\ dispatchStack \in Seq(Events)

Idle == \A k \in Callers : call[k] = NoCall

\* Whatever fails in a boot, a restart or a shutdown, and whatever rejects because
\* of an overlapping call, the runtime comes to rest in a state from which some
\* operation leads on.
NeverWedged == Idle => state \in {"stopped", "operational", "paused", "maintenance", "faulted"}

\* A boot initializes a component only while every component it depends on runs
\* (Law 4, deterministic startup).
DependenciesFirst ==
  [][\A k \in Callers : Boots(k) /\ Suspended(k, "initialize") /\ instances'[call[k].on] = "running" =>
       \A d \in depends[call[k].on] : instances[d] = "running"]_vars

\* A shutdown or a restart of the platform shuts a component down only after
\* every component that depends on it (dependencyGraph.ts, reverse dependency order).
DependentsFirst ==
  [][\A k \in Callers : call'[k].op # "restartComponent" /\ call'[k].at = "shutdown" /\ call'[k] # call[k] =>
       \A d \in Registered : call'[k].on \in depends[d] => instances[d] # "running"]_vars

\* A strict boot turns operational only when every component it found runs and
\* is ready and certified.
StrictBoot ==
  [][\A k \in Callers : Suspended(k, "RuntimeCertified") /\ ~call[k].partial /\ state' = "operational" =>
       /\ \A c \in Registered : lifecycle[c] # "failed"
       /\ \A c \in ToSet(call[k].initialized) : instances[c] = "running" /\ ready[c] /\ eligible[c]]_vars

\* "Strict mode (default) never allows the platform to reach Operational with a
\* failed component" (core/runtime_bootstrap/README.md).
StrictMeansWhole ==
  state = "operational" => \A c \in Registered : lifecycle[c] # "failed"

\* "operationalEligible requires certified + ready + not faulted, all three".
EligibleMeansFit == \A c \in Registered : eligible[c] => ready[c] /\ ~faulted[c]
=============================================================================
