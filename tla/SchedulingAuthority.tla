------------------------- MODULE SchedulingAuthority -------------------------
(***************************************************************************)
(* The Institutional Scheduling & Orchestration Authority                  *)
(* (core/scheduling_authority/src/SchedulingAuthority.ts).                 *)
(*                                                                         *)
(* tick(), notifyEvent() and triggerManually() are calls that suspend at   *)
(* every publish and while the handler runs; an action is what a call does *)
(* between two suspensions.  A call works on the schedule objects it read  *)
(* when it started and on the copies it derives from them, and writes them *)
(* back whole; pause(), resume(), cancel() and other calls happen between. *)
(*                                                                         *)
(* Times are abstracted to whether nextExecutionAt has come.  Conditional  *)
(* triggers behave as policy triggers and recommendations as events.       *)
(***************************************************************************)
EXTENDS Naturals, Sequences, FiniteSets

CONSTANTS
  Schedules,
  Callers,         \* how many calls may be under way at once
  Kind,            \* Kind[s]: trigger: "once" (at), "recurring", "policy" or "event"
  DependsOn,       \* DependsOn[s]: its dependencies
  MaxAttempts,     \* MaxAttempts[s]: of its retryPolicy; 0 if it has none
  Gated,           \* policy, resources, windows and runtime state may refuse
  TimesOut,        \* handlers may exceed timeoutMs
  MaxAbandoned,    \* bound of the model on the handlers of a schedule left running
  PublishFails     \* a publish may reject (queue overflow)

None == "none"

ASSUME SchedulingAssumption ==
  /\ Kind \in [Schedules -> {"once", "recurring", "policy", "event"}]
  /\ DependsOn \in [Schedules -> SUBSET Schedules]
  /\ MaxAttempts \in [Schedules -> Nat]
  /\ None \notin Schedules /\ IsFiniteSet(Callers)
  /\ MaxAbandoned \in Nat
  /\ {Gated, TimesOut, PublishFails} \subseteq BOOLEAN

VARIABLES
  registry,        \* schedules in the order they were registered
  status,          \* status of each schedule in the registry
  due,             \* whether nextExecutionAt is undefined, ahead or has come
  attemptCounts,   \* 0: no entry
  lastResult,      \* result of the last entry of the schedule's history
  lastExecuted,    \* result of the last entry that is not a skip
  live,            \* invocations of the schedule's handler still running
  call             \* the calls under way

scheduleVars == <<status, due>>
historyVars == <<lastResult, lastExecuted>>
vars == <<registry, scheduleVars, attemptCounts, historyVars, live, call>>

Statuses == {"absent", "eligible", "scheduled", "executing", "completed", "failed",
             "paused", "cancelled", "retired"}
Dues == {"never", "ahead", "come"}
Results == {None, "success", "failure", "skipped"}

\* Where a call is suspended, or "loop" between two schedules.
Places == {"loop", "skipping", "delaying", "triggered", "started", "running",
           "completed", "failed", "retrying"}

\* todo: those it has still to visit, in the order of the registry; on: the
\* schedule it works on; due: nextExecutionAt in its copy of that schedule
NoCall == [op |-> None, todo |-> {}, at |-> "loop", on |-> None, due |-> "never", attempt |-> 0]

Registered == {registry[k] : k \in DOMAIN registry}
IsTime(s) == Kind[s] \in {"once", "recurring"}

Init ==
  /\ registry = <<>>
  /\ status = [s \in Schedules |-> "absent"]
  /\ due = [s \in Schedules |-> "never"]
  /\ attemptCounts = [s \in Schedules |-> 0]
  /\ lastResult = [s \in Schedules |-> None]
  /\ lastExecuted = [s \in Schedules |-> None]
  /\ live = [s \in Schedules |-> 0]
  /\ call = [c \in Callers |-> NoCall]

----------------------------------------------------------------------------
(* registerSchedule, pause, resume, cancel                                 *)

\* created, validated and registered are passed before the schedule is visible
\* as eligible; a one-shot time already past is never due.
RegisterSchedule(s) ==
  /\ s \notin Registered
  /\ DependsOn[s] \subseteq Registered
  /\ registry' = Append(registry, s)
  /\ status' = [status EXCEPT ![s] = "eligible"]
  /\ due' \in {[due EXCEPT ![s] = d] :
                 d \in CASE Kind[s] = "once"      -> {"never", "ahead"}
                         [] Kind[s] = "recurring" -> {"ahead"}
                         [] OTHER                 -> {"never"}}
  /\ UNCHANGED <<attemptCounts, historyVars, live, call>>

\* The clock reaches nextExecutionAt.
TimeComes(s) ==
  /\ due[s] = "ahead"
  /\ due' = [due EXCEPT ![s] = "come"]
  /\ UNCHANGED <<registry, status, attemptCounts, historyVars, live, call>>

Pause(s) ==
  /\ status[s] \in {"eligible", "scheduled"}
  /\ status' = [status EXCEPT ![s] = "paused"]
  /\ UNCHANGED <<registry, due, attemptCounts, historyVars, live, call>>

\* nextExecutionAt is deliberately kept.
Resume(s) ==
  /\ status[s] = "paused"
  /\ status' = [status EXCEPT ![s] = "eligible"]
  /\ UNCHANGED <<registry, due, attemptCounts, historyVars, live, call>>

Cancel(s) ==
  /\ status[s] \in {"eligible", "scheduled", "paused"}
  /\ status' = [status EXCEPT ![s] = "cancelled"]
  /\ attemptCounts' = [attemptCounts EXCEPT ![s] = 0]
  /\ UNCHANGED <<registry, due, historyVars, live, call>>

----------------------------------------------------------------------------
(* Calls                                                                   *)

Step(c, fields) == call' = [call EXCEPT ![c] = fields]
\* The call goes on with the next schedule of its list.
Loop(c) == [NoCall EXCEPT !.op = call[c].op, !.todo = call[c].todo]

\* registry.update with the call's own copy of the schedule
Write(s, newStatus, newDue) ==
  /\ status' = [status EXCEPT ![s] = newStatus]
  /\ due' = [due EXCEPT ![s] = newDue]

Attempt(s) == IF attemptCounts[s] = 0 THEN 1 ELSE attemptCounts[s]

\* tick() and notifyEvent() iterate over the objects the registry held when they
\* were called, and now is that of the call.
IsDue(s) == status[s] = "eligible" /\ (IF IsTime(s) THEN due[s] = "come" ELSE Kind[s] = "policy")
Matches(s) == status[s] = "eligible" /\ Kind[s] = "event"

CallTick(c) ==
  /\ call[c] = NoCall
  /\ \E s \in Registered : IsDue(s)
  /\ Step(c, [NoCall EXCEPT !.op = "tick", !.todo = {s \in Registered : IsDue(s)}])
  /\ UNCHANGED <<registry, scheduleVars, attemptCounts, historyVars, live>>

CallNotifyEvent(c) ==
  /\ call[c] = NoCall
  /\ \E s \in Registered : Matches(s)
  /\ Step(c, [NoCall EXCEPT !.op = "notifyEvent", !.todo = {s \in Registered : Matches(s)}])
  /\ UNCHANGED <<registry, scheduleVars, attemptCounts, historyVars, live>>

\* What triggerManually() accepts ("registered" is never visible).
ManualAccepts(s) == status[s] = "eligible"

\* Starts a fresh attempt sequence and does not consult checkEligibility.
TriggerManually(c, s) ==
  /\ call[c] = NoCall
  /\ ManualAccepts(s)
  /\ attemptCounts' = [attemptCounts EXCEPT ![s] = 0]
  /\ Write(s, "scheduled", due[s])
  /\ Step(c, [NoCall EXCEPT !.op = "manual", !.at = "triggered", !.on = s,
                            !.due = due[s], !.attempt = 1])
  /\ UNCHANGED <<registry, historyVars, live>>

\* Mutant: a dependency that has not failed is good enough.
MutDependenciesMet(s) == \A d \in DependsOn[s] : lastResult[d] # "failure"

\* checkEligibility looks at the last history entry of each dependency.
DependenciesMet(s) == \A d \in DependsOn[s] : lastResult[d] = "success"

InLoop(c) == call[c].op # None /\ call[c].at = "loop" /\ call[c].todo # {}
\* The schedule of its list that was registered first.
IsFirst(c, s) ==
  /\ s \in call[c].todo
  /\ \E k \in DOMAIN registry : registry[k] = s /\ \A j \in 1..(k - 1) : registry[j] \notin call[c].todo
Visit(c, s) == [call[c] EXCEPT !.todo = @ \ {s}, !.on = s]

Skip(s) == /\ lastResult' = [lastResult EXCEPT ![s] = "skipped"]
           /\ UNCHANGED lastExecuted

\* The next schedule passes checkEligibility.  nextExecutionAt of a trigger that
\* is not a time is never read, whatever a retry left in it.
Begin(c, s) ==
  /\ InLoop(c) /\ IsFirst(c, s)
  /\ LET copy == IF IsTime(s) THEN "come" ELSE "never"
     IN  /\ DependenciesMet(s)
         /\ Write(s, "scheduled", copy)
         /\ Step(c, [Visit(c, s) EXCEPT !.at = "triggered", !.due = copy, !.attempt = Attempt(s)])
  /\ UNCHANGED <<registry, attemptCounts, historyVars, live>>

\* It does not.  tick() records the skip before it publishes, notifyEvent() after.
Refuse(c, s) ==
  /\ InLoop(c) /\ IsFirst(c, s)
  /\ Gated \/ ~DependenciesMet(s)
  /\ IF call[c].op = "tick"
     THEN /\ Skip(s)
          /\ Step(c, [Visit(c, s) EXCEPT !.at = IF Kind[s] = "once" THEN "skipping" ELSE "delaying"])
     ELSE /\ UNCHANGED historyVars
          /\ Step(c, [Visit(c, s) EXCEPT !.at = "delaying"])
  /\ UNCHANGED <<registry, scheduleVars, attemptCounts, live>>

\* A one-shot trigger that missed its time is retired.
Skipped(c) ==
  /\ call[c].at = "skipping"
  /\ Write(call[c].on, "retired", "come")
  /\ Step(c, Loop(c))
  /\ UNCHANGED <<registry, attemptCounts, historyVars, live>>

Delayed(c) ==
  /\ call[c].at = "delaying"
  /\ IF call[c].op = "notifyEvent" THEN Skip(call[c].on) ELSE UNCHANGED historyVars
  /\ Step(c, Loop(c))
  /\ UNCHANGED <<registry, scheduleVars, attemptCounts, live>>

Return(c) ==
  /\ call[c].op # None /\ call[c].at = "loop" /\ call[c].todo = {}
  /\ Step(c, NoCall)
  /\ UNCHANGED <<registry, scheduleVars, attemptCounts, historyVars, live>>

----------------------------------------------------------------------------
(* executeOne                                                              *)

Started(c) ==
  /\ call[c].at = "triggered"
  /\ Write(call[c].on, "executing", call[c].due)
  /\ Step(c, [call[c] EXCEPT !.at = "started"])
  /\ UNCHANGED <<registry, attemptCounts, historyVars, live>>

Execute(c) ==
  /\ call[c].at = "started"
  /\ live' = [live EXCEPT ![call[c].on] = @ + 1]
  /\ Step(c, [call[c] EXCEPT !.at = "running"])
  /\ UNCHANGED <<registry, scheduleVars, attemptCounts, historyVars>>

Record(s, result) ==
  /\ lastResult' = [lastResult EXCEPT ![s] = result]
  /\ lastExecuted' = [lastExecuted EXCEPT ![s] = result]

Succeed(c) ==
  /\ call[c].at = "running"
  /\ live' = [live EXCEPT ![call[c].on] = @ - 1]
  /\ Record(call[c].on, "success")
  /\ attemptCounts' = [attemptCounts EXCEPT ![call[c].on] = 0]
  /\ Write(call[c].on, "completed", call[c].due)
  /\ Step(c, [call[c] EXCEPT !.at = "completed"])
  /\ UNCHANGED registry

\* The handler rejects or reports failure, or withTimeout gives up on it: then
\* the handler itself goes on.
Fail(c, timedOut) ==
  /\ call[c].at = "running"
  /\ timedOut => TimesOut /\ live[call[c].on] <= MaxAbandoned
  /\ live' = IF timedOut THEN live ELSE [live EXCEPT ![call[c].on] = @ - 1]
  /\ Record(call[c].on, "failure")
  /\ Write(call[c].on, "failed", call[c].due)
  /\ Step(c, [call[c] EXCEPT !.at = "failed"])
  /\ UNCHANGED <<registry, attemptCounts>>

\* Mutant: one too many.
MutAbandoned(s) == live[s] >= Cardinality({c \in Callers : call[c].at = "running" /\ call[c].on = s})

\* A handler that nobody waits for any more ends.
Abandoned(s) == live[s] > Cardinality({c \in Callers : call[c].at = "running" /\ call[c].on = s})
HandlerEnds(s) ==
  /\ Abandoned(s)
  /\ live' = [live EXCEPT ![s] = @ - 1]
  /\ UNCHANGED <<registry, scheduleVars, attemptCounts, historyVars, call>>

\* Mutant: a recurring schedule retires after its first execution.
MutRescheduleOrRetire(c) ==
  LET s == call[c].on
  IN  IF IsTime(s) THEN Write(s, "retired", call[c].due)
      ELSE Write(s, "eligible", call[c].due)

\* rescheduled is passed on the way to eligible.
RescheduleOrRetire(c) ==
  LET s == call[c].on
  IN  IF Kind[s] = "once" THEN Write(s, "retired", call[c].due)
      ELSE Write(s, "eligible", IF Kind[s] = "recurring" THEN "ahead" ELSE call[c].due)

Completed(c) ==
  /\ call[c].at = "completed"
  /\ RescheduleOrRetire(c)
  /\ Step(c, Loop(c))
  /\ UNCHANGED <<registry, attemptCounts, historyVars, live>>

\* Mutant: `attempt > maxAttempts`.
MutExhausted(c) == call[c].attempt > MaxAttempts[call[c].on]

\* computeRetryDelayMs gives no delay; a manual strategy is maxAttempts = 1.
Exhausted(c) == call[c].attempt >= MaxAttempts[call[c].on]

GiveUp(c) ==
  /\ call[c].at = "failed" /\ Exhausted(c)
  /\ attemptCounts' = [attemptCounts EXCEPT ![call[c].on] = 0]
  /\ IF MaxAttempts[call[c].on] = 0 THEN RescheduleOrRetire(c) ELSE UNCHANGED scheduleVars
  /\ Step(c, Loop(c))
  /\ UNCHANGED <<registry, historyVars, live>>

Retry(c) ==
  /\ call[c].at = "failed" /\ ~Exhausted(c)
  /\ attemptCounts' = [attemptCounts EXCEPT ![call[c].on] = call[c].attempt + 1]
  /\ Step(c, [call[c] EXCEPT !.at = "retrying"])
  /\ UNCHANGED <<registry, scheduleVars, historyVars, live>>

\* Mutant: the schedule stays failed until its retry.
MutRetried(c) ==
  /\ call[c].at = "retrying"
  /\ Write(call[c].on, "executing", "ahead")
  /\ Step(c, Loop(c))
  /\ UNCHANGED <<registry, attemptCounts, historyVars, live>>

Retried(c) ==
  /\ call[c].at = "retrying"
  /\ Write(call[c].on, "eligible", "ahead")
  /\ Step(c, Loop(c))
  /\ UNCHANGED <<registry, attemptCounts, historyVars, live>>

\* A publish the call awaits rejects, and the call with it.
PublishRejects(c) ==
  /\ PublishFails
  /\ call[c].at \in {"skipping", "delaying", "triggered", "started", "completed", "failed", "retrying"}
  /\ Step(c, NoCall)
  /\ UNCHANGED <<registry, scheduleVars, attemptCounts, historyVars, live>>

----------------------------------------------------------------------------
Control(s) == Pause(s) \/ Resume(s) \/ Cancel(s)
Calls(c) == CallTick(c) \/ CallNotifyEvent(c) \/ \E s \in Schedules : TriggerManually(c, s)
Proceed(c) ==
  \/ (\E s \in Schedules : Begin(c, s) \/ Refuse(c, s)) \/ Skipped(c) \/ Delayed(c) \/ Return(c)
  \/ Started(c) \/ Execute(c) \/ Succeed(c) \/ (\E t \in BOOLEAN : Fail(c, t))
  \/ Completed(c) \/ GiveUp(c) \/ Retry(c) \/ Retried(c)

Next ==
  \/ \E s \in Schedules : RegisterSchedule(s) \/ TimeComes(s) \/ Control(s) \/ HandlerEnds(s)
  \/ \E c \in Callers : Calls(c) \/ Proceed(c) \/ PublishRejects(c)

Spec == Init /\ [][Next]_vars

\* Publishes settle and handlers end or time out, so calls proceed; the clock
\* runs; whoever drives the authority keeps calling tick(), which other calls
\* do not keep out (the code does not bound the calls under way, Callers does).
Fairness ==
  /\ \A s \in Schedules : WF_vars(TimeComes(s))
  /\ \A c \in Callers : WF_vars(Proceed(c)) /\ SF_vars(CallTick(c))

FairSpec == Spec /\ Fairness

----------------------------------------------------------------------------
(* Properties                                                              *)

\* Every variable has its type.
TypeOK ==
  /\ registry \in Seq(Schedules)
  /\ status \in [Schedules -> Statuses] /\ due \in [Schedules -> Dues]
  /\ attemptCounts \in [Schedules -> Nat]
  /\ lastResult \in [Schedules -> Results] /\ lastExecuted \in [Schedules -> Results]
  /\ live \in [Schedules -> Nat]
  /\ call \in [Callers -> [op : {None, "tick", "notifyEvent", "manual"}, todo : SUBSET Schedules,
                           at : Places, on : Schedules \cup {None}, due : Dues, attempt : Nat]]

\* A schedule is left midway through an execution only while a call is working
\* on it: overlapping calls that overwrite each other's states, pauses and
\* cancellations between them never strand one in scheduled or executing.
WorksOn(c, s) == call[c].on = s /\ call[c].at \notin {"loop", "skipping", "delaying"}
NoneStranded ==
  \A s \in Schedules : status[s] \in {"scheduled", "executing", "completed"} =>
    \E c \in Callers : WorksOn(c, s)

\* "maxAttempts" (section 12): no attempt is numbered beyond the policy's maximum,
\* although the count is kept across separate calls that may overlap.
AttemptsBounded ==
  /\ \A s \in Schedules : attemptCounts[s] <= MaxAttempts[s]
  /\ \A c \in Callers : call[c].on # None =>
       call[c].attempt <= (IF MaxAttempts[call[c].on] = 0 THEN 1 ELSE MaxAttempts[call[c].on])

\* Dependency awareness (section 9): with one call at a time, a handler that a
\* trigger starts runs only after the last execution of each dependency
\* succeeded, whatever was paused, cancelled or skipped in between.
StartsAfterDependencies ==
  [][\A s \in Schedules : live[s]' > live[s] /\ (\E c \in Callers : call[c].on = s /\ call[c].op # "manual") =>
       \A d \in DependsOn[s] : lastExecuted[d] = "success"]_vars

\* A recurring schedule without a retry policy executes again and again, and a
\* one-shot one settles, unless somebody pauses or cancels it, although ticks
\* overlap with each other and with manual triggers.
Withheld(s) == status[s] \in {"paused", "cancelled"}
KeepsRunning ==
  \A s \in Schedules :
    /\ Kind[s] = "recurring" /\ MaxAttempts[s] = 0 =>
         (s \in Registered) ~> (live[s] > 0 \/ Withheld(s))
    /\ Kind[s] = "once" =>
         (s \in Registered) ~> (status[s] \in {"retired", "failed"} \/ due[s] = "never" \/ Withheld(s))

\* "cancel() is terminal - a cancelled schedule never executes again".
CancelIsTerminal ==
  [][\A s \in Schedules : status[s] = "cancelled" => status'[s] = "cancelled" /\ live'[s] <= live[s]]_vars

\* "Every schedule is gated by a PolicyEvaluator before execution": a call begins
\* to execute a schedule only from its list, after checkEligibility.
PolicyBeforeExecution ==
  [][\A c \in Callers : call'[c].at = "triggered" /\ call[c].at # "triggered" => InLoop(c)]_vars

\* "stays 'failed'; a future manual trigger starts fresh".
FailedIsTriggerable ==
  \A s \in Schedules : status[s] = "failed" /\ (\A c \in Callers : call[c].on # s) => ManualAccepts(s)

\* "Not eligible until every dependency's most recent execution recorded success":
\* the last execution decides, whatever was skipped since.
LastExecutionDecides ==
  \A s \in Schedules : (\A d \in DependsOn[s] : lastExecuted[d] = "success") => DependenciesMet(s)
=============================================================================
