------------------------------ MODULE EventBus ------------------------------
(***************************************************************************)
(* The Institutional Event Bus (core/event_bus/src).                       *)
(*                                                                         *)
(* Everything runs on one JavaScript thread, so an action is a stretch of  *)
(* code between two awaits.  The interleavings are those of the awaits:    *)
(* handlers of one event run concurrently, several sync publications may   *)
(* be outstanding at once (authorities mirror their events with            *)
(* fire-and-forget publishes), and one drain loop serves the async queue.  *)
(*                                                                         *)
(* A publication is named by its number: publish() increments              *)
(* totalPublished before anything can fail, so pubs[n] is the n-th call    *)
(* that passed validation and Len(pubs) is the counter itself.  A call     *)
(* that fails validation changes nothing and is left out.                  *)
(***************************************************************************)
EXTENDS Naturals, Sequences, FiniteSets

CONSTANTS
  Events,         \* event type definitions the authorities may register
  SyncEvents,     \* those whose deliveryMode is 'sync'; the others are 'async'
  Rank,           \* Rank[e]: PRIORITY_RANK of e's priority, 0 is the most urgent
  Subs,           \* subscription ids
  Selects,        \* Selects[s]: the events s's selector, targeting and filter accept
  DeadThreshold,  \* DEAD_SUBSCRIBER_THRESHOLD
  MaxQueueSize,   \* options.maxQueueSize
  HistorySize,    \* maxSize of MemoryEventPersistence
  AwaitsAsync,    \* whether a handler may await an async publication of its own
  RecordThrows,   \* whether persistence.record may throw (FileEventPersistence)
  MaxPub          \* bound of the model on the number of publications

ASSUME BusAssumption ==
  /\ SyncEvents \subseteq Events
  /\ Rank \in [Events -> Nat]
  /\ Selects \in [Subs -> SUBSET Events]
  /\ IsFiniteSet(Subs)
  /\ DeadThreshold \in Nat \ {0} /\ MaxQueueSize \in Nat
  /\ HistorySize \in Nat /\ MaxPub \in Nat
  /\ AwaitsAsync \in BOOLEAN /\ RecordThrows \in BOOLEAN

VARIABLES
  registry,             \* event types registered so far
  status,               \* a subscription's standing
  consecutiveFailures,  \* its failures since its last success
  pubs,                 \* the publications, in the order of the publish() calls
  dispatchStack,        \* names of the sync events being dispatched
  draining,             \* the drain loop is scheduled or running
  drainAwaits,          \* publication whose dispatch the drain loop awaits, 0 if none
  totalDispatched,
  totalFailedDeliveries,
  history               \* MemoryEventPersistence.entries, oldest first

subVars   == <<status, consecutiveFailures>>
drainVars == <<draining, drainAwaits>>
auditVars == <<totalDispatched, totalFailedDeliveries, history>>
vars == <<registry, subVars, pubs, dispatchStack, drainVars, auditVars>>

\* A publish() call is made by an invocation <<p, s>>, the handler of s working
\* on publication p, or by code outside any handler.
Outside == <<>>
Invocations == (1..MaxPub) \X Subs

\* queued:      in the priority queue
\* dispatching: handed to the matched handlers, not all of which have settled
\* audited:     its audit is recorded, the awaiting code has not resumed yet
\* resolved:    the promise publish() returned is fulfilled
\* thrown:      dispatchNow threw, the awaiting code has not resumed yet
\* circular, overflow, rejected: publish() threw that error
Phases == {"queued", "dispatching", "audited", "resolved", "thrown",
           "circular", "overflow", "rejected"}

Publication == [event : Events, caller : Invocations \cup {Outside}, awaited : BOOLEAN,
                phase : Phases, matched : SUBSET Subs, pending : SUBSET Subs,
                failed : SUBSET Subs]

Ids == DOMAIN pubs
Queue == {p \in Ids : pubs[p].phase = "queued"}
IsSync(p) == pubs[p].event \in SyncEvents
\* The promise publish() returned has neither been fulfilled nor rejected.
Outstanding(p) == pubs[p].phase \in {"queued", "dispatching", "audited", "thrown"}

\* matchesFor, then the targeting and filter steps of dispatchNow: a snapshot.
Matches(e) == {s \in Subs : status[s] = "live" /\ e \in Selects[s]}

----------------------------------------------------------------------------
Init ==
  /\ registry = {}
  /\ status = [s \in Subs |-> "absent"]
  /\ consecutiveFailures = [s \in Subs |-> 0]
  /\ pubs = <<>>
  /\ dispatchStack = <<>>
  /\ draining = FALSE
  /\ drainAwaits = 0
  /\ totalDispatched = 0
  /\ totalFailedDeliveries = 0
  /\ history = <<>>

RegisterEventType(e) ==
  /\ e \notin registry                        \* else DuplicateEventDefinitionError
  /\ registry' = registry \cup {e}
  /\ UNCHANGED <<subVars, pubs, dispatchStack, drainVars, auditVars>>

Subscribe(s) ==
  /\ status[s] = "absent"
  /\ status' = [status EXCEPT ![s] = "live"]
  /\ UNCHANGED <<registry, consecutiveFailures, pubs, dispatchStack, drainVars, auditVars>>

\* A dead subscription stays in the map until its owner removes it.
Unsubscribe(s) ==
  /\ status[s] \in {"live", "dead"}
  /\ status' = [status EXCEPT ![s] = "removed"]
  /\ UNCHANGED <<registry, consecutiveFailures, pubs, dispatchStack, drainVars, auditVars>>

----------------------------------------------------------------------------
(* publish()                                                               *)

Running(i) ==
  i[1] \in Ids /\ pubs[i[1]].phase = "dispatching" /\ i[2] \in pubs[i[1]].pending

\* Mutant: a nested publish still in the queue does not suspend its handler.
MutBlocked(i) ==
  \E q \in Ids : pubs[q].caller = i /\ pubs[q].awaited /\ pubs[q].phase = "dispatching"

\* The handler is suspended at `await bus.publish(...)`.
Blocked(i) == \E q \in Ids : pubs[q].caller = i /\ pubs[q].awaited /\ Outstanding(q)

MayPublish(i) == i # Outside => Running(i) /\ ~Blocked(i)

Envelope(e, i, awaited, phase, matched) ==
  [event |-> e, caller |-> i, awaited |-> awaited, phase |-> phase,
   matched |-> matched, pending |-> matched, failed |-> {}]

\* The call reaches `totalPublished += 1`.
Accepts(e, i, awaited) ==
  /\ Len(pubs) < MaxPub
  /\ e \in registry
  /\ MayPublish(i)
  /\ awaited => i # Outside /\ (e \in SyncEvents \/ AwaitsAsync)

InFlight(e) == \E k \in DOMAIN dispatchStack : dispatchStack[k] = e

PublishCircular(e, i, awaited) ==
  /\ Accepts(e, i, awaited)
  /\ e \in SyncEvents
  /\ InFlight(e)
  /\ pubs' = Append(pubs, Envelope(e, i, awaited, "circular", {}))
  /\ UNCHANGED <<registry, subVars, dispatchStack, drainVars, auditVars>>

\* Pushes the name and runs dispatchNow up to its await: the handlers are called.
PublishSync(e, i, awaited) ==
  /\ Accepts(e, i, awaited)
  /\ e \in SyncEvents
  /\ ~InFlight(e)
  /\ dispatchStack' = Append(dispatchStack, e)
  /\ pubs' = Append(pubs, Envelope(e, i, awaited, "dispatching", Matches(e)))
  /\ UNCHANGED <<registry, subVars, drainVars, auditVars>>

PublishOverflow(e, i, awaited) ==
  /\ Accepts(e, i, awaited)
  /\ e \notin SyncEvents
  /\ Cardinality(Queue) >= MaxQueueSize
  /\ pubs' = Append(pubs, Envelope(e, i, awaited, "overflow", {}))
  /\ UNCHANGED <<registry, subVars, dispatchStack, drainVars, auditVars>>

\* Mutant: no `if (this.draining) return`, a second loop starts.
MutPublishAsync(e, i, awaited) ==
  /\ Accepts(e, i, awaited)
  /\ e \notin SyncEvents
  /\ Cardinality(Queue) < MaxQueueSize
  /\ pubs' = Append(pubs, Envelope(e, i, awaited, "queued", {}))
  /\ draining' = TRUE
  /\ drainAwaits' = 0
  /\ UNCHANGED <<registry, subVars, dispatchStack, auditVars>>

\* enqueue, then scheduleDrain: only the first publish of a burst schedules it.
PublishAsync(e, i, awaited) ==
  /\ Accepts(e, i, awaited)
  /\ e \notin SyncEvents
  /\ Cardinality(Queue) < MaxQueueSize
  /\ pubs' = Append(pubs, Envelope(e, i, awaited, "queued", {}))
  /\ draining' = TRUE
  /\ UNCHANGED <<registry, subVars, dispatchStack, drainAwaits, auditVars>>

----------------------------------------------------------------------------
(* invokeSubscriber, dispatchNow                                           *)

Settle(p, s) == [pubs EXCEPT ![p].pending = @ \ {s}]

HandlerSucceeds(p, s) ==
  /\ Running(<<p, s>>)
  /\ ~Blocked(<<p, s>>)
  /\ pubs' = Settle(p, s)
  /\ consecutiveFailures' =                   \* recordSuccess, also of a dead one
       IF status[s] \in {"live", "dead"} THEN [consecutiveFailures EXCEPT ![s] = 0]
                                         ELSE consecutiveFailures
  /\ UNCHANGED <<registry, status, dispatchStack, drainVars, auditVars>>

\* Mutant: `>` for `>=` the threshold.
MutRecordFailure(s) ==
  IF status[s] \in {"live", "dead"}
  THEN /\ consecutiveFailures' = [consecutiveFailures EXCEPT ![s] = @ + 1]
       /\ status' = IF consecutiveFailures[s] + 1 > DeadThreshold
                    THEN [status EXCEPT ![s] = "dead"] ELSE status
  ELSE UNCHANGED subVars

\* recordFailure: nothing is counted for a subscription already removed.
RecordFailure(s) ==
  IF status[s] \in {"live", "dead"}
  THEN /\ consecutiveFailures' = [consecutiveFailures EXCEPT ![s] = @ + 1]
       /\ status' = IF consecutiveFailures[s] + 1 >= DeadThreshold
                    THEN [status EXCEPT ![s] = "dead"] ELSE status
  ELSE UNCHANGED subVars

HandlerFails(p, s) ==
  /\ Running(<<p, s>>)
  /\ ~Blocked(<<p, s>>)
  /\ pubs' = [Settle(p, s) EXCEPT ![p].failed = @ \cup {s}]
  /\ RecordFailure(s)
  /\ UNCHANGED <<registry, dispatchStack, drainVars, auditVars>>

\* record(): the ring buffer drops its oldest entry once it exceeds maxSize.
Recorded(p) ==
  IF Len(history) < HistorySize THEN Append(history, p) ELSE Tail(Append(history, p))

\* Mutant: the counters are updated after persistence.record.
MutFinishDispatch(p) ==
  /\ p \in Ids /\ pubs[p].phase = "dispatching" /\ pubs[p].pending = {}
  /\ \/ /\ pubs' = [pubs EXCEPT ![p].phase = "audited"]
        /\ history' = Recorded(p)
        /\ totalDispatched' = totalDispatched + 1
        /\ totalFailedDeliveries' = totalFailedDeliveries + Cardinality(pubs[p].failed)
     \/ /\ RecordThrows
        /\ pubs' = [pubs EXCEPT ![p].phase = "thrown"]
        /\ UNCHANGED auditVars
  /\ UNCHANGED <<registry, subVars, dispatchStack, drainVars>>

\* dispatchNow after allSettled: counters, then persistence.record, then return.
FinishDispatch(p) ==
  /\ p \in Ids /\ pubs[p].phase = "dispatching" /\ pubs[p].pending = {}
  /\ totalDispatched' = totalDispatched + 1
  /\ totalFailedDeliveries' = totalFailedDeliveries + Cardinality(pubs[p].failed)
  /\ \/ /\ pubs' = [pubs EXCEPT ![p].phase = "audited"]
        /\ history' = Recorded(p)
     \/ /\ RecordThrows
        /\ pubs' = [pubs EXCEPT ![p].phase = "thrown"]
        /\ UNCHANGED history
  /\ UNCHANGED <<registry, subVars, dispatchStack, drainVars>>

\* Mutant: the pop is not in a finally.
MutReturnSync(p) ==
  /\ p \in Ids /\ IsSync(p) /\ pubs[p].phase \in {"audited", "thrown"}
  /\ pubs' = [pubs EXCEPT ![p].phase = IF @ = "audited" THEN "resolved" ELSE "rejected"]
  /\ dispatchStack' = IF pubs[p].phase = "thrown" THEN dispatchStack
                      ELSE SubSeq(dispatchStack, 1, Len(dispatchStack) - 1)
  /\ UNCHANGED <<registry, subVars, drainVars, auditVars>>

\* publish() resumes after a sync dispatch; its finally pops the top entry,
\* which need not be its own.
ReturnSync(p) ==
  /\ p \in Ids /\ IsSync(p) /\ pubs[p].phase \in {"audited", "thrown"}
  /\ pubs' = [pubs EXCEPT ![p].phase = IF @ = "audited" THEN "resolved" ELSE "rejected"]
  /\ dispatchStack' = SubSeq(dispatchStack, 1, Len(dispatchStack) - 1)
  /\ UNCHANGED <<registry, subVars, drainVars, auditVars>>

----------------------------------------------------------------------------
(* drainQueue                                                              *)

\* Mutant: the last of equal priority first.
MutBefore(p, q) ==
  \/ Rank[pubs[p].event] < Rank[pubs[q].event]
  \/ Rank[pubs[p].event] = Rank[pubs[q].event] /\ p > q

\* compare(): priority rank first, insertion order second.
Before(p, q) ==
  \/ Rank[pubs[p].event] < Rank[pubs[q].event]
  \/ Rank[pubs[p].event] = Rank[pubs[q].event] /\ p < q

\* What PriorityEventQueue.dequeue returns; module PriorityQueue has the heap.
IsNext(q) == q \in Queue /\ \A p \in Queue \ {q} : Before(q, p)

\* The loop is at its head: the microtask starts, or the awaited dispatch returned.
\* A dispatch that threw ends drainQueue without resuming here.
DrainResumes ==
  /\ draining
  /\ drainAwaits # 0 => pubs[drainAwaits].phase = "audited"

\* Mutant: the status of the envelope instead of the resolution of the promise.
MutResolved == IF drainAwaits = 0 THEN pubs ELSE [pubs EXCEPT ![drainAwaits].phase = "completed"]

\* resolve(audit) for the publication just dispatched.
Resolved == IF drainAwaits = 0 THEN pubs ELSE [pubs EXCEPT ![drainAwaits].phase = "resolved"]

DrainNext(q) ==
  /\ DrainResumes
  /\ IsNext(q)
  /\ drainAwaits' = q
  /\ pubs' = [Resolved EXCEPT ![q].phase = "dispatching",
                              ![q].matched = Matches(pubs[q].event),
                              ![q].pending = Matches(pubs[q].event)]
  /\ UNCHANGED <<registry, subVars, dispatchStack, draining, auditVars>>

\* Mutant: `if (next)` for `while (next)`, one event per wake-up.
MutDrainEnds ==
  /\ DrainResumes
  /\ drainAwaits # 0
  /\ draining' = FALSE
  /\ drainAwaits' = 0
  /\ pubs' = Resolved
  /\ UNCHANGED <<registry, subVars, dispatchStack, auditVars>>

DrainEnds ==
  /\ DrainResumes
  /\ Queue = {}
  /\ draining' = FALSE
  /\ drainAwaits' = 0
  /\ pubs' = Resolved
  /\ UNCHANGED <<registry, subVars, dispatchStack, auditVars>>

----------------------------------------------------------------------------
Publish ==
  \E e \in Events, i \in Invocations \cup {Outside}, awaited \in BOOLEAN :
    \/ PublishCircular(e, i, awaited)
    \/ PublishSync(e, i, awaited)
    \/ PublishOverflow(e, i, awaited)
    \/ PublishAsync(e, i, awaited)

HandlerSettles(p, s) == HandlerSucceeds(p, s) \/ HandlerFails(p, s)
Drain == (\E q \in 1..MaxPub : DrainNext(q)) \/ DrainEnds

Next ==
  \/ \E e \in Events : RegisterEventType(e)
  \/ \E s \in Subs : Subscribe(s) \/ Unsubscribe(s)
  \/ Publish
  \/ \E p \in 1..MaxPub, s \in Subs : HandlerSettles(p, s)
  \/ \E p \in 1..MaxPub : FinishDispatch(p) \/ ReturnSync(p)
  \/ Drain

Spec == Init /\ [][Next]_vars

\* Microtasks run: a resolved promise resumes the code that awaits it, and the
\* drain loop is such code.  That handlers settle is assumed of subscribers.
Fairness ==
  /\ WF_vars(Drain)
  /\ \A p \in 1..MaxPub :
       /\ WF_vars(FinishDispatch(p)) /\ WF_vars(ReturnSync(p))
       /\ \A s \in Subs : WF_vars(HandlerSettles(p, s))

FairSpec == Spec /\ Fairness

----------------------------------------------------------------------------
(* Properties                                                              *)

\* Every variable has its type.
TypeOK ==
  /\ registry \subseteq Events
  /\ status \in [Subs -> {"absent", "live", "dead", "removed"}]
  /\ consecutiveFailures \in [Subs -> Nat]
  /\ pubs \in Seq(Publication)
  /\ Len(pubs) <= MaxPub
  /\ dispatchStack \in Seq(SyncEvents)
  /\ draining \in BOOLEAN
  /\ drainAwaits \in 0..MaxPub
  /\ totalDispatched \in Nat
  /\ totalFailedDeliveries \in Nat
  /\ history \in Seq(1..MaxPub)

\* Publications being dispatched, or just dispatched, whose caller is suspended.
InDispatch(p) == pubs[p].phase \in {"dispatching", "audited", "thrown"}

\* Although the dispatch stack is shared by unrelated callers and each of them
\* pops whatever is on top, it holds every name at most once and one entry per
\* outstanding sync publication, so it is empty when the bus is idle.
StackBalanced ==
  /\ \A j, k \in DOMAIN dispatchStack : dispatchStack[j] = dispatchStack[k] => j = k
  /\ Len(dispatchStack) = Cardinality({p \in Ids : IsSync(p) /\ InDispatch(p)})

\* scheduleDrain loses no wake-up and starts no second loop: whatever is queued
\* has a drain loop, and the only async publication in dispatch is the one that
\* loop awaits.
SingleDrain ==
  /\ Queue # {} => draining
  /\ drainAwaits # 0 => draining /\ drainAwaits \in Ids /\ ~IsSync(drainAwaits)
  /\ \A p \in Ids : ~IsSync(p) /\ InDispatch(p) => draining /\ drainAwaits = p

\* Async events of one priority are audited in the order they were published,
\* whatever their handlers and the rest of the queue do (Law 4).
AuditedInOrder ==
  \A j, k \in DOMAIN history :
    /\ j < k
    /\ ~IsSync(history[j]) /\ ~IsSync(history[k])
    /\ Rank[pubs[history[j]].event] = Rank[pubs[history[k]].event]
    => history[j] < history[k]

\* getMetrics() adds up: each publish() counted in totalPublished is refused,
\* still under way or counted in totalDispatched, and every failed delivery of a
\* finished dispatch is counted once.
Finished(p) == pubs[p].phase \in {"audited", "thrown", "resolved", "rejected"}
MetricsAddUp ==
  /\ totalDispatched = Cardinality({p \in Ids : Finished(p)})
  /\ totalFailedDeliveries =
       Cardinality({i \in Invocations : i[1] \in Ids /\ Finished(i[1]) /\ i[2] \in pubs[i[1]].failed})

\* Dead-subscriber detection (section 16): a subscription dies only after
\* DeadThreshold of its deliveries failed, and none at the threshold stays live,
\* although several deliveries to it may be in flight when it dies.
FailedDeliveries(s) == {p \in Ids : s \in pubs[p].failed}
DeadDetection ==
  \A s \in Subs :
    /\ status[s] = "dead" => Cardinality(FailedDeliveries(s)) >= DeadThreshold
    /\ status[s] = "live" => consecutiveFailures[s] < DeadThreshold

\* A handler that awaits its own publication cannot settle before it, so the
\* publication it handles is still being dispatched.
AwaitedPublicationsNest ==
  \A p \in Ids : pubs[p].awaited /\ Outstanding(p) => Running(pubs[p].caller)

\* "Resolves once this specific event has finished dispatching, in both modes":
\* every publication accepted by publish() settles.
EveryPublicationSettles ==
  \A p \in 1..MaxPub : (p \in Ids /\ Outstanding(p)) ~> (p \in Ids /\ ~Outstanding(p))

\* The publications whose handlers, transitively, made the p-th publish() call.
Ancestors(p, links(_)) ==
  LET anc[q \in Ids] ==
        IF pubs[q].caller = Outside \/ ~links(q) THEN {}
        ELSE {pubs[q].caller[1]} \cup anc[pubs[q].caller[1]]
  IN  anc[p]

\* A CircularPublicationError means a cycle "formed within one publish() call's
\* descendant dispatch tree".
CircularMeansCycle ==
  \A p \in Ids : pubs[p].phase = "circular" =>
    \E q \in Ancestors(p, LAMBDA r : TRUE) : pubs[q].event = pubs[p].event

\* The stack "catches direct and indirect cycles" of awaited sync publications.
CycleIsCaught ==
  \A p \in Ids : pubs[p].awaited /\ IsSync(p) /\ pubs[p].phase # "circular" =>
    ~ \E q \in Ancestors(p, LAMBDA r : pubs[r].awaited) : pubs[q].event = pubs[p].event

=============================================================================
