---------------------- MODULE SchedulingAuthority_proofs ----------------------
(* Theorems about SchedulingAuthority, for any schedules, triggers, retry      *)
(* policies, dependencies and number of overlapping calls, and about one with  *)
(* a single caller.                                                            *)
EXTENDS SchedulingCalls, TLAPS, FiniteSetTheorems

----------------------------------------------------------------------------
(* Types.  live is left to the counting argument below.                        *)

Call == [op : {None, "tick", "notifyEvent", "manual"}, todo : SUBSET Schedules,
         at : Places, on : Schedules \cup {None}, due : Dues, attempt : Nat]

\* The call is suspended at a place of executeOne().
Placed(f) == IF f.at = "loop" THEN f.attempt = 0 ELSE f.on \in Schedules

TypesInv ==
  /\ registry \in Seq(Schedules)
  /\ status \in [Schedules -> Statuses] /\ due \in [Schedules -> Dues]
  /\ attemptCounts \in [Schedules -> Nat]
  /\ lastResult \in [Schedules -> Results] /\ lastExecuted \in [Schedules -> Results]
  /\ call \in [Callers -> Call]
  /\ \A c \in Callers : Placed(call[c])

LEMMA RegisteredType == ASSUME registry \in Seq(Schedules) PROVE Registered \subseteq Schedules
  BY DEF Registered

LEMMA NoCallType == NoCall \in Call /\ NoCall.at = "loop" /\ NoCall.on = None /\ Placed(NoCall)
  BY DEF NoCall, Call, Places, Dues, Placed

\* What every step does: it changes at most one call, into another call that
\* works on a schedule wherever it is suspended in executeOne().
CallStep ==
  \/ UNCHANGED call
  \/ \E c \in Callers, f \in Call : call' = [call EXCEPT ![c] = f] /\ Placed(f)

LEMMA CallStepType ==
  ASSUME TypesInv, CallStep
  PROVE  /\ call' \in [Callers -> Call]
         /\ \A c \in Callers : Placed(call'[c])
  BY DEF TypesInv, CallStep

LEMMA WriteType ==
  ASSUME TypesInv, NEW s \in Schedules, NEW st \in Statuses, NEW d \in Dues, Write(s, st, d)
  PROVE  status' \in [Schedules -> Statuses] /\ due' \in [Schedules -> Dues]
  BY DEF TypesInv, Write

LEMMA CallType == ASSUME TypesInv, NEW c \in Callers PROVE call[c] \in Call
  BY DEF TypesInv

LEMMA OnIsSchedule ==
  ASSUME TypesInv, NEW c \in Callers, call[c].at # "loop"
  PROVE  call[c].on \in Schedules /\ call[c].due \in Dues /\ call[c].attempt \in Nat
  <1>1. call[c] \in Call
    BY CallType
  <1> QED
    BY <1>1 DEF TypesInv, Call, Placed

LEMMA LoopType ==
  ASSUME TypesInv, NEW c \in Callers
  PROVE  Loop(c) \in Call /\ Loop(c).at = "loop" /\ Loop(c).on = None /\ Placed(Loop(c))
  <1>1. call[c].op \in {None, "tick", "notifyEvent", "manual"} /\ call[c].todo \in SUBSET Schedules
    BY CallType DEF Call
  <1> QED
    BY <1>1 DEF Loop, NoCall, Call, Places, Dues, Placed

\* What the steps write for the call, by what the invariants see of it.
Writes(c, on, at, attempt) ==
  \E f \in Call : Step(c, f) /\ f.on = on /\ f.at = at /\ f.attempt = attempt

LEMMA WritesStep ==
  ASSUME TypesInv, NEW c \in Callers, NEW s \in Schedules, NEW p \in Places \ {"loop"}, NEW n \in Nat,
         Writes(c, s, p, n)
  PROVE  CallStep
  BY DEF Writes, Step, CallStep, Placed

LEMMA LoopMove ==
  ASSUME TypesInv, NEW c \in Callers, Step(c, Loop(c))
  PROVE  CallStep
  BY LoopType DEF Step, CallStep

LEMMA PlaceWrites ==
  ASSUME TypesInv, NEW c \in Callers, NEW p \in Places, Step(c, [call[c] EXCEPT !.at = p])
  PROVE  Writes(c, call[c].on, p, call[c].attempt)
  <1> DEFINE f == [call[c] EXCEPT !.at = p]
  <1>1. f \in Call /\ f.on = call[c].on /\ f.at = p /\ f.attempt = call[c].attempt
    BY CallType DEF Call
  <1>2. Step(c, f)
    OBVIOUS
  <1> HIDE DEF f
  <1> QED
    BY <1>1, <1>2 DEF Writes

LEMMA PlaceMove ==
  ASSUME TypesInv, NEW c \in Callers, call[c].at # "loop", NEW p \in Places \ {"loop"},
         Step(c, [call[c] EXCEPT !.at = p])
  PROVE  CallStep
  BY PlaceWrites, OnIsSchedule, WritesStep

LEMMA VisitType ==
  ASSUME TypesInv, NEW c \in Callers, NEW s \in Schedules
  PROVE  Visit(c, s) \in Call /\ Visit(c, s).on = s /\ Visit(c, s).attempt = call[c].attempt
  BY CallType DEF Visit, Call

LEMMA BeginWrites ==
  ASSUME TypesInv, NEW c \in Callers, NEW s \in Schedules, Begin(c, s)
  PROVE  Writes(c, s, "triggered", Attempt(s)) /\ Attempt(s) \in Nat
  <1>1. Attempt(s) \in Nat
    BY DEF Attempt, TypesInv
  <1>2. PICK copy \in {"come", "never"} :
          Step(c, [Visit(c, s) EXCEPT !.at = "triggered", !.due = copy, !.attempt = Attempt(s)])
    BY DEF Begin
  <1> DEFINE v == Visit(c, s)
             n == Attempt(s)
             f == [v EXCEPT !.at = "triggered", !.due = copy, !.attempt = n]
  <1>3. v \in Call /\ v.on = s /\ n \in Nat /\ copy \in Dues /\ "triggered" \in Places
    BY <1>1, VisitType DEF Places, Dues
  <1>4. Step(c, f)
    BY <1>2
  <1> HIDE DEF v, n
  <1>5. f \in Call /\ f.on = s /\ f.at = "triggered" /\ f.attempt = n
    BY <1>3 DEF Call
  <1> HIDE DEF f
  <1>6. Writes(c, s, "triggered", n) /\ n \in Nat
    BY <1>3, <1>4, <1>5 DEF Writes
  <1> QED
    BY <1>6 DEF n

LEMMA RefuseWrites ==
  ASSUME TypesInv, NEW c \in Callers, NEW s \in Schedules, Refuse(c, s)
  PROVE  \E p \in {"skipping", "delaying"} : Writes(c, s, p, 0)
  <1>1. PICK p \in {"skipping", "delaying"} : Step(c, [Visit(c, s) EXCEPT !.at = p])
    BY DEF Refuse
  <1>2. call[c].attempt = 0
    BY DEF Refuse, InLoop, TypesInv, Placed
  <1> DEFINE f == [Visit(c, s) EXCEPT !.at = p]
  <1>3. f \in Call /\ f.on = s /\ f.at = p /\ f.attempt = 0
    BY <1>2, VisitType DEF Call, Places
  <1>4. Step(c, f)
    BY <1>1
  <1> HIDE DEF f
  <1> QED
    BY <1>3, <1>4 DEF Writes

LEMMA TriggerWrites ==
  ASSUME TypesInv, NEW c \in Callers, NEW s \in Schedules, TriggerManually(c, s)
  PROVE  Writes(c, s, "triggered", 1)
  <1> DEFINE f == [NoCall EXCEPT !.op = "manual", !.at = "triggered", !.on = s, !.due = due[s], !.attempt = 1]
  <1>1. Step(c, f)
    BY DEF TriggerManually
  <1>2. f \in Call /\ f.on = s /\ f.at = "triggered" /\ f.attempt = 1
    BY DEF Call, NoCall, Places, TypesInv
  <1> HIDE DEF f
  <1> QED
    BY <1>1, <1>2 DEF Writes

LEMMA CallWrites ==
  ASSUME TypesInv, NEW c \in Callers, CallTick(c) \/ CallNotifyEvent(c)
  PROVE  Writes(c, None, "loop", 0)
  <1>1. PICK op \in {"tick", "notifyEvent"}, todo \in SUBSET Registered :
          Step(c, [NoCall EXCEPT !.op = op, !.todo = todo])
    BY DEF CallTick, CallNotifyEvent
  <1> DEFINE f == [NoCall EXCEPT !.op = op, !.todo = todo]
  <1>2. f \in Call /\ f.on = None /\ f.at = "loop" /\ f.attempt = 0
    BY RegisteredType DEF NoCall, Call, Places, Dues, TypesInv
  <1>3. Step(c, f)
    BY <1>1
  <1> HIDE DEF f
  <1> QED
    BY <1>2, <1>3 DEF Writes

LEMMA CallMove ==
  ASSUME TypesInv, NEW c \in Callers, CallTick(c) \/ CallNotifyEvent(c)
  PROVE  CallStep
  BY CallWrites DEF Writes, Step, CallStep, Placed

----------------------------------------------------------------------------
(* One lemma per kind of step for what is not said of live. *)

Quiet ==
  /\ UNCHANGED call
  /\ \E s \in Schedules : RegisterSchedule(s) \/ TimeComes(s) \/ Control(s) \/ HandlerEnds(s)

LEMMA QuietTypes == ASSUME TypesInv, Quiet PROVE TypesInv'
  <1> PICK s \in Schedules : RegisterSchedule(s) \/ TimeComes(s) \/ Control(s) \/ HandlerEnds(s)
    BY DEF Quiet
  <1>1. CASE RegisterSchedule(s)
    <2>1. registry' \in Seq(Schedules)
      BY <1>1 DEF RegisterSchedule, TypesInv
    <2>2. due' \in [Schedules -> Dues]
      BY <1>1 DEF RegisterSchedule, TypesInv, Dues
    <2> QED
      BY <1>1, <2>1, <2>2 DEF RegisterSchedule, TypesInv, Statuses, historyVars
  <1>2. CASE TimeComes(s)
    BY <1>2 DEF TimeComes, TypesInv, Dues, historyVars
  <1>3. CASE Control(s)
    <2>1. PICK st \in {"paused", "eligible", "cancelled"} : status' = [status EXCEPT ![s] = st]
      BY <1>3 DEF Control, Pause, Resume, Cancel
    <2>2. status' \in [Schedules -> Statuses]
      BY <2>1 DEF TypesInv, Statuses
    <2>3. attemptCounts' \in [Schedules -> Nat]
      BY <1>3 DEF Control, Pause, Resume, Cancel, TypesInv
    <2>4. UNCHANGED <<registry, due, lastResult, lastExecuted, call>>
      BY <1>3 DEF Control, Pause, Resume, Cancel, historyVars
    <2> QED
      BY <2>2, <2>3, <2>4 DEF TypesInv
  <1>4. CASE HandlerEnds(s)
    BY <1>4 DEF HandlerEnds, TypesInv, scheduleVars, historyVars
  <1> QED
    BY <1>1, <1>2, <1>3, <1>4

LEMMA CallsTypes == ASSUME TypesInv, NEW c \in Callers, Calls(c) PROVE TypesInv'
  <1>1. CASE CallTick(c) \/ CallNotifyEvent(c)
    BY <1>1, CallMove, CallStepType DEF CallTick, CallNotifyEvent, TypesInv, scheduleVars, historyVars
  <1>2. ASSUME NEW s \in Schedules, TriggerManually(c, s) PROVE TypesInv'
    <2>1. CallStep
      BY <1>2, TriggerWrites, WritesStep DEF Places
    <2>2. status' \in [Schedules -> Statuses] /\ due' \in [Schedules -> Dues]
      BY <1>2, WriteType DEF TriggerManually, Statuses, TypesInv
    <2> QED
      BY <1>2, <2>1, <2>2, CallStepType DEF TriggerManually, TypesInv, historyVars
  <1> QED
    BY <1>1, <1>2 DEF Calls

LEMMA RescheduleType ==
  ASSUME TypesInv, NEW c \in Callers, call[c].at # "loop", RescheduleOrRetire(c)
  PROVE  /\ status' \in [Schedules -> Statuses] /\ due' \in [Schedules -> Dues]
         /\ \E st \in {"retired", "eligible"} : status' = [status EXCEPT ![call[c].on] = st]
  <1>1. call[c].on \in Schedules /\ call[c].due \in Dues
    BY OnIsSchedule
  <1>2. "retired" \in Statuses /\ "eligible" \in Statuses /\ "ahead" \in Dues
    BY DEF Statuses, Dues
  <1>3. PICK st \in {"retired", "eligible"}, d \in Dues : Write(call[c].on, st, d)
    BY <1>1, <1>2 DEF RescheduleOrRetire
  <1> QED
    BY <1>1, <1>2, <1>3, WriteType DEF Write

LEMMA ProceedTypes == ASSUME TypesInv, NEW c \in Callers, Proceed(c) PROVE TypesInv'
  <1>a. ASSUME NEW s \in Schedules, Begin(c, s) PROVE TypesInv'
    <2>1. CallStep
      BY <1>a, BeginWrites, WritesStep DEF Places
    <2>2. PICK copy \in {"come", "never"} : Write(s, "scheduled", copy)
      BY <1>a DEF Begin
    <2>3. status' \in [Schedules -> Statuses] /\ due' \in [Schedules -> Dues]
      BY <2>2, WriteType DEF Statuses, Dues
    <2> QED
      BY <1>a, <2>1, <2>3, CallStepType DEF Begin, TypesInv, historyVars
  <1>b. ASSUME NEW s \in Schedules, Refuse(c, s) PROVE TypesInv'
    <2>1. CallStep
      BY <1>b, RefuseWrites, WritesStep DEF Places
    <2>2. lastResult' \in [Schedules -> Results] /\ lastExecuted' \in [Schedules -> Results]
      BY <1>b DEF Refuse, Skip, historyVars, Results, TypesInv
    <2> QED
      BY <1>b, <2>1, <2>2, CallStepType DEF Refuse, TypesInv, scheduleVars
  <1>c. CASE Skipped(c)
    <2>1. call[c].on \in Schedules /\ "retired" \in Statuses /\ "come" \in Dues
      BY <1>c, OnIsSchedule DEF Skipped, Statuses, Dues
    <2>2. CallStep
      BY <1>c, LoopMove DEF Skipped
    <2>3. status' \in [Schedules -> Statuses] /\ due' \in [Schedules -> Dues]
      BY <1>c, <2>1, WriteType DEF Skipped
    <2> QED
      BY <1>c, <2>2, <2>3, CallStepType DEF Skipped, TypesInv, historyVars
  <1>d. CASE Delayed(c)
    <2>1. CallStep
      BY <1>d, LoopMove DEF Delayed
    <2>2. lastResult' \in [Schedules -> Results] /\ lastExecuted' \in [Schedules -> Results]
      BY <1>d DEF Delayed, Skip, historyVars, Results, TypesInv
    <2> QED
      BY <1>d, <2>1, <2>2, CallStepType DEF Delayed, TypesInv, scheduleVars
  <1>e. CASE Return(c)
    <2>1. CallStep
      BY <1>e, NoCallType DEF Return, Step, CallStep
    <2> QED
      BY <1>e, <2>1, CallStepType DEF Return, TypesInv, scheduleVars, historyVars
  <1>f. CASE Started(c)
    <2>1. call[c].on \in Schedules /\ "executing" \in Statuses /\ call[c].due \in Dues /\ "started" \in Places \ {"loop"}
      BY <1>f, OnIsSchedule DEF Started, Statuses, Places
    <2>2. CallStep
      BY <1>f, <2>1, PlaceMove DEF Started
    <2>3. status' \in [Schedules -> Statuses] /\ due' \in [Schedules -> Dues]
      BY <1>f, <2>1, WriteType DEF Started
    <2> QED
      BY <1>f, <2>2, <2>3, CallStepType DEF Started, TypesInv, historyVars
  <1>g. CASE Execute(c)
    <2>1. call[c].on \in Schedules /\ "running" \in Places \ {"loop"}
      BY <1>g, OnIsSchedule DEF Execute, Places
    <2>2. CallStep
      BY <1>g, <2>1, PlaceMove DEF Execute
    <2> QED
      BY <1>g, <2>2, CallStepType DEF Execute, TypesInv, scheduleVars, historyVars
  <1>h. CASE Succeed(c)
    <2>1. call[c].on \in Schedules /\ "completed" \in Statuses /\ call[c].due \in Dues /\ "completed" \in Places \ {"loop"}
      BY <1>h, OnIsSchedule DEF Succeed, Statuses, Places
    <2>2. CallStep
      BY <1>h, <2>1, PlaceMove DEF Succeed
    <2>3. status' \in [Schedules -> Statuses] /\ due' \in [Schedules -> Dues]
      BY <1>h, <2>1, WriteType DEF Succeed
    <2>4. lastResult' \in [Schedules -> Results] /\ lastExecuted' \in [Schedules -> Results]
      BY <1>h DEF Succeed, Record, Results, TypesInv
    <2> QED
      BY <1>h, <2>2, <2>3, <2>4, CallStepType DEF Succeed, TypesInv
  <1>i. ASSUME NEW t \in BOOLEAN, Fail(c, t) PROVE TypesInv'
    <2>1. call[c].on \in Schedules /\ "failed" \in Statuses /\ call[c].due \in Dues /\ "failed" \in Places \ {"loop"}
      BY <1>i, OnIsSchedule DEF Fail, Statuses, Places
    <2>2. CallStep
      BY <1>i, <2>1, PlaceMove DEF Fail
    <2>3. status' \in [Schedules -> Statuses] /\ due' \in [Schedules -> Dues]
      BY <1>i, <2>1, WriteType DEF Fail
    <2>4. lastResult' \in [Schedules -> Results] /\ lastExecuted' \in [Schedules -> Results]
      BY <1>i DEF Fail, Record, Results, TypesInv
    <2> QED
      BY <1>i, <2>2, <2>3, <2>4, CallStepType DEF Fail, TypesInv
  <1>j. CASE Completed(c)
    <2>1. CallStep
      BY <1>j, LoopMove DEF Completed
    <2>2. status' \in [Schedules -> Statuses] /\ due' \in [Schedules -> Dues]
      BY <1>j, RescheduleType DEF Completed
    <2> QED
      BY <1>j, <2>1, <2>2, CallStepType DEF Completed, TypesInv, historyVars
  <1>k. CASE GiveUp(c)
    <2>1. CallStep
      BY <1>k, LoopMove DEF GiveUp
    <2>2. status' \in [Schedules -> Statuses] /\ due' \in [Schedules -> Dues]
      BY <1>k, RescheduleType DEF GiveUp, scheduleVars, TypesInv
    <2> QED
      BY <1>k, <2>1, <2>2, CallStepType DEF GiveUp, TypesInv, historyVars
  <1>l. CASE Retry(c)
    <2>1. call[c].on \in Schedules /\ "retrying" \in Places \ {"loop"} /\ call[c].attempt + 1 \in Nat
      BY <1>l, OnIsSchedule DEF Retry, Places
    <2>2. CallStep
      BY <1>l, <2>1, PlaceMove DEF Retry
    <2> QED
      BY <1>l, <2>1, <2>2, CallStepType DEF Retry, TypesInv, scheduleVars, historyVars
  <1>m. CASE Retried(c)
    <2>1. call[c].on \in Schedules /\ "eligible" \in Statuses /\ "ahead" \in Dues
      BY <1>m, OnIsSchedule DEF Retried, Statuses, Dues
    <2>2. CallStep
      BY <1>m, LoopMove DEF Retried
    <2>3. status' \in [Schedules -> Statuses] /\ due' \in [Schedules -> Dues]
      BY <1>m, <2>1, WriteType DEF Retried
    <2> QED
      BY <1>m, <2>2, <2>3, CallStepType DEF Retried, TypesInv, historyVars
  <1> QED
    BY <1>a, <1>b, <1>c, <1>d, <1>e, <1>f, <1>g, <1>h, <1>i, <1>j, <1>k, <1>l, <1>m DEF Proceed

LEMMA RejectTypes == ASSUME TypesInv, NEW c \in Callers, PublishRejects(c) PROVE TypesInv'
  <1>1. CallStep
    BY NoCallType DEF PublishRejects, Step, CallStep
  <1> QED
    BY <1>1, CallStepType DEF PublishRejects, TypesInv, scheduleVars, historyVars

LEMMA StepTypes == ASSUME TypesInv, [Next]_vars PROVE TypesInv'
  <1>1. CASE UNCHANGED vars
    BY <1>1 DEF vars, scheduleVars, historyVars, TypesInv
  <1>2. ASSUME NEW s \in Schedules, RegisterSchedule(s) \/ TimeComes(s) \/ Control(s) \/ HandlerEnds(s)
        PROVE  TypesInv'
    <2>1. UNCHANGED call
      BY <1>2 DEF RegisterSchedule, TimeComes, Control, Pause, Resume, Cancel, HandlerEnds
    <2> QED
      BY <1>2, <2>1, QuietTypes DEF Quiet
  <1> QED
    BY <1>1, <1>2, CallsTypes, ProceedTypes, RejectTypes DEF Next

----------------------------------------------------------------------------
(* No schedule is stranded.  That some call works on it is not inductive: a   *)
(* call that gives up leaves the status that an overlapping one wrote.  What  *)
(* is: the call that wrote it last is still on its way to its end.            *)

Midway == {"scheduled", "executing", "completed"}
Ahead == {"triggered", "started", "running", "completed"}
Attended ==
  \A s \in Schedules : status[s] \in Midway => \E c \in Callers : call[c].on = s /\ call[c].at \in Ahead

LEMMA AttendedQuiet ==
  ASSUME TypesInv, Attended, Quiet
  PROVE  Attended'
  <1> PICK s \in Schedules : RegisterSchedule(s) \/ TimeComes(s) \/ Control(s) \/ HandlerEnds(s)
    BY DEF Quiet
  <1>1. \/ UNCHANGED status
        \/ \E st \in {"eligible", "paused", "cancelled"} : status' = [status EXCEPT ![s] = st]
    BY DEF RegisterSchedule, TimeComes, Control, Pause, Resume, Cancel, HandlerEnds, scheduleVars
  <1>2. \A x \in Schedules : status'[x] \in Midway => status[x] \in Midway
    BY <1>1 DEF Midway, TypesInv
  <1> QED
    BY <1>2 DEF Quiet, Attended

\* A call that is still ahead of its end afterwards, or that writes another status as it ends,
\* or that was not ahead before and writes nothing.
LEMMA AttendedMove ==
  ASSUME TypesInv, Attended, NEW c \in Callers, NEW on, NEW at, NEW n, Writes(c, on, at, n),
         \/ /\ at \in Ahead /\ on \in Schedules
            /\ UNCHANGED status \/ \E st \in Statuses : status' = [status EXCEPT ![on] = st]
            /\ call[c].at \in Ahead => call[c].on = on
         \/ /\ call[c].at # "loop"
            /\ \E st \in Statuses \ Midway : status' = [status EXCEPT ![call[c].on] = st]
         \/ call[c].at \notin Ahead /\ UNCHANGED status
  PROVE  Attended'
  <1>1. call'[c].on = on /\ call'[c].at = at /\ \A d \in Callers \ {c} : call'[d] = call[d]
    BY DEF Writes, Step, TypesInv
  <1> SUFFICES ASSUME NEW s \in Schedules, status'[s] \in Midway
               PROVE  \E d \in Callers : call'[d].on = s /\ call'[d].at \in Ahead
    BY DEF Attended
  <1>2. CASE /\ at \in Ahead /\ on \in Schedules
             /\ UNCHANGED status \/ \E st \in Statuses : status' = [status EXCEPT ![on] = st]
             /\ call[c].at \in Ahead => call[c].on = on
    <2>1. CASE s = on
      BY <1>1, <1>2, <2>1
    <2>2. CASE s # on
      <3>1. status[s] \in Midway
        BY <1>2, <2>2 DEF TypesInv
      <3>2. PICK d \in Callers : call[d].on = s /\ call[d].at \in Ahead
        BY <3>1 DEF Attended
      <3> QED
        BY <1>1, <1>2, <2>2, <3>2
    <2> QED
      BY <2>1, <2>2
  <1>3. CASE /\ call[c].at # "loop"
             /\ \E st \in Statuses \ Midway : status' = [status EXCEPT ![call[c].on] = st]
    <2>1. call[c].on \in Schedules
      BY <1>3, OnIsSchedule
    <2>2. s # call[c].on /\ status[s] \in Midway
      BY <1>3, <2>1 DEF TypesInv
    <2>3. PICK d \in Callers : call[d].on = s /\ call[d].at \in Ahead
      BY <2>2 DEF Attended
    <2> QED
      BY <1>1, <2>2, <2>3
  <1>4. CASE call[c].at \notin Ahead /\ UNCHANGED status
    <2>1. PICK d \in Callers : call[d].on = s /\ call[d].at \in Ahead
      BY <1>4 DEF Attended
    <2> QED
      BY <1>1, <1>4, <2>1
  <1> QED
    BY <1>2, <1>3, <1>4

LEMMA LoopWrites ==
  ASSUME TypesInv, NEW c \in Callers, Step(c, Loop(c)) \/ Step(c, NoCall)
  PROVE  Writes(c, None, "loop", 0)
  <1>1. Loop(c).attempt = 0 /\ NoCall.attempt = 0
    BY DEF Loop, NoCall
  <1> QED
    BY <1>1, LoopType, NoCallType DEF Writes

LEMMA AttendedProceed ==
  ASSUME TypesInv, Attended, NEW c \in Callers, Proceed(c)
  PROVE  Attended'
  <1>a. ASSUME NEW s \in Schedules, Begin(c, s) PROVE Attended'
    <2>1. Writes(c, s, "triggered", Attempt(s))
      BY <1>a, BeginWrites
    <2>2. status' = [status EXCEPT ![s] = "scheduled"] /\ call[c].at = "loop"
      BY <1>a DEF Begin, Write, InLoop
    <2>3. "scheduled" \in Statuses /\ "triggered" \in Ahead /\ "loop" \notin Ahead
      BY DEF Statuses, Ahead
    <2> QED
      BY <2>1, <2>2, <2>3, AttendedMove
  <1>b. ASSUME NEW s \in Schedules, Refuse(c, s) PROVE Attended'
    <2>1. call[c].at \notin Ahead /\ UNCHANGED status
      BY <1>b DEF Refuse, InLoop, Ahead, scheduleVars
    <2> QED
      BY <1>b, <2>1, RefuseWrites, AttendedMove
  <1>c. CASE Skipped(c) \/ Completed(c) \/ Retried(c)
    <2>1. Writes(c, None, "loop", 0) /\ call[c].at # "loop"
      BY <1>c, LoopWrites DEF Skipped, Completed, Retried
    <2>2. \E st \in {"retired", "eligible"} : status' = [status EXCEPT ![call[c].on] = st]
      BY <1>c, RescheduleType DEF Skipped, Completed, Retried, Write
    <2>3. \E st \in Statuses \ Midway : status' = [status EXCEPT ![call[c].on] = st]
      BY <2>2 DEF Statuses, Midway
    <2> QED
      BY <2>1, <2>3, AttendedMove
  <1>d. CASE Delayed(c) \/ Return(c)
    <2>1. Writes(c, None, "loop", 0)
      BY <1>d, LoopWrites DEF Delayed, Return
    <2>2. call[c].at \notin Ahead /\ UNCHANGED status
      BY <1>d DEF Delayed, Return, Ahead, scheduleVars
    <2> QED
      BY <2>1, <2>2, AttendedMove
  <1>e. CASE Started(c) \/ Execute(c) \/ Succeed(c)
    <2>1. PICK p \in {"started", "running", "completed"} : Step(c, [call[c] EXCEPT !.at = p])
      BY <1>e DEF Started, Execute, Succeed
    <2>2. p \in Places /\ p \in Ahead
      BY DEF Places, Ahead
    <2>3. \/ UNCHANGED status
          \/ \E st \in {"executing", "completed"} : status' = [status EXCEPT ![call[c].on] = st]
      BY <1>e DEF Started, Execute, Succeed, Write, scheduleVars
    <2>4. UNCHANGED status \/ \E st \in Statuses : status' = [status EXCEPT ![call[c].on] = st]
      BY <2>3 DEF Statuses
    <2>5. call[c].on \in Schedules
      BY <1>e, OnIsSchedule DEF Started, Execute, Succeed
    <2>6. Writes(c, call[c].on, p, call[c].attempt)
      BY <2>1, <2>2, PlaceWrites
    <2> QED
      BY <2>2, <2>4, <2>5, <2>6, AttendedMove
  <1>f. ASSUME NEW t \in BOOLEAN, Fail(c, t) PROVE Attended'
    <2>1. call[c].at # "loop" /\ status' = [status EXCEPT ![call[c].on] = "failed"]
      BY <1>f DEF Fail, Write
    <2>2. "failed" \in Statuses \ Midway
      BY DEF Statuses, Midway
    <2>3. Writes(c, call[c].on, "failed", call[c].attempt)
      BY <1>f, PlaceWrites DEF Fail, Places
    <2> QED
      BY <2>1, <2>2, <2>3, AttendedMove
  <1>g. CASE GiveUp(c)
    <2>1. Writes(c, None, "loop", 0) /\ call[c].at = "failed"
      BY <1>g, LoopWrites DEF GiveUp
    <2>2. UNCHANGED status \/ \E st \in {"retired", "eligible"} : status' = [status EXCEPT ![call[c].on] = st]
      BY <1>g, RescheduleType DEF GiveUp, scheduleVars
    <2>3. UNCHANGED status \/ \E st \in Statuses \ Midway : status' = [status EXCEPT ![call[c].on] = st]
      BY <2>2 DEF Statuses, Midway
    <2> QED
      BY <2>1, <2>3, AttendedMove DEF Ahead
  <1>h. CASE Retry(c)
    <2>1. Writes(c, call[c].on, "retrying", call[c].attempt)
      BY <1>h, PlaceWrites DEF Retry, Places
    <2>2. call[c].at \notin Ahead /\ UNCHANGED status
      BY <1>h DEF Retry, scheduleVars, Ahead
    <2> QED
      BY <2>1, <2>2, AttendedMove
  <1> QED
    BY <1>a, <1>b, <1>c, <1>d, <1>e, <1>f, <1>g, <1>h DEF Proceed

LEMMA AttendedCalls ==
  ASSUME TypesInv, Attended, NEW c \in Callers, Calls(c)
  PROVE  Attended'
  <1>1. CASE CallTick(c) \/ CallNotifyEvent(c)
    <2>1. call[c].at \notin Ahead /\ UNCHANGED status
      BY <1>1, NoCallType DEF CallTick, CallNotifyEvent, scheduleVars, Ahead
    <2> QED
      BY <1>1, <2>1, CallWrites, AttendedMove
  <1>2. ASSUME NEW s \in Schedules, TriggerManually(c, s) PROVE Attended'
    <2>1. call[c].at = "loop" /\ status' = [status EXCEPT ![s] = "scheduled"]
      BY <1>2, NoCallType DEF TriggerManually, Write
    <2>2. "scheduled" \in Statuses /\ "triggered" \in Ahead /\ "loop" \notin Ahead
      BY DEF Statuses, Ahead
    <2> QED
      BY <1>2, <2>1, <2>2, TriggerWrites, AttendedMove
  <1> QED
    BY <1>1, <1>2 DEF Calls

LEMMA StepAttended ==
  ASSUME ~PublishFails, TypesInv, Attended, [Next]_vars
  PROVE  Attended'
  <1>1. CASE UNCHANGED vars
    BY <1>1 DEF vars, scheduleVars, Attended
  <1>2. ASSUME NEW s \in Schedules, RegisterSchedule(s) \/ TimeComes(s) \/ Control(s) \/ HandlerEnds(s)
        PROVE  Attended'
    <2>1. UNCHANGED call
      BY <1>2 DEF RegisterSchedule, TimeComes, Control, Pause, Resume, Cancel, HandlerEnds
    <2> QED
      BY <1>2, <2>1, AttendedQuiet DEF Quiet
  <1>3. ASSUME NEW c \in Callers PROVE ~PublishRejects(c)
    BY DEF PublishRejects
  <1> QED
    BY <1>1, <1>2, <1>3, AttendedCalls, AttendedProceed DEF Next

----------------------------------------------------------------------------
(* Attempts are numbered within the policy, although their count outlives     *)
(* the calls that use it.                                                      *)

Most(s) == IF MaxAttempts[s] = 0 THEN 1 ELSE MaxAttempts[s]

LEMMA AttemptWithin ==
  ASSUME TypesInv, AttemptsBounded, NEW s \in Schedules
  PROVE  Attempt(s) <= Most(s) /\ 1 <= Most(s)
  <1>1. attemptCounts[s] \in Nat /\ MaxAttempts[s] \in Nat /\ attemptCounts[s] <= MaxAttempts[s]
    BY SchedulingAssumption DEF TypesInv, AttemptsBounded
  <1> QED
    BY <1>1 DEF Attempt, Most

\* Counts are reset or kept, and the call gets an attempt within the policy.
LEMMA BoundedMove ==
  ASSUME TypesInv, AttemptsBounded, NEW c \in Callers, NEW on, NEW at, NEW n, Writes(c, on, at, n),
         on = None \/ (on \in Schedules /\ n <= Most(on)),
         \A s \in Schedules : attemptCounts'[s] <= MaxAttempts[s]
  PROVE  AttemptsBounded'
  <1>1. call'[c].on = on /\ call'[c].attempt = n /\ \A d \in Callers \ {c} : call'[d] = call[d]
    BY DEF Writes, Step, TypesInv
  <1> QED
    BY <1>1 DEF AttemptsBounded, Most

LEMMA CountsKept ==
  ASSUME TypesInv, AttemptsBounded,
         UNCHANGED attemptCounts \/ \E s \in Schedules : attemptCounts' = [attemptCounts EXCEPT ![s] = 0]
  PROVE  \A s \in Schedules : attemptCounts'[s] <= MaxAttempts[s]
  <1>1. \A s \in Schedules : attemptCounts[s] <= MaxAttempts[s] /\ 0 <= MaxAttempts[s]
    BY SchedulingAssumption DEF AttemptsBounded
  <1>2. \A s \in Schedules : attemptCounts'[s] = attemptCounts[s] \/ attemptCounts'[s] = 0
    BY DEF TypesInv
  <1> QED
    BY <1>1, <1>2

LEMMA OnWithin ==
  ASSUME TypesInv, AttemptsBounded, NEW c \in Callers, call[c].at # "loop"
  PROVE  call[c].on \in Schedules /\ call[c].attempt <= Most(call[c].on)
  <1>1. call[c].on \in Schedules /\ call[c].on # None
    BY OnIsSchedule, SchedulingAssumption
  <1> QED
    BY <1>1 DEF AttemptsBounded, Most

LEMMA BoundedProceed ==
  ASSUME TypesInv, AttemptsBounded, NEW c \in Callers, Proceed(c) \/ PublishRejects(c)
  PROVE  AttemptsBounded'
  <1>a. ASSUME NEW s \in Schedules, Begin(c, s) PROVE AttemptsBounded'
    <2>1. Writes(c, s, "triggered", Attempt(s)) /\ Attempt(s) <= Most(s)
      BY <1>a, BeginWrites, AttemptWithin
    <2>2. \A x \in Schedules : attemptCounts'[x] <= MaxAttempts[x]
      BY <1>a, CountsKept DEF Begin
    <2> QED
      BY <2>1, <2>2, BoundedMove
  <1>b. ASSUME NEW s \in Schedules, Refuse(c, s) PROVE AttemptsBounded'
    <2>1. PICK p \in {"skipping", "delaying"} : Writes(c, s, p, 0)
      BY <1>b, RefuseWrites
    <2>2. 0 <= Most(s)
      BY SchedulingAssumption DEF Most
    <2>3. \A x \in Schedules : attemptCounts'[x] <= MaxAttempts[x]
      BY <1>b, CountsKept DEF Refuse
    <2> QED
      BY <2>1, <2>2, <2>3, BoundedMove
  <1>c. CASE Skipped(c) \/ Delayed(c) \/ Return(c) \/ Completed(c) \/ GiveUp(c) \/ Retried(c) \/ PublishRejects(c)
    <2>1. Writes(c, None, "loop", 0)
      BY <1>c, LoopWrites DEF Skipped, Delayed, Return, Completed, GiveUp, Retried, PublishRejects
    <2>2. UNCHANGED attemptCounts \/ \E s \in Schedules : attemptCounts' = [attemptCounts EXCEPT ![s] = 0]
      <3>1. CASE GiveUp(c)
        BY <3>1, OnIsSchedule DEF GiveUp
      <3> QED
        BY <1>c, <3>1 DEF Skipped, Delayed, Return, Completed, Retried, PublishRejects
    <2> QED
      BY <2>1, <2>2, CountsKept, BoundedMove
  <1>d. CASE Started(c) \/ Execute(c) \/ Succeed(c) \/ \E t \in BOOLEAN : Fail(c, t)
    <2>1. PICK p \in {"started", "running", "completed", "failed"} : Step(c, [call[c] EXCEPT !.at = p])
      BY <1>d DEF Started, Execute, Succeed, Fail
    <2>2. call[c].at # "loop" /\ p \in Places
      BY <1>d DEF Started, Execute, Succeed, Fail, Places
    <2>3. UNCHANGED attemptCounts \/ \E s \in Schedules : attemptCounts' = [attemptCounts EXCEPT ![s] = 0]
      BY <1>d, <2>2, OnIsSchedule DEF Started, Execute, Succeed, Fail
    <2>4. Writes(c, call[c].on, p, call[c].attempt)
      BY <2>1, <2>2, PlaceWrites
    <2> QED
      BY <2>2, <2>3, <2>4, OnWithin, CountsKept, BoundedMove
  <1>e. CASE Retry(c)
    <2>1. Writes(c, call[c].on, "retrying", call[c].attempt) /\ call[c].at # "loop"
      BY <1>e, PlaceWrites DEF Retry, Places
    <2>2. call[c].on \in Schedules /\ call[c].attempt \in Nat /\ MaxAttempts[call[c].on] \in Nat
      BY <2>1, OnIsSchedule, SchedulingAssumption
    <2>3. call[c].attempt + 1 <= MaxAttempts[call[c].on]
      BY <1>e, <2>2 DEF Retry, Exhausted
    <2>4. \A s \in Schedules : attemptCounts'[s] <= MaxAttempts[s]
      BY <1>e, <2>2, <2>3 DEF Retry, TypesInv, AttemptsBounded
    <2> QED
      BY <2>1, <2>4, OnWithin, BoundedMove
  <1> QED
    BY <1>a, <1>b, <1>c, <1>d, <1>e DEF Proceed

LEMMA BoundedCalls ==
  ASSUME TypesInv, AttemptsBounded, NEW c \in Callers, Calls(c)
  PROVE  AttemptsBounded'
  <1>1. CASE CallTick(c) \/ CallNotifyEvent(c)
    <2>1. UNCHANGED attemptCounts
      BY <1>1 DEF CallTick, CallNotifyEvent
    <2> QED
      BY <1>1, <2>1, CallWrites, CountsKept, BoundedMove
  <1>2. ASSUME NEW s \in Schedules, TriggerManually(c, s) PROVE AttemptsBounded'
    <2>1. attemptCounts' = [attemptCounts EXCEPT ![s] = 0]
      BY <1>2 DEF TriggerManually
    <2> QED
      BY <1>2, <2>1, TriggerWrites, AttemptWithin, CountsKept, BoundedMove
  <1> QED
    BY <1>1, <1>2 DEF Calls

LEMMA StepBounded ==
  ASSUME TypesInv, AttemptsBounded, [Next]_vars
  PROVE  AttemptsBounded'
  <1>1. CASE UNCHANGED vars
    BY <1>1 DEF vars, AttemptsBounded
  <1>2. ASSUME NEW s \in Schedules, RegisterSchedule(s) \/ TimeComes(s) \/ Control(s) \/ HandlerEnds(s)
        PROVE  AttemptsBounded'
    <2>1. UNCHANGED call
      BY <1>2 DEF RegisterSchedule, TimeComes, Control, Pause, Resume, Cancel, HandlerEnds
    <2>2. UNCHANGED attemptCounts \/ attemptCounts' = [attemptCounts EXCEPT ![s] = 0]
      BY <1>2 DEF RegisterSchedule, TimeComes, Control, Pause, Resume, Cancel, HandlerEnds
    <2>3. \A x \in Schedules : attemptCounts'[x] <= MaxAttempts[x]
      BY <2>2, CountsKept
    <2> QED
      BY <2>1, <2>3 DEF AttemptsBounded
  <1> QED
    BY <1>1, <1>2, BoundedCalls, BoundedProceed DEF Next

----------------------------------------------------------------------------
(* live is a count: as many as calls run a schedule's handler, and those that *)
(* nobody waits for any more.                                                  *)

RunningOn(s) == {c \in Callers : call[c].at = "running" /\ call[c].on = s}
Counted ==
  /\ live \in [Schedules -> Nat]
  /\ \A s \in Schedules : Cardinality(RunningOn(s)) <= live[s]

LEMMA RunningFinite ==
  ASSUME NEW s
  PROVE  IsFiniteSet(RunningOn(s)) /\ Cardinality(RunningOn(s)) \in Nat
  <1>1. IsFiniteSet(Callers) /\ RunningOn(s) \in SUBSET Callers
    BY SchedulingAssumption DEF RunningOn
  <1>2. IsFiniteSet(RunningOn(s))
    BY <1>1, FS_Subset
  <1> QED
    BY <1>2, FS_CardinalityType

LEMMA CountedElsewhere ==
  ASSUME TypesInv, Counted, NEW c \in Callers, NEW on, NEW at, NEW n, Writes(c, on, at, n),
         call[c].at # "running", at # "running", UNCHANGED live
  PROVE  Counted'
  <1>1. call'[c].at = at /\ \A d \in Callers \ {c} : call'[d] = call[d]
    BY DEF Writes, Step, TypesInv
  <1>2. \A s : RunningOn(s)' = RunningOn(s)
    BY <1>1 DEF RunningOn
  <1> QED
    BY <1>2 DEF Counted

LEMMA CountedExecute ==
  ASSUME TypesInv, Counted, NEW c \in Callers, Execute(c)
  PROVE  Counted'
  <1>1. PICK s \in Schedules : call[c].on = s
    BY OnIsSchedule DEF Execute
  <1>2. Writes(c, s, "running", call[c].attempt) /\ call[c].at = "started"
    BY <1>1, PlaceWrites DEF Execute, Places
  <1>3. call'[c].at = "running" /\ call'[c].on = s /\ \A d \in Callers \ {c} : call'[d] = call[d]
    BY <1>2 DEF Writes, Step, TypesInv
  <1>4. RunningOn(s)' = RunningOn(s) \cup {c} /\ c \notin RunningOn(s)
    BY <1>2, <1>3 DEF RunningOn
  <1>5. \A x \in Schedules \ {s} : RunningOn(x)' = RunningOn(x)
    BY <1>2, <1>3 DEF RunningOn
  <1>6. Cardinality(RunningOn(s)') = Cardinality(RunningOn(s)) + 1 /\ Cardinality(RunningOn(s)) \in Nat
    BY <1>4, RunningFinite, FS_AddElement
  <1>7. live' = [live EXCEPT ![s] = @ + 1]
    BY <1>1 DEF Execute
  <1>8. \A x \in Schedules : Cardinality(RunningOn(x)') <= live'[x]
    BY <1>5, <1>6, <1>7 DEF Counted
  <1> QED
    BY <1>7, <1>8 DEF Counted

LEMMA CountedEnds ==
  ASSUME TypesInv, Counted, NEW c \in Callers, call[c].at = "running",
         NEW at \in {"completed", "failed"}, Step(c, [call[c] EXCEPT !.at = at]),
         UNCHANGED live \/ live' = [live EXCEPT ![call[c].on] = @ - 1]
  PROVE  Counted'
  <1>1. PICK s \in Schedules : call[c].on = s
    BY OnIsSchedule
  <1>2. Writes(c, s, at, call[c].attempt)
    BY <1>1, PlaceWrites DEF Places
  <1>3. call'[c].at = at /\ \A d \in Callers \ {c} : call'[d] = call[d]
    BY <1>2 DEF Writes, Step, TypesInv
  <1>4. RunningOn(s)' = RunningOn(s) \ {c} /\ c \in RunningOn(s)
    BY <1>1, <1>3 DEF RunningOn
  <1>5. \A x \in Schedules \ {s} : RunningOn(x)' = RunningOn(x)
    BY <1>1, <1>3 DEF RunningOn
  <1>6. IsFiniteSet(RunningOn(s)') /\ Cardinality(RunningOn(s)') = Cardinality(RunningOn(s)) - 1
    BY <1>4, RunningFinite, FS_RemoveElement
  <1>7. Cardinality(RunningOn(s)') \in Nat /\ Cardinality(RunningOn(s)) \in Nat
    BY <1>6, RunningFinite, FS_CardinalityType
  <1>8. UNCHANGED live \/ live' = [live EXCEPT ![s] = @ - 1]
    BY <1>1
  <1>9. live[s] \in Nat /\ Cardinality(RunningOn(s)) <= live[s]
    BY DEF Counted
  <1>10. live' \in [Schedules -> Nat]
    BY <1>6, <1>7, <1>8, <1>9 DEF Counted
  <1>11. \A x \in Schedules : Cardinality(RunningOn(x)') <= live'[x]
    BY <1>5, <1>6, <1>7, <1>8, <1>9 DEF Counted
  <1> QED
    BY <1>10, <1>11 DEF Counted

LEMMA StepCounted ==
  ASSUME TypesInv, Counted, [Next]_vars
  PROVE  Counted'
  <1>1. CASE UNCHANGED vars
    BY <1>1 DEF vars, Counted, RunningOn
  <1>2. ASSUME NEW s \in Schedules, RegisterSchedule(s) \/ TimeComes(s) \/ Control(s)
        PROVE  Counted'
    BY <1>2 DEF RegisterSchedule, TimeComes, Control, Pause, Resume, Cancel, Counted, RunningOn
  <1>3. ASSUME NEW s \in Schedules, HandlerEnds(s)
        PROVE  Counted'
    <2>1. live' = [live EXCEPT ![s] = @ - 1] /\ live[s] > Cardinality(RunningOn(s)) /\ UNCHANGED call
      BY <1>3 DEF HandlerEnds, Abandoned, RunningOn
    <2>2. \A x : RunningOn(x)' = RunningOn(x)
      BY <2>1 DEF RunningOn
    <2> QED
      BY <2>1, <2>2, RunningFinite DEF Counted
  <1>4. ASSUME NEW c \in Callers, Calls(c)
        PROVE  Counted'
    <2>1. UNCHANGED live /\ call[c].at # "running"
      BY <1>4, NoCallType DEF Calls, CallTick, CallNotifyEvent, TriggerManually
    <2>2. (\E s \in Schedules : Writes(c, s, "triggered", 1)) \/ Writes(c, None, "loop", 0)
      BY <1>4, CallWrites, TriggerWrites DEF Calls
    <2> QED
      BY <2>1, <2>2, CountedElsewhere
  <1>5. ASSUME NEW c \in Callers, Proceed(c) \/ PublishRejects(c)
        PROVE  Counted'
    <2>1. CASE Execute(c)
      BY <2>1, CountedExecute
    <2>2. CASE Succeed(c)
      BY <2>2, CountedEnds DEF Succeed
    <2>3. ASSUME NEW t \in BOOLEAN, Fail(c, t) PROVE Counted'
      BY <2>3, CountedEnds DEF Fail
    <2>4. ASSUME NEW s \in Schedules, Begin(c, s) PROVE Counted'
      BY <2>4, BeginWrites, CountedElsewhere DEF Begin, InLoop
    <2>5. ASSUME NEW s \in Schedules, Refuse(c, s) PROVE Counted'
      <3>1. PICK p \in {"skipping", "delaying"} : Writes(c, s, p, 0)
        BY <2>5, RefuseWrites
      <3> QED
        BY <2>5, <3>1, CountedElsewhere DEF Refuse, InLoop
    <2>6. CASE Skipped(c) \/ Delayed(c) \/ Return(c) \/ Completed(c) \/ GiveUp(c) \/ Retried(c) \/ PublishRejects(c)
      <3>1. Writes(c, None, "loop", 0)
        BY <2>6, LoopWrites DEF Skipped, Delayed, Return, Completed, GiveUp, Retried, PublishRejects
      <3>2. call[c].at # "running" /\ UNCHANGED live
        BY <2>6 DEF Skipped, Delayed, Return, Completed, GiveUp, Retried, PublishRejects
      <3> QED
        BY <3>1, <3>2, CountedElsewhere
    <2>7. CASE Started(c) \/ Retry(c)
      <3>1. PICK p \in {"started", "retrying"} : Step(c, [call[c] EXCEPT !.at = p])
        BY <2>7 DEF Started, Retry
      <3>2. Writes(c, call[c].on, p, call[c].attempt)
        BY <3>1, PlaceWrites DEF Places
      <3>3. call[c].at # "running" /\ UNCHANGED live
        BY <2>7 DEF Started, Retry
      <3> QED
        BY <3>2, <3>3, CountedElsewhere
    <2> QED
      BY <1>5, <2>1, <2>2, <2>3, <2>4, <2>5, <2>6, <2>7 DEF Proceed
  <1> QED
    BY <1>1, <1>2, <1>3, <1>4, <1>5 DEF Next

----------------------------------------------------------------------------
LEMMA InitFacts == Init => TypesInv /\ Attended /\ AttemptsBounded /\ Counted
  <1> SUFFICES ASSUME Init PROVE TypesInv /\ Attended /\ AttemptsBounded /\ Counted
    OBVIOUS
  <1>1. TypesInv
    BY NoCallType DEF Init, TypesInv, Statuses, Dues, Results
  <1>2. Attended
    BY DEF Init, Attended, Midway
  <1>3. AttemptsBounded
    BY NoCallType, SchedulingAssumption DEF Init, AttemptsBounded
  <1>4. \A s \in Schedules : RunningOn(s) = {} /\ Cardinality(RunningOn(s)) = 0
    <2>1. \A s \in Schedules : RunningOn(s) = {}
      BY NoCallType DEF Init, RunningOn
    <2> QED
      BY <2>1, FS_EmptySet
  <1>5. Counted
    BY <1>4 DEF Init, Counted
  <1> QED
    BY <1>1, <1>2, <1>3, <1>5

IInv == TypesInv /\ AttemptsBounded /\ Counted

LEMMA IInvHolds == Spec => []IInv
  <1>1. Init => IInv
    BY InitFacts DEF IInv
  <1>2. IInv /\ [Next]_vars => IInv'
    BY StepTypes, StepBounded, StepCounted DEF IInv
  <1> QED
    BY <1>1, <1>2, PTL DEF Spec

\* Every variable keeps its type; above all, live never falls below zero although
\* a call that timed out and the handler it left behind each end an invocation.
THEOREM TypeCorrect == Spec => []TypeOK
  <1>1. IInv => TypeOK
    BY DEF IInv, TypesInv, Counted, TypeOK, Call
  <1> QED
    BY <1>1, IInvHolds, PTL

\* However calls overlap, no attempt is numbered beyond its schedule's policy,
\* whether or not publishes reject.
THEOREM AttemptsStayBounded == Spec => []AttemptsBounded
  <1>1. IInv => AttemptsBounded
    BY DEF IInv
  <1> QED
    BY <1>1, IInvHolds, PTL

\* Where publishes do not reject, no overlap of calls, pauses and cancellations
\* leaves a schedule midway without a call that works on it.
THEOREM NeverStranded == ASSUME ~PublishFails PROVE Spec => []NoneStranded
  <1>1. Init => IInv /\ Attended
    BY InitFacts DEF IInv
  <1>2. IInv /\ Attended /\ [Next]_vars => (IInv /\ Attended)'
    BY StepTypes, StepBounded, StepCounted, StepAttended DEF IInv
  <1>3. Attended => NoneStranded
    BY DEF Attended, NoneStranded, WorksOn, Midway, Ahead
  <1> QED
    BY <1>1, <1>2, <1>3, PTL DEF Spec

----------------------------------------------------------------------------
(* A single caller.  Nothing is recorded between the look at the dependencies *)
(* and the start of the handler, since only the call itself records.          *)

IsCall(f) == f = [k \in {"op", "todo", "at", "on", "due", "attempt"} |-> f[k]]
Begun == {"triggered", "started"}

\* What is on its way to its handler has seen its dependencies succeed; what was recorded last of a
\* schedule as a success is its last execution.
Cleared(f, results) ==
  f.at \in Begun /\ f.op # "manual" => f.on \in Dependents /\ \A d \in DDependsOn[f.on] : results[d] = "success"
Recorded(results, executed) ==
  /\ results = [s \in Dependents |-> results[s]] /\ executed = [s \in Dependents |-> executed[s]]
  /\ \A s \in Dependents : results[s] = "success" => executed[s] = "success"
Counting(running) == running \in [Dependents -> Int]

SoleInv ==
  /\ dCall = [c \in {Caller} |-> dCall[c]] /\ IsCall(dCall[Caller])
  /\ Cleared(dCall[Caller], dLastResult) /\ Recorded(dLastResult, dLastExecuted) /\ Counting(dLive)

LEMMA NoCallOf == IsCall(D!NoCall) /\ D!NoCall.at = "loop"
  BY DEF IsCall, D!NoCall

LEMMA FieldOf ==
  ASSUME NEW f, IsCall(f), NEW i \in {"op", "todo", "at", "on", "due", "attempt"}, NEW a, NEW g, g = [f EXCEPT ![i] = a]
  PROVE  IsCall(g) /\ g[i] = a /\ \A k \in {"op", "todo", "at", "on", "due", "attempt"} \ {i} : g[k] = f[k]
  BY DEF IsCall

LEMMA PlaceOf ==
  ASSUME NEW f, IsCall(f), NEW a, NEW g, g = [f EXCEPT !.at = a]
  PROVE  IsCall(g) /\ g.op = f.op /\ g.at = a /\ g.on = f.on
  <1>1. IsCall(g) /\ g["at"] = a /\ \A k \in {"op", "todo", "at", "on", "due", "attempt"} \ {"at"} : g[k] = f[k]
    BY FieldOf
  <1> QED
    BY <1>1

LEMMA VisitOf ==
  ASSUME NEW s, IsCall(dCall[Caller]), NEW a, NEW g, g = [D!Visit(Caller, s) EXCEPT !.at = a]
  PROVE  IsCall(g) /\ g.at = a /\ g.on = s
  <1>1. IsCall(D!Visit(Caller, s)) /\ D!Visit(Caller, s).on = s
    BY DEF IsCall, D!Visit
  <1> QED
    BY <1>1, PlaceOf

LEMMA BeginOf ==
  ASSUME NEW s, IsCall(dCall[Caller]), NEW x, NEW n, NEW g, g = [D!Visit(Caller, s) EXCEPT !.at = "triggered", !.due = x, !.attempt = n]
  PROVE  IsCall(g) /\ g.on = s
  <1>1. IsCall(D!Visit(Caller, s)) /\ D!Visit(Caller, s).on = s
    BY DEF IsCall, D!Visit
  <1> QED
    BY <1>1 DEF IsCall

LEMMA LoopOf == IsCall(D!Loop(Caller)) /\ D!Loop(Caller).at = "loop"
  BY NoCallOf DEF IsCall, D!Loop

\* The call that a step makes of the one under way.
LEMMA StepOf ==
  ASSUME SoleInv, NEW f, D!Step(Caller, f)
  PROVE  dCall' = [c \in {Caller} |-> dCall'[c]] /\ dCall'[Caller] = f
  BY DEF SoleInv, D!Step

\* The call goes to a place that is not on the way to a handler, whatever it records.
LEMMA Elsewhere ==
  ASSUME SoleInv, NEW f, IsCall(f), f.at \notin Begun, D!Step(Caller, f), Recorded(dLastResult', dLastExecuted'), Counting(dLive')
  PROVE  SoleInv'
  BY StepOf DEF SoleInv, Cleared

LEMMA RecordedAs ==
  ASSUME SoleInv, NEW s, NEW r, D!Record(s, r)
  PROVE  Recorded(dLastResult', dLastExecuted')
  BY DEF SoleInv, Recorded, D!Record

LEMMA SkippedAs ==
  ASSUME SoleInv, NEW s, D!Skip(s)
  PROVE  Recorded(dLastResult', dLastExecuted')
  BY DEF SoleInv, Recorded, D!Skip

LEMMA CountedBy ==
  ASSUME SoleInv, NEW s, NEW k \in Int, dLive' = [dLive EXCEPT ![s] = @ + k] \/ dLive' = [dLive EXCEPT ![s] = @ - k]
  PROVE  Counting(dLive')
  BY DEF SoleInv, Counting

LEMMA SoleStarts == D!Init => SoleInv
  <1> SUFFICES ASSUME D!Init PROVE SoleInv
    OBVIOUS
  <1>1. dCall = [c \in {Caller} |-> dCall[c]] /\ dCall[Caller] = D!NoCall
    BY DEF D!Init
  <1>2. IsCall(dCall[Caller]) /\ Cleared(dCall[Caller], dLastResult)
    BY <1>1, NoCallOf DEF Cleared, Begun
  <1> QED
    BY <1>1, <1>2 DEF D!Init, SoleInv, Recorded, Counting, D!None

LEMMA SoleQuiet ==
  ASSUME SoleInv, UNCHANGED <<dLastResult, dLastExecuted, dCall>>, Counting(dLive')
  PROVE  SoleInv'
  BY DEF SoleInv, Recorded, Cleared

LEMMA SoleControls ==
  ASSUME SoleInv, NEW s \in Dependents, D!RegisterSchedule(s) \/ D!TimeComes(s) \/ D!Control(s) \/ D!HandlerEnds(s)
  PROVE  SoleInv'
  <1>1. CASE D!HandlerEnds(s)
    <2>1. dLive' = [dLive EXCEPT ![s] = @ - 1] /\ UNCHANGED <<dLastResult, dLastExecuted, dCall>>
      BY <1>1 DEF D!HandlerEnds, D!historyVars
    <2>2. Counting(dLive')
      BY <2>1 DEF SoleInv, Counting
    <2> QED
      BY <2>1, <2>2, SoleQuiet
  <1>2. CASE D!RegisterSchedule(s) \/ D!TimeComes(s) \/ D!Control(s)
    <2>1. UNCHANGED <<dLastResult, dLastExecuted, dCall, dLive>>
      BY <1>2 DEF D!RegisterSchedule, D!TimeComes, D!Control, D!Pause, D!Resume, D!Cancel, D!historyVars
    <2> QED
      BY <2>1, SoleQuiet DEF SoleInv
  <1> QED
    BY <1>1, <1>2

LEMMA SoleCalls ==
  ASSUME SoleInv, D!Calls(Caller)
  PROVE  SoleInv'
  <1>1. UNCHANGED <<dLastResult, dLastExecuted, dLive>>
    BY DEF D!Calls, D!CallTick, D!CallNotifyEvent, D!TriggerManually, D!historyVars
  <1>2. Recorded(dLastResult', dLastExecuted') /\ Counting(dLive')
    BY <1>1 DEF SoleInv
  <1>3. CASE D!CallTick(Caller) \/ D!CallNotifyEvent(Caller)
    <2>1. PICK f : D!Step(Caller, f) /\ IsCall(f) /\ f.at = "loop"
      <3>1. ASSUME NEW o, NEW t, NEW f, f = [D!NoCall EXCEPT !.op = o, !.todo = t] PROVE IsCall(f) /\ f.at = "loop"
        BY <3>1, NoCallOf DEF IsCall
      <3> QED
        BY <1>3, <3>1 DEF D!CallTick, D!CallNotifyEvent
    <2> QED
      BY <1>2, <2>1, Elsewhere DEF Begun
  <1>4. ASSUME NEW s \in Dependents, D!TriggerManually(Caller, s) PROVE SoleInv'
    <2>1. PICK f : D!Step(Caller, f) /\ f = [D!NoCall EXCEPT !.op = "manual", !.at = "triggered", !.on = s, !.due = dDue[s], !.attempt = 1]
      BY <1>4 DEF D!TriggerManually
    <2>3. IsCall(f) /\ f.op = "manual"
      BY <2>1, NoCallOf DEF IsCall
    <2> QED
      BY <1>2, <2>1, <2>3, StepOf DEF SoleInv, Cleared
  <1> QED
    BY <1>3, <1>4 DEF D!Calls

LEMMA SoleProceeds ==
  ASSUME SoleInv, D!Proceed(Caller)
  PROVE  SoleInv'
  <1>0. IsCall(dCall[Caller]) /\ Recorded(dLastResult, dLastExecuted) /\ Counting(dLive)
    BY DEF SoleInv
  <1>1. ASSUME NEW s \in Dependents, D!Begin(Caller, s) PROVE SoleInv'
    <2>1. PICK x, f : D!Step(Caller, f) /\ f = [D!Visit(Caller, s) EXCEPT !.at = "triggered", !.due = x, !.attempt = D!Attempt(s)]
      BY <1>1 DEF D!Begin
    <2>2. IsCall(f) /\ f.on = s
      BY <1>0, <2>1, BeginOf
    <2>3. D!DependenciesMet(s) /\ UNCHANGED <<dLastResult, dLastExecuted, dLive>>
      BY <1>1 DEF D!Begin, D!historyVars
    <2>4. Cleared(f, dLastResult')
      BY <2>2, <2>3 DEF Cleared, D!DependenciesMet
    <2> QED
      BY <1>0, <2>1, <2>2, <2>3, <2>4, StepOf DEF SoleInv
  <1>2. ASSUME NEW s \in Dependents, D!Refuse(Caller, s) PROVE SoleInv'
    <2>1. PICK a \in {"skipping", "delaying"} : D!Step(Caller, [D!Visit(Caller, s) EXCEPT !.at = a])
      BY <1>2 DEF D!Refuse
    <2> DEFINE f == [D!Visit(Caller, s) EXCEPT !.at = a]
    <2>2. IsCall(f) /\ f.at = a
      BY <1>0, VisitOf
    <2>3. dLive' = dLive /\ (D!Skip(s) \/ UNCHANGED <<dLastResult, dLastExecuted>>)
      BY <1>2 DEF D!Refuse, D!historyVars
    <2>4. Recorded(dLastResult', dLastExecuted') /\ Counting(dLive')
      BY <1>0, <2>3, SkippedAs
    <2> QED
      BY <2>1, <2>2, <2>4, Elsewhere DEF Begun
  <1>3. CASE D!Skipped(Caller) \/ D!Delayed(Caller) \/ D!Completed(Caller) \/ D!GiveUp(Caller) \/ D!Retried(Caller) \/ D!Return(Caller)
    <2>1. D!Step(Caller, D!Loop(Caller)) \/ D!Step(Caller, D!NoCall)
      BY <1>3 DEF D!Skipped, D!Delayed, D!Completed, D!GiveUp, D!Retried, D!Return
    <2>2. dLive' = dLive /\ (D!Skip(dCall[Caller].on) \/ UNCHANGED <<dLastResult, dLastExecuted>>)
      BY <1>3 DEF D!Skipped, D!Delayed, D!Completed, D!GiveUp, D!Retried, D!Return, D!historyVars
    <2>3. Recorded(dLastResult', dLastExecuted') /\ Counting(dLive')
      BY <1>0, <2>2, SkippedAs
    <2> QED
      BY <2>1, <2>3, LoopOf, NoCallOf, Elsewhere DEF Begun
  <1>4. CASE D!Started(Caller)
    <2>1. PICK f : D!Step(Caller, f) /\ f = [dCall[Caller] EXCEPT !.at = "started"]
      BY <1>4 DEF D!Started
    <2>2. dCall[Caller].at = "triggered" /\ UNCHANGED <<dLastResult, dLastExecuted, dLive>>
      BY <1>4 DEF D!Started, D!historyVars
    <2>3. IsCall(f) /\ f.op = dCall[Caller].op /\ f.on = dCall[Caller].on
      BY <1>0, <2>1, PlaceOf
    <2>4. Cleared(f, dLastResult')
      BY <2>2, <2>3 DEF SoleInv, Cleared, Begun
    <2> QED
      BY <1>0, <2>1, <2>2, <2>3, <2>4, StepOf DEF SoleInv
  <1>5. CASE D!Execute(Caller) \/ D!Succeed(Caller) \/ (\E t \in BOOLEAN : D!Fail(Caller, t)) \/ D!Retry(Caller)
    <2>1. PICK a \in {"running", "completed", "failed", "retrying"} : D!Step(Caller, [dCall[Caller] EXCEPT !.at = a])
      BY <1>5 DEF D!Execute, D!Succeed, D!Fail, D!Retry
    <2> DEFINE f == [dCall[Caller] EXCEPT !.at = a]
    <2>2. IsCall(f) /\ f.at = a
      BY <1>0, <2>1, PlaceOf
    <2>3. (\E r : D!Record(dCall[Caller].on, r)) \/ UNCHANGED <<dLastResult, dLastExecuted>>
      BY <1>5 DEF D!Execute, D!Succeed, D!Fail, D!Retry, D!historyVars
    <2>4. \/ dLive' = [dLive EXCEPT ![dCall[Caller].on] = @ + 1] \/ dLive' = [dLive EXCEPT ![dCall[Caller].on] = @ - 1]
          \/ dLive' = dLive
      BY <1>5 DEF D!Execute, D!Succeed, D!Fail, D!Retry
    <2>5. Recorded(dLastResult', dLastExecuted')
      BY <1>0, <2>3, RecordedAs
    <2>6. Counting(dLive')
      BY <1>0, <2>4, CountedBy
    <2> QED
      BY <2>1, <2>2, <2>5, <2>6, Elsewhere DEF Begun
  <1> QED
    BY <1>1, <1>2, <1>3, <1>4, <1>5 DEF D!Proceed

LEMMA SoleStep == ASSUME SoleInv, [CallsNext]_<<vars, dVars>> PROVE SoleInv'
  <1>1. CASE UNCHANGED dVars
    BY <1>1, SoleQuiet DEF dVars, SoleInv
  <1>2. CASE D!Next
    <2>1. ASSUME D!PublishRejects(Caller) PROVE SoleInv'
      BY <2>1, NoCallOf, Elsewhere DEF D!PublishRejects, D!historyVars, SoleInv, Begun
    <2> QED
      BY <1>2, <2>1, SoleControls, SoleCalls, SoleProceeds DEF D!Next
  <1> QED
    BY <1>1, <1>2 DEF CallsNext

\* Only the step that follows "started" starts a handler.
LEMMA StartsOne ==
  ASSUME SoleInv, D!Next, NEW s \in Dependents, dLive'[s] > dLive[s]
  PROVE  dCall[Caller].at = "started" /\ dCall[Caller].on = s
  <1>1. D!Execute(Caller) \/ dLive' = dLive \/ \E r : dLive' = [dLive EXCEPT ![r] = @ - 1]
    BY DEF D!Next, D!RegisterSchedule, D!TimeComes, D!Control, D!Pause, D!Resume, D!Cancel, D!HandlerEnds, D!Calls, D!CallTick,
           D!CallNotifyEvent, D!TriggerManually, D!Proceed, D!Begin, D!Refuse, D!Skipped, D!Delayed, D!Return, D!Started, D!Succeed,
           D!Fail, D!Completed, D!GiveUp, D!Retry, D!Retried, D!PublishRejects
  <1>2. ~(dLive' = dLive) /\ ~(\E r : dLive' = [dLive EXCEPT ![r] = @ - 1])
    BY DEF SoleInv, Counting
  <1>3. D!Execute(Caller)
    BY <1>1, <1>2
  <1> QED
    BY <1>3 DEF D!Execute, SoleInv, Counting

\* Where one call is under way at a time, a handler that a trigger starts runs only after the last execution of
\* each dependency succeeded: for any schedules, triggers, dependencies, retry policies, refusals,
\* timeouts and publishes that reject.
THEOREM DependentsAwaitTheirs == CallsSpec => DependentsWait
  <1> DEFINE Waits == \A s \in Dependents :
               dLive[s]' > dLive[s] /\ (\E c \in {Caller} : dCall[c].on = s /\ dCall[c].op # "manual") =>
                 \A d \in DDependsOn[s] : dLastExecuted[d] = "success"
  <1>1. CallsInit => SoleInv
    BY SoleStarts DEF CallsInit
  <1>2. SoleInv /\ [CallsNext]_<<vars, dVars>> => SoleInv'
    BY SoleStep
  <1>3. SoleInv /\ [CallsNext]_<<vars, dVars>> => [Waits]_(D!vars)
    <2> SUFFICES ASSUME SoleInv, [CallsNext]_<<vars, dVars>>, D!vars' # D!vars,
                        NEW s \in Dependents, dLive'[s] > dLive[s], dCall[Caller].on = s, dCall[Caller].op # "manual",
                        NEW d \in DDependsOn[s]
                 PROVE  dLastExecuted[d] = "success"
      OBVIOUS
    <2>1. D!Next
      BY DEF CallsNext, dVars, D!vars, D!scheduleVars, D!historyVars
    <2>2. dCall[Caller].at = "started"
      BY <2>1, StartsOne
    <2>3. dLastResult[d] = "success"
      BY <2>2 DEF SoleInv, Cleared, Begun
    <2>4. d \in Dependents
      BY CallsAssumption DEF D!SchedulingAssumption
    <2> QED
      BY <2>3, <2>4 DEF SoleInv, Recorded
  <1> QED
    BY <1>1, <1>2, <1>3, PTL DEF CallsSpec, DependentsWait, D!StartsAfterDependencies
=============================================================================
