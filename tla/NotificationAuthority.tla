------------------------- MODULE NotificationAuthority -------------------------
(***************************************************************************)
(* The Notification & Communication Authority (core/notification_authority *)
(* /src): notifications are requested, suppressed or delivered over their  *)
(* channels in the background, acknowledged and escalated.                 *)
(*                                                                         *)
(* deliver() is asynchronous: it awaits each channel in turn, while other  *)
(* deliveries of the same notification, acknowledgements and escalations   *)
(* go on.  Every other operation is one step.  Time is abstracted to which *)
(* escalation steps are due and whether the duplicate window has passed.   *)
(***************************************************************************)
EXTENDS Naturals, Sequences, FiniteSetsExt, SequencesExt

CONSTANTS
  Notifications,
  Types,       \* [ack, steps, channels, dup, quiet] of each notification type;
               \* a step is [retry, channels]: the last channel again, or these
  Registered,  \* the channels that are registered, of those the types name
  Digest,      \* the channels of a digest
  Nothing,
  MaxAttempts  \* bound of the model: channels awaited for one notification

Attempt == [channel : STRING, success : BOOLEAN]
Statuses == {"queued", "delivered", "failed", "acknowledged", "escalated", "suppressed"}
NotificationRecord ==
  [type : DOMAIN Types \cup {"digest"}, status : Statuses, level : Nat, deliveries : Seq(Attempt)]

NotificationAssumption ==
  /\ \A t \in DOMAIN Types : /\ Types[t].ack \in BOOLEAN /\ Types[t].dup \in BOOLEAN
                             /\ Types[t].quiet \in BOOLEAN /\ Types[t].channels \in Seq(STRING)
                             /\ Types[t].steps \in Seq([retry : BOOLEAN, channels : Seq(STRING)])
  /\ IsFiniteSet(Registered) /\ Digest \in Seq(STRING) /\ Nothing \notin NotificationRecord

VARIABLES
  records,     \* the record of each notification, Nothing before it is requested
  calls,       \* the calls of deliver() under way
  acks,        \* notifications that were acknowledged
  due,         \* how many escalation steps of each notification have come due
  recent,      \* those within the duplicate window
  counts,      \* generated, delivered, failed, escalated, suppressed
  answered     \* what the channels answered to the calls that have settled

notificationVars == <<records, calls, acks, due, recent, counts, answered>>

Init ==
  /\ records = [n \in Notifications |-> Nothing]
  /\ calls = {} /\ acks = {} /\ recent = {}
  /\ due = [n \in Notifications |-> 0]
  /\ counts = [generated |-> 0, delivered |-> 0, failed |-> 0, escalated |-> 0, suppressed |-> 0]
  /\ answered = [n \in Notifications |-> <<>>]

Count(c, name) == [c EXCEPT ![name] = @ + 1]

----------------------------------------------------------------------------
\* A call of deliver(): the notification, the escalation level it began at (no two
\* of a notification began at the same), the record it was given, the channels
\* left, and the attempts made.  Channels that are not registered fail without
\* an await: the call rests only where it awaits Head(todo).
Unregistered(todo) == LET ks == {k \in DOMAIN todo : todo[k] \in Registered}
                      IN  IF ks = {} THEN Len(todo) ELSE Min(ks) - 1
Awaiting(call) ==
  LET skipped == Unregistered(call.todo)
  IN  [call EXCEPT !.todo = SubSeq(@, skipped + 1, Len(@)),
                   !.attempts = @ \o [k \in 1..skipped |-> [channel |-> call.todo[k], success |-> FALSE]]]
Started(n, record, todo) ==
  Awaiting([of |-> n, level |-> record.level, given |-> record, todo |-> todo, attempts |-> <<>>])

Succeeded(call) == \E k \in DOMAIN call.attempts : call.attempts[k].success

\* Mutant: the record it was given, not the current one.
MutSettled(call, current) ==
  [call.given EXCEPT !.deliveries = @ \o call.attempts, !.status = IF Succeeded(call) THEN "delivered" ELSE "failed"]
\* The end of deliver(): the record is read again after the awaits.
Settled(call, current) ==
  [current EXCEPT !.deliveries = @ \o call.attempts, !.status = IF Succeeded(call) THEN "delivered" ELSE "failed"]

\* Calls that begin: those without a registered channel settle before they return.
Launch(launched, recs, c) ==
  LET waiting == {l \in launched : l.todo # <<>>}
      over    == launched \ waiting
      settles(n) == \E l \in over : l.of = n
      its(n)  == CHOOSE l \in over : l.of = n
  IN  /\ calls' = calls \cup waiting
      /\ records' = [n \in Notifications |-> IF settles(n) THEN Settled(its(n), recs[n]) ELSE recs[n]]
      /\ answered' = [n \in Notifications |-> IF settles(n) THEN answered[n] \o its(n).attempts ELSE answered[n]]
      /\ counts' = [c EXCEPT !.failed = @ + Cardinality(over)]

\* The channel answers.
Answers(call, success) ==
  LET next == Awaiting([call EXCEPT !.todo = Tail(@),
                                    !.attempts = Append(@, [channel |-> Head(call.todo), success |-> success])])
      n == call.of
  IN  /\ call \in calls
      /\ IF next.todo # <<>>
         THEN /\ calls' = (calls \ {call}) \cup {next}
              /\ UNCHANGED <<records, answered, counts>>
         ELSE /\ calls' = calls \ {call}
              /\ records' = [records EXCEPT ![n] = Settled(next, records[n])]
              /\ answered' = [answered EXCEPT ![n] = @ \o next.attempts]
              /\ counts' = Count(counts, IF Succeeded(next) THEN "delivered" ELSE "failed")
      /\ UNCHANGED <<acks, due, recent>>

\* The channel throws: requestNotification()'s catch drops the whole call.
Throws(call) ==
  /\ call \in calls
  /\ calls' = calls \ {call}
  /\ UNCHANGED <<records, acks, due, recent, counts, answered>>

----------------------------------------------------------------------------
\* checkSuppression(): duplicates in the window, suppressed ones included.
Duplicate(n, t) == Types[t].dup /\ \E m \in recent \ {n} : records[m].type = t

\* requestNotification(); quiet: quiet hours, a maintenance window or a category
\* that is suppressed.
Request(n, t, quiet) ==
  LET record == [type |-> t, status |-> "queued", level |-> 0, deliveries |-> <<>>]
  IN  /\ records[n] = Nothing
      /\ quiet => Types[t].quiet
      /\ recent' = recent \cup {n}
      /\ IF quiet \/ Duplicate(n, t)
         THEN /\ records' = [records EXCEPT ![n] = [record EXCEPT !.status = "suppressed"]]
              /\ counts' = Count(Count(counts, "generated"), "suppressed")
              /\ UNCHANGED <<calls, answered>>
         ELSE Launch({Started(n, record, Types[t].channels)}, [records EXCEPT ![n] = record],
                     Count(counts, "generated"))
      /\ UNCHANGED <<acks, due>>

\* generateDigest(): a notification of no registered type.
GenerateDigest(n) ==
  LET record == [type |-> "digest", status |-> "queued", level |-> 0, deliveries |-> <<>>]
  IN  /\ records[n] = Nothing
      /\ Launch({Started(n, record, Digest)}, [records EXCEPT ![n] = record], counts)
      /\ UNCHANGED <<acks, due, recent>>

\* acknowledge(), of any notification and by anybody.
Acknowledge(n) ==
  /\ records[n] # Nothing
  /\ acks' = acks \cup {n}
  /\ records' = [records EXCEPT ![n].status = "acknowledged"]
  /\ UNCHANGED <<calls, due, recent, counts, answered>>

\* findDueEscalationStep()
Steps(n) == IF records[n].type \in DOMAIN Types THEN Types[records[n].type].steps ELSE <<>>
DueStep(n) ==
  /\ records[n] # Nothing
  /\ records[n].status \in {"queued", "delivered", "escalated"}
  /\ records[n].level < Min({Len(Steps(n)), due[n]})
\* Acknowledgement stops the escalation of those that require one.
Escalates(n) == DueStep(n) /\ ~(Types[records[n].type].ack /\ n \in acks)

\* The channels of the step taken; "retry" is the last attempt's, if there is one.
StepChannels(record) ==
  LET step == Types[record.type].steps[record.level]
  IN  IF ~step.retry THEN step.channels
      ELSE IF record.deliveries = <<>> THEN <<>> ELSE <<Last(record.deliveries).channel>>
\* dispatchEscalation() delivers to a recipient that is known, over a list that may be empty.
Dispatches(record) == Types[record.type].steps[record.level].retry => record.deliveries # <<>>

CheckEscalations ==
  LET now == {n \in Notifications : Escalates(n)}
      raised == [n \in Notifications |->
                   IF n \in now THEN [records[n] EXCEPT !.status = "escalated", !.level = @ + 1] ELSE records[n]]
  IN  /\ now # {}
      /\ \A n \in now : Len(raised[n].deliveries) < MaxAttempts
      /\ Launch({Started(n, raised[n], StepChannels(raised[n])) : n \in {m \in now : Dispatches(raised[m])}}, raised,
                [counts EXCEPT !.escalated = @ + Cardinality(now)])
      /\ UNCHANGED <<acks, due, recent>>

\* afterMs of the next step has passed; the duplicate window of n has.
StepComesDue(n) ==
  /\ records[n] # Nothing /\ due[n] < Len(Steps(n))
  /\ due' = [due EXCEPT ![n] = @ + 1]
  /\ UNCHANGED <<records, calls, acks, recent, counts, answered>>
WindowPasses(n) ==
  /\ n \in recent
  /\ recent' = recent \ {n}
  /\ UNCHANGED <<records, calls, acks, due, counts, answered>>

Next ==
  \/ \E n \in Notifications :
       \/ \E t \in DOMAIN Types, quiet \in BOOLEAN : Request(n, t, quiet)
       \/ GenerateDigest(n) \/ Acknowledge(n) \/ StepComesDue(n) \/ WindowPasses(n)
  \/ CheckEscalations
  \/ \E call \in calls : Throws(call) \/ \E success \in BOOLEAN : Answers(call, success)

Spec == Init /\ [][Next]_notificationVars

----------------------------------------------------------------------------
\* Deliveries of one notification overlap, and each writes the record after its
\* awaits: no attempt of another is lost, no escalation step is taken twice or
\* forgotten, and the status fits what the channels answered.
AttemptsKept ==
  \A n \in Notifications : records[n] # Nothing =>
    /\ records[n].deliveries = answered[n]
    /\ records[n].status = "delivered" => \E k \in DOMAIN answered[n] : answered[n][k].success
StepsTakenOnce ==
  counts.escalated = MapThenSumSet(LAMBDA n : IF records[n] = Nothing THEN 0 ELSE records[n].level, Notifications)

\* An acknowledged notification stays acknowledged.
AcknowledgedIsKept == \A n \in acks : records[n].status = "acknowledged"

\* A notification nobody acknowledged is escalated while it has steps left.
EscalatesOn ==
  \A n \in Notifications :
    records[n] # Nothing /\ records[n].status # "suppressed" /\ n \notin acks /\ due[n] > records[n].level => DueStep(n)
=============================================================================
