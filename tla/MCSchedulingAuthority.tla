------------------------ MODULE MCSchedulingAuthority ------------------------
(* A recurring job, a one-shot job, a job on an event and one on a policy;  *)
(* the others depend on the recurring one.                                  *)
EXTENDS SchedulingAuthority

CONSTANTS recurring, once, onEvent, onPolicy,
          Retries    \* maxAttempts of the schedules' retry policy, 0 for none

MCKind == [s \in Schedules |->
             CASE s = recurring -> "recurring" [] s = once -> "once"
               [] s = onEvent -> "event" [] OTHER -> "policy"]
MCDependsOn == [s \in Schedules |-> ({recurring} \cap Schedules) \ {s}]
MCMaxAttempts == [s \in Schedules |-> Retries]

\* For liveness: the publishes a call awaits never reject, which would strand a schedule.
LiveNext == Next /\ ~ \E c \in Callers : PublishRejects(c)
LiveSpec == Init /\ [][LiveNext]_vars /\ Fairness
=============================================================================
