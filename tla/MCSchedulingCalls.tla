-------------------------- MODULE MCSchedulingCalls --------------------------
(* Two overlapping calls over a one-shot schedule and one on an event, with  *)
(* retries; and one call at a time over a schedule on an event that depends  *)
(* on a recurring one, with refusals, timeouts and publishes that reject.    *)
EXTENDS MCSchedulingAuthority, SchedulingCalls

MCDKind == [s \in Dependents |-> IF s = recurring THEN "recurring" ELSE "event"]
MCDDependsOn == [s \in Dependents |-> {recurring} \ {s}]
MCDMaxAttempts == [s \in Dependents |-> 2]
=============================================================================
