--------------------------- MODULE SchedulingCalls ---------------------------
(* Two schedulers, each behaviour one of either: one whose calls may overlap  *)
(* (the constants of SchedulingAuthority), and one that is called by a single *)
(* caller, who waits for a call to end before making the next (D).            *)
EXTENDS SchedulingAuthority

CONSTANTS
  Dependents, Caller, DKind, DDependsOn, DMaxAttempts, DGated, DTimesOut, DMaxAbandoned, DPublishFails

VARIABLES dRegistry, dStatus, dDue, dAttemptCounts, dLastResult, dLastExecuted, dLive, dCall

dVars == <<dRegistry, dStatus, dDue, dAttemptCounts, dLastResult, dLastExecuted, dLive, dCall>>

D == INSTANCE SchedulingAuthority WITH
       Schedules <- Dependents, Callers <- {Caller}, Kind <- DKind, DependsOn <- DDependsOn,
       MaxAttempts <- DMaxAttempts, Gated <- DGated, TimesOut <- DTimesOut, MaxAbandoned <- DMaxAbandoned,
       PublishFails <- DPublishFails,
       registry <- dRegistry, status <- dStatus, due <- dDue, attemptCounts <- dAttemptCounts,
       lastResult <- dLastResult, lastExecuted <- dLastExecuted, live <- dLive, call <- dCall

ASSUME CallsAssumption == D!SchedulingAssumption

\* The first step decides which of the two the behaviour is one of.
CallsInit == Init /\ D!Init
CallsNext ==
  \/ Next /\ D!Init /\ UNCHANGED dVars
  \/ D!Next /\ Init /\ UNCHANGED vars
CallsSpec == CallsInit /\ [][CallsNext]_<<vars, dVars>>

\* Where one call is under way at a time, a handler that a trigger starts runs only after the last
\* execution of each dependency succeeded, whatever was paused, cancelled or skipped in between.
DependentsWait == D!StartsAfterDependencies
=============================================================================
