-------------------------- MODULE MinerProcessManager --------------------------
(***************************************************************************)
(* The Miner Process Manager (core/miner_process_manager/src): the         *)
(* lifecycle of the operating system processes of the miners.              *)
(*                                                                         *)
(* Nearly every operation is asynchronous: a launch awaits the security,   *)
(* resource and spawn providers, and stop(), terminate() and restart()     *)
(* await a kill.  A process keeps one record that all of its calls change, *)
(* and nothing keeps two calls of a process, or a call and the exit of the *)
(* process, apart.  The providers, the operating system and the wishes of  *)
(* the callers are the environment.  Callers own what they call for; the   *)
(* outputs, events and the supervision graph are left out.                 *)
(***************************************************************************)
EXTENDS Naturals, FiniteSetsExt

CONSTANTS
  Processes,
  Key,          \* Key[p]: the workload and adapter that p is requested for
  MaxRetries,   \* of the restart policy; its cooldown has passed or has not
  Nothing,
  KillMayFail,  \* whether the launcher's kill() may reject
  MaxSpawns, MaxRestarts, MaxCalls   \* bounds of the model

MinerProcessAssumption ==
  /\ MaxRetries \in Nat /\ KillMayFail \in BOOLEAN
  /\ \A p \in Processes : Key[p] \notin Processes

VARIABLES
  procs,     \* the record of each process, Nothing before it is requested
  claims,    \* the process that holds each workload and adapter
  live,      \* the operating system's processes
  held,      \* the reservations held, each with the process it was made for
  spawned, reserved,  \* how many there were
  calls,     \* the calls under way
  unkilled   \* processes a kill of which was rejected

processVars == <<procs, claims, live, held, spawned, reserved, calls, unkilled>>

ProcessLifecycleStages ==
  {"requested", "validated", "prepared", "spawned", "starting", "running", "degraded", "stopping", "stopped",
   "archived", "failed"}
ProcessLifecycleTransitions ==
  {<<"requested", "validated">>, <<"validated", "prepared">>, <<"prepared", "spawned">>, <<"spawned", "starting">>,
   <<"starting", "running">>, <<"running", "degraded">>, <<"running", "stopping">>, <<"stopping", "stopped">>}
  \cup ({"degraded"} \X {"validated", "prepared", "stopping"})
  \cup ({"stopped"} \X {"archived", "validated", "prepared"})
  \cup ({"failed"} \X {"degraded", "stopping", "stopped", "validated", "prepared"})
  \cup ((ProcessLifecycleStages \ {"stopped", "archived", "failed"}) \X {"failed"})

ManagedProcess ==
  [stage : ProcessLifecycleStages, pid : Nat \cup {Nothing}, reservation : Nat, restarts : Nat]
\* reservation, pid: what the call was given and has not put on the record yet
Call == [id : 1..MaxCalls, of : Processes, reservation : Nat, pid : Nat,
         at : {"securing", "reserving", "permitting", "spawning", "killing to restart", "killing to stop",
               "killing to terminate", "releasing"}]

Init ==
  /\ procs = [p \in Processes |-> Nothing]
  /\ claims = [k \in {Key[p] : p \in Processes} |-> Nothing]
  /\ live = {} /\ held = {} /\ spawned = 0 /\ reserved = 0
  /\ calls = {} /\ unkilled = {}

----------------------------------------------------------------------------
Stage(p) == procs[p].stage
Allowed(p, to) == <<Stage(p), to>> \in ProcessLifecycleTransitions
\* Mutant: the stage is left as it is.
MutFailed(record) == record
\* fail(): Stopped is the one stage it cannot leave, which throws.
Failed(record) == IF <<record.stage, "failed">> \in ProcessLifecycleTransitions
                  THEN [record EXCEPT !.stage = "failed"] ELSE record

Records(p, record) == procs' = [procs EXCEPT ![p] = record]
Begins(p, at) ==
  LET free == (1..MaxCalls) \ {c.id : c \in calls}
  IN  /\ free # {}
      /\ calls' = calls \cup {[id |-> Min(free), of |-> p, at |-> at, reservation |-> 0, pid |-> 0]}
Goes(c, next) == calls' = (calls \ {c}) \cup {next}
Ends(c) == calls' = calls \ {c}
Quietly == UNCHANGED <<claims, live, held, spawned, reserved, unkilled>>

\* request() and launch(), which goes on with the first await of launchExisting().
Requested(p) ==
  /\ procs[p] = Nothing /\ claims[Key[p]] = Nothing
  /\ claims' = [claims EXCEPT ![Key[p]] = p]
  /\ Records(p, [stage |-> "requested", pid |-> Nothing, reservation |-> 0, restarts |-> 0])
  /\ UNCHANGED <<live, held, spawned, reserved, unkilled>>
Request(p) == Requested(p) /\ UNCHANGED calls
Launch(p) == Requested(p) /\ Begins(p, "securing")

\* A provider says no, or throws.
Refused(c) ==
  /\ c.at \in {"securing", "reserving", "spawning"}
  /\ Records(c.of, Failed(procs[c.of])) /\ Ends(c)
  /\ Quietly
Secured(c) ==
  /\ c.at = "securing"
  /\ IF Allowed(c.of, "validated")
     THEN Records(c.of, [procs[c.of] EXCEPT !.stage = "validated"]) /\ Goes(c, [c EXCEPT !.at = "reserving"])
     ELSE Records(c.of, Failed(procs[c.of])) /\ Ends(c)
  /\ Quietly

\* ResourceGate.pass(): available and reserved, and then permitted or released.
Reserved(c) ==
  /\ c.at = "reserving"
  /\ reserved' = reserved + 1 /\ held' = held \cup {<<reserved + 1, c.of>>}
  /\ Goes(c, [c EXCEPT !.at = "permitting", !.reservation = reserved + 1])
  /\ UNCHANGED <<procs, claims, live, spawned, unkilled>>
Denied(c) ==
  /\ c.at = "permitting"
  /\ held' = {r \in held : r[1] # c.reservation}
  /\ Records(c.of, Failed(procs[c.of])) /\ Ends(c)
  /\ UNCHANGED <<claims, live, spawned, reserved, unkilled>>
\* The reservation is on record even when the stage is not: the operating system
\* has the process before the launcher says so.
Permitted(c) ==
  LET record == [procs[c.of] EXCEPT !.reservation = c.reservation]
  IN  /\ c.at = "permitting" /\ spawned < MaxSpawns
      /\ IF Allowed(c.of, "prepared")
         THEN /\ Records(c.of, [record EXCEPT !.stage = "prepared"])
              /\ spawned' = spawned + 1
              /\ live' = live \cup {[pid |-> spawned + 1, of |-> c.of, watched |-> FALSE]}
              /\ Goes(c, [c EXCEPT !.at = "spawning", !.pid = spawned + 1])
         ELSE /\ Records(c.of, Failed(record)) /\ Ends(c)
              /\ UNCHANGED <<live, spawned>>
      /\ UNCHANGED <<claims, held, reserved, unkilled>>
Spawned(c) ==
  LET record == [procs[c.of] EXCEPT !.pid = c.pid]
  IN  /\ c.at = "spawning"
      /\ IF Allowed(c.of, "spawned")
         THEN /\ Records(c.of, [record EXCEPT !.stage = "running"])
              /\ live' = {IF o.pid = c.pid THEN [o EXCEPT !.watched = TRUE] ELSE o : o \in live}
         ELSE /\ Records(c.of, Failed(record)) /\ UNCHANGED live
      /\ Ends(c)
      /\ UNCHANGED <<claims, held, spawned, reserved, unkilled>>

----------------------------------------------------------------------------
\* An operating system process exits, of itself, killed, or swept up as an orphan;
\* recordExit() hears of it when onExit was attached, whatever process runs by now.
Exit(o, clean) ==
  LET p == o.of
  IN  /\ live' = live \ {o}
      /\ IF ~o.watched THEN UNCHANGED procs
         ELSE IF ~clean THEN Records(p, Failed(procs[p]))
         ELSE IF Stage(p) \in {"running", "degraded"} THEN Records(p, [procs[p] EXCEPT !.stage = "stopped"])
         ELSE UNCHANGED procs
      /\ UNCHANGED <<claims, held, spawned, reserved, calls, unkilled>>

\* mayRestart(): the ceiling and the cooldown are for the automatic kinds.
MayRestart(p, automatic, cooled) == automatic => procs[p].restarts < MaxRetries /\ cooled
RestartRefused(p) ==
  /\ procs[p] # Nothing /\ Allowed(p, "degraded")
  /\ \E cooled \in BOOLEAN : ~MayRestart(p, TRUE, cooled)
  /\ Records(p, [procs[p] EXCEPT !.stage = "degraded"])
  /\ UNCHANGED calls /\ Quietly
Restart(p, automatic) ==
  /\ procs[p] # Nothing /\ MayRestart(p, automatic, TRUE)
  /\ procs[p].restarts < MaxRestarts
  /\ IF procs[p].pid # Nothing /\ Stage(p) \in {"running", "degraded"}
     THEN Records(p, [procs[p] EXCEPT !.stage = "stopping"]) /\ Begins(p, "killing to restart")
     ELSE Records(p, [procs[p] EXCEPT !.restarts = @ + 1]) /\ Begins(p, "securing")
  /\ Quietly
\* The pid it had is not cleared, nor its reservation released.
KilledToRestart(c) ==
  /\ c.at = "killing to restart"
  /\ IF Allowed(c.of, "stopped")
     THEN /\ Records(c.of, [procs[c.of] EXCEPT !.stage = "stopped", !.restarts = @ + 1])
          /\ Goes(c, [c EXCEPT !.at = "securing"])
     ELSE Ends(c) /\ UNCHANGED procs
  /\ Quietly

\* What stop() and terminate() do in the end: the claim goes once the release is answered.
Releases(p) == held' = {r \in held : r[1] # procs[p].reservation}
Stop(p) ==
  /\ procs[p] # Nothing /\ Stage(p) \in {"running", "degraded", "failed"}
  /\ IF procs[p].pid # Nothing
     THEN /\ Records(p, [procs[p] EXCEPT !.stage = "stopping"]) /\ Begins(p, "killing to stop")
          /\ UNCHANGED held
     ELSE /\ Records(p, [procs[p] EXCEPT !.stage = "stopped"]) /\ Begins(p, "releasing")
          /\ Releases(p)
  /\ UNCHANGED <<claims, live, spawned, reserved, unkilled>>
Terminate(p) ==
  /\ procs[p] # Nothing
  /\ IF Stage(p) \in {"running", "degraded"} /\ procs[p].pid # Nothing
     THEN /\ Records(p, [procs[p] EXCEPT !.stage = "stopping"]) /\ Begins(p, "killing to terminate")
          /\ UNCHANGED held
     ELSE /\ Begins(p, "releasing") /\ Releases(p)
          /\ IF Stage(p) = "degraded" THEN Records(p, [procs[p] EXCEPT !.stage = "stopped"]) ELSE UNCHANGED procs
  /\ UNCHANGED <<claims, live, spawned, reserved, unkilled>>
Killed(c) ==
  /\ c.at \in {"killing to stop", "killing to terminate"}
  /\ IF Allowed(c.of, "stopped")
     THEN /\ Records(c.of, [procs[c.of] EXCEPT !.stage = "stopped"])
          /\ Goes(c, [c EXCEPT !.at = "releasing"]) /\ Releases(c.of)
     ELSE Ends(c) /\ UNCHANGED <<procs, held>>
  /\ UNCHANGED <<claims, live, spawned, reserved, unkilled>>
KillRejected(c) ==
  /\ KillMayFail /\ c.at \in {"killing to restart", "killing to stop", "killing to terminate"}
  /\ Ends(c) /\ unkilled' = unkilled \cup {c.of}
  /\ UNCHANGED <<procs, claims, live, held, spawned, reserved>>
Released(c) ==
  /\ c.at = "releasing" /\ Ends(c)
  /\ claims' = [claims EXCEPT ![Key[c.of]] = IF @ = c.of THEN Nothing ELSE @]
  /\ UNCHANGED <<procs, live, held, spawned, reserved, unkilled>>

Archive(p) ==
  /\ procs[p] # Nothing /\ Allowed(p, "archived")
  /\ Records(p, [procs[p] EXCEPT !.stage = "archived"])
  /\ UNCHANGED calls /\ Quietly

Next ==
  \/ \E p \in Processes :
       \/ Request(p) \/ Launch(p) \/ RestartRefused(p) \/ Stop(p) \/ Terminate(p) \/ Archive(p)
       \/ \E automatic \in BOOLEAN : Restart(p, automatic)
  \/ \E c \in calls :
       \/ Refused(c) \/ Secured(c) \/ Reserved(c) \/ Denied(c) \/ Permitted(c) \/ Spawned(c)
       \/ KilledToRestart(c) \/ Killed(c) \/ KillRejected(c) \/ Released(c)
  \/ \E o \in live, clean \in BOOLEAN : Exit(o, clean)

Spec == Init /\ [][Next]_processVars

----------------------------------------------------------------------------
\* However the calls of a process and its exits interleave, none is left in the
\* middle of a launch or of a stop: a stage on the way is one that a call of the
\* process, or a kill that was rejected, accounts for.
NoneLeftBehind ==
  \A p \in Processes :
    LET runs(ats) == \E c \in calls : c.of = p /\ c.at \in ats
    IN  procs[p] # Nothing =>
          /\ Stage(p) = "validated" => runs({"reserving", "permitting"})
          /\ Stage(p) = "prepared"  => runs({"spawning"})
          /\ Stage(p) = "stopping"  =>
               p \in unkilled \/ runs({"killing to restart", "killing to stop", "killing to terminate"})

\* A process that runs holds the reservation it was launched with, and is alive.
RunningIsBacked ==
  \A p \in Processes : procs[p] # Nothing /\ Stage(p) = "running" => <<procs[p].reservation, p>> \in held
\* One process at a time for a workload and adapter.
OnePerKey ==
  \A p, q \in Processes :
    procs[p] # Nothing /\ procs[q] # Nothing /\ Stage(p) = "running" /\ Stage(q) = "running" /\ Key[p] = Key[q] => p = q
\* Nothing is reserved for a process that was stopped or archived.
NothingLeaks ==
  calls = {} => \A p \in Processes : procs[p] # Nothing /\ Stage(p) = "archived" => \A r \in held : r[2] # p
=============================================================================
