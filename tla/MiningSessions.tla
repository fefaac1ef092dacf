---------------------------- MODULE MiningSessions ----------------------------
(* Mining sessions on a device: the CPU, GPU and ASIC mining frameworks       *)
(* (core/{cpu,gpu,asic}_mining_framework), which differ in two points only.   *)
(* The GPU and ASIC frameworks let one session claim a device; the ASIC one   *)
(* serves monitor() and stop() only to the session that owns the claim.       *)
(* Each call awaits the adapter, and other calls of the session get in        *)
(* between.  Stages that a call passes without an await are not told apart.   *)
EXTENDS Integers, FiniteSets

CONSTANTS
  Devices,    \* UUIDs the hardware provider knows
  Sessions,   \* session ids, in the order of the framework's sequence
  None

VARIABLES
  kind,       \* the framework: "cpu", "gpu" or "asic"
  sessions,   \* registry and lifecycleRecords: session -> [device, stage, grant]
  claims,     \* the isolation guard: device -> the session that owns it
  leases,     \* reservations the resource provider holds: session -> how many
  pending,    \* session -> the calls of it that await the adapter
  mining      \* session -> whether the miner its adapter started runs (external)

vars == <<kind, sessions, claims, leases, pending, mining>>

MiningSessionsAssumption == Sessions \subseteq Nat /\ IsFiniteSet(Sessions) /\ None \notin Sessions

Stages == {"none", "requested", "prepared", "running", "monitored", "stopped", "failed"}
Stoppable == {"running", "monitored", "failed"}
Active(s) == sessions[s].stage \in {"requested", "prepared", "running", "monitored"}
Known(s) == sessions[s].stage # "none"

Exclusive == kind \in {"gpu", "asic"}
Owns(s) == claims[sessions[s].device] = s
\* assertActiveOwnership() of the ASIC framework, requireSession() of the others
Served(s) == Known(s) /\ (kind = "asic" => Owns(s))

Init ==
  /\ kind \in {"cpu", "gpu", "asic"}
  /\ sessions = [s \in Sessions |-> [device |-> None, stage |-> "none", grant |-> FALSE]]
  /\ claims = [d \in Devices |-> None]
  /\ leases = [s \in Sessions |-> 0]
  /\ pending = [s \in Sessions |-> {}]
  /\ mining = [s \in Sessions |-> FALSE]

\* The mutant releases the claim of whoever has it.
MutUnclaimed(s) == [claims EXCEPT ![sessions[s].device] = None]
\* release() of the isolation guard
Unclaimed(s) == IF Owns(s) THEN [claims EXCEPT ![sessions[s].device] = None] ELSE claims

\* What both stop() and fail() do at their end.
Release(s, stage, held) ==
  /\ leases' = [leases EXCEPT ![s] = held - (IF sessions[s].grant THEN 1 ELSE 0)]
  /\ sessions' = [sessions EXCEPT ![s].stage = stage, ![s].grant = FALSE]
  /\ claims' = Unclaimed(s)

\* fail(): a session that has failed or stopped keeps its stage.
Fails(s, held) ==
  Release(s, IF sessions[s].stage = "stopped" THEN "stopped" ELSE "failed", held)

Awaits(s, what) == pending' = [pending EXCEPT ![s] = @ \union {what}]
Resumes(s, what) == what \in pending[s] /\ pending' = [pending EXCEPT ![s] = @ \ {what}]

-----------------------------------------------------------------------------
(* start() *)

\* The session is registered and claims its device; a claimed device refuses it, which leaves nothing.
Start(s, d) ==
  /\ ~Known(s) /\ \A t \in Sessions : t < s => Known(t)
  /\ Exclusive => claims[d] = None
  /\ sessions' = [sessions EXCEPT ![s] = [device |-> d, stage |-> "requested", grant |-> FALSE]]
  /\ claims' = IF Exclusive THEN [claims EXCEPT ![d] = s] ELSE claims
  /\ Awaits(s, "identify")
  /\ UNCHANGED <<kind, leases, mining>>

\* The profile suits, the resource provider grants what was asked, and adapter.start() is awaited.
Granted(s) ==
  /\ "identify" \in pending[s] /\ sessions[s].stage = "requested"
  /\ leases' = [leases EXCEPT ![s] = @ + 1]
  /\ sessions' = [sessions EXCEPT ![s].stage = "prepared", ![s].grant = TRUE]
  /\ pending' = [pending EXCEPT ![s] = (@ \ {"identify"}) \union {"start"}]
  /\ UNCHANGED <<kind, claims, mining>>

\* A provider or the adapter throws, the device does not suit, the resource is not there, or
\* the session was failed by a stop() meanwhile.
Unsuited(s) ==
  /\ Resumes(s, "identify")
  /\ Fails(s, leases[s])
  /\ UNCHANGED <<kind, mining>>

\* The provider grants something else: the session throws before it files the grant.
Mismatched(s) ==
  /\ Resumes(s, "identify") /\ sessions[s].stage = "requested"
  /\ Fails(s, leases[s] + 1)
  /\ UNCHANGED <<kind, mining>>

\* The adapter has started; the session may have been failed meanwhile, which throws.
Started(s) ==
  /\ Resumes(s, "start")
  /\ mining' = [mining EXCEPT ![s] = TRUE]
  /\ IF sessions[s].stage = "prepared"
     THEN sessions' = [sessions EXCEPT ![s].stage = "running"] /\ UNCHANGED <<claims, leases>>
     ELSE Fails(s, leases[s])
  /\ UNCHANGED kind

NotStarted(s) ==
  /\ Resumes(s, "start")
  /\ Fails(s, leases[s])
  /\ UNCHANGED <<kind, mining>>

-----------------------------------------------------------------------------
(* monitor() and stop() *)

Monitor(s) ==
  /\ Served(s) /\ sessions[s].grant /\ "monitor" \notin pending[s]
  /\ Awaits(s, "monitor")
  /\ UNCHANGED <<kind, sessions, claims, leases, mining>>

Monitored(s) ==
  /\ Resumes(s, "monitor")
  /\ sessions' = [sessions EXCEPT ![s].stage = IF @ = "running" THEN "monitored" ELSE @]
  /\ UNCHANGED <<kind, claims, leases, mining>>

\* The statistics are not normalised, or the adapter or a provider throws: the session fails,
\* and its adapter is left as it is.
NotMonitored(s) ==
  /\ Resumes(s, "monitor")
  /\ Fails(s, leases[s])
  /\ UNCHANGED <<kind, mining>>

Stop(s) ==
  /\ Served(s) /\ "stop" \notin pending[s]
  /\ Awaits(s, "stop")
  /\ UNCHANGED <<kind, sessions, claims, leases, mining>>

\* The adapter has stopped; a session that does not run yet, or stopped before, throws.
Stopped(s) ==
  /\ Resumes(s, "stop")
  /\ mining' = [mining EXCEPT ![s] = FALSE]
  /\ IF sessions[s].stage \in Stoppable THEN Release(s, "stopped", leases[s]) ELSE Fails(s, leases[s])
  /\ UNCHANGED kind

NotStopped(s) ==
  /\ Resumes(s, "stop")
  /\ Fails(s, leases[s])
  /\ UNCHANGED <<kind, mining>>

Next ==
  \E s \in Sessions :
    \/ \E d \in Devices : Start(s, d)
    \/ Granted(s) \/ Unsuited(s) \/ Mismatched(s) \/ Started(s) \/ NotStarted(s)
    \/ Monitor(s) \/ Monitored(s) \/ NotMonitored(s) \/ Stop(s) \/ Stopped(s) \/ NotStopped(s)

Spec == Init /\ [][Next]_vars

-----------------------------------------------------------------------------
(* Properties. *)

\* "Enforces explicit, exclusive session ownership by UUID" (isolation.ts): the one session at
\* work on a GPU or an ASIC is the owner of its claim, whatever calls of earlier sessions on
\* the device come late, and a claim has an owner at work, so no device stays locked.
DevicesAreOwned ==
  Exclusive =>
    /\ \A s \in Sessions : Active(s) => Owns(s)
    /\ \A d \in Devices : claims[d] # None => Active(claims[d]) /\ sessions[claims[d]].device = d

\* A grant is kept by a session exactly from its reservation to its end, and given back once:
\* no order of start(), monitor() and stop() releases a reservation twice.
GrantsAreKept ==
  \A s \in Sessions :
    /\ sessions[s].grant <=> sessions[s].stage \in {"prepared", "running", "monitored"}
    /\ leases[s] >= (IF sessions[s].grant THEN 1 ELSE 0)

\* What the code does not keep: a miner runs only for a session that holds a grant, and
\* a session that is over holds no reservation.
MinerIsBacked == \A s \in Sessions : mining[s] => sessions[s].grant
NothingLeaks == \A s \in Sessions : Known(s) /\ ~Active(s) => leases[s] = 0
=============================================================================
