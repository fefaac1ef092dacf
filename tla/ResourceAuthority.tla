-------------------------- MODULE ResourceAuthority --------------------------
(***************************************************************************)
(* The Institutional Resource Intelligence Authority                       *)
(* (core/resource_authority/src): reservations and allocations of the      *)
(* capacity of resources.  Every operation but the inventory sync is       *)
(* synchronous, so an action is a whole call; the interleavings are those  *)
(* of the calls several authorities make.  The authority keeps its truth   *)
(* twice, as the lists of reservations and allocations and as counters in  *)
(* the resource's profile.                                                 *)
(*                                                                         *)
(* A reservation or an allocation is named by its place in its list.       *)
(* availableCapacity is always the maximum less the two counters and       *)
(* leaseExpiration is never read again: both are left out, as are health,  *)
(* power and thermal blocking, which only refuse more requests.            *)
(* A request without a resourceId is a request for some resource.          *)
(***************************************************************************)
EXTENDS Integers, Sequences, FiniteSets, FiniteSetsExt

CONSTANTS
  Resources, Owners,
  Capacities,      \* capacities that requests ask for and inventories report
  Priorities,      \* priorities of reservations
  Calls,           \* kinds of calls beyond the orderly ones, see CallKinds
  MaxRequests      \* bound of the model on either list

\* activateReleased: activate() of an allocation that was released meanwhile
\* releaseAgain:     release() of what was already released (a retry)
\* releaseBoth:      release() naming an allocation and a reservation
\* resize:           the inventory reports another maximum for a known unit
CallKinds == {"activateReleased", "releaseAgain", "releaseBoth", "resize"}

None == "none"

ASSUME ResourceAssumption ==
  /\ None \notin Owners
  /\ Capacities \subseteq Nat \ {0} /\ Priorities \subseteq Nat
  /\ Calls \subseteq CallKinds /\ MaxRequests \in Nat

VARIABLES
  profiles,      \* ResourceRegistry, the resources synced so far
  reservations,
  allocations,
  lapsed         \* reservations whose expiresAt has passed

vars == <<profiles, reservations, allocations, lapsed>>

\* States no code path produces (unavailable, retired) or that never outlive
\* a call (discovered, registered, released) are left out.
States == {"available", "reserved", "allocated", "active"}
\* partial and priority allocations take the paths of shared ones.
Modes == {"exclusive", "shared", "temporary"}

Profile == [state : States, maximumCapacity : Nat, reservedCapacity : Nat,
            utilizedCapacity : Nat, currentOwner : Owners \cup {None}]
Reservation == [resource : Resources, owner : Owners, capacity : Capacities,
                priority : Priorities, expires : BOOLEAN,
                status : {"active", "expired", "released"}]
Allocation == [resource : Resources, owner : Owners, mode : Modes,
               capacity : Capacities, state : {"pending", "active", "released"}]

Known == DOMAIN profiles
Active(r) == {k \in DOMAIN reservations :
                reservations[k].resource = r /\ reservations[k].status = "active"}
Held(r) == {k \in DOMAIN allocations :
              allocations[k].resource = r /\ allocations[k].state \in {"pending", "active"}}
ReservedUnits(r) == MapThenSumSet(LAMBDA k : reservations[k].capacity, Active(r))
HeldUnits(r) == MapThenSumSet(LAMBDA k : allocations[k].capacity, Held(r))

Init ==
  /\ profiles = <<>>
  /\ reservations = <<>>
  /\ allocations = <<>>
  /\ lapsed = {}

----------------------------------------------------------------------------
\* The unit is new: discovered, registered and available in one call.
SyncNew(r, maximum) ==
  /\ r \notin Known
  /\ profiles' = [q \in Known \cup {r} |->
       IF q \in Known THEN profiles[q]
       ELSE [state |-> "available", maximumCapacity |-> maximum, reservedCapacity |-> 0,
             utilizedCapacity |-> 0, currentOwner |-> None]]
  /\ UNCHANGED <<reservations, allocations, lapsed>>

SyncKnown(r, maximum) ==
  /\ r \in Known
  /\ "resize" \in Calls
  /\ profiles' = [profiles EXCEPT ![r].maximumCapacity = maximum]
  /\ UNCHANGED <<reservations, allocations, lapsed>>

\* Mutant: the pending allocations are not counted.
MutEffectiveAvailable(r) ==
  profiles[r].maximumCapacity - ReservedUnits(r)
    - MapThenSumSet(LAMBDA k : allocations[k].capacity,
                    {k \in Held(r) : allocations[k].state = "active"})

\* computeEffectiveAvailable: from the lists, not from the counters.
EffectiveAvailable(r) ==
  profiles[r].maximumCapacity - ReservedUnits(r) - HeldUnits(r)

HeldExclusively(r) == \E k \in Held(r) : allocations[k].mode = "exclusive"

\* Mutant: an exclusive allocation does not block later requests.
MutIsAvailable(r, capacity) == EffectiveAvailable(r) >= capacity

\* evaluateAvailability of a request for some capacity.
IsAvailable(r, capacity) ==
  ~HeldExclusively(r) /\ EffectiveAvailable(r) >= capacity

\* Mutant: equal priorities conflict only for the same owner.
MutConflicts(k, owner, priority) ==
  /\ ~(reservations[k].expires /\ k \in lapsed)
  /\ \/ reservations[k].priority > priority
     \/ reservations[k].priority = priority /\ reservations[k].owner = owner

\* detectReservationConflict of a request that starts now: one that has lapsed
\* does not overlap it, even before expireReservations sweeps it.
Conflicts(k, owner, priority) ==
  /\ ~(reservations[k].expires /\ k \in lapsed)
  /\ \/ reservations[k].priority > priority
     \/ reservations[k].priority = priority /\ reservations[k].owner # owner

RequestReservation(r, owner, capacity, priority, expires) ==
  /\ Len(reservations) < MaxRequests
  /\ r \in Known
  /\ \A k \in Active(r) : ~Conflicts(k, owner, priority)
  /\ IsAvailable(r, capacity)
  /\ reservations' = Append(reservations,
       [resource |-> r, owner |-> owner, capacity |-> capacity, priority |-> priority,
        expires |-> expires, status |-> "active"])
  /\ profiles' = [profiles EXCEPT ![r].reservedCapacity = @ + capacity,
                                  ![r].state = "reserved"]
  /\ UNCHANGED <<allocations, lapsed>>

RequestAllocation(r, owner, mode, capacity) ==
  /\ Len(allocations) < MaxRequests
  /\ r \in Known
  /\ mode = "exclusive" => Held(r) = {}                 \* DoubleAllocationError
  /\ IsAvailable(r, capacity)
  /\ allocations' = Append(allocations,
       [resource |-> r, owner |-> owner, mode |-> mode, capacity |-> capacity,
        state |-> IF mode = "temporary" THEN "pending" ELSE "active"])
  /\ profiles' = [profiles EXCEPT
       ![r].utilizedCapacity = @ + capacity,
       ![r].currentOwner = owner,
       ![r].state = IF mode = "exclusive" THEN "allocated"
                    ELSE IF @ = "available" THEN "active" ELSE @]
  /\ UNCHANGED <<reservations, lapsed>>

\* The allocation is marked before the transition of the resource is checked,
\* so it stays marked when the transition is refused.
Activate(a) ==
  /\ a \in DOMAIN allocations
  /\ allocations[a].state = "released" => "activateReleased" \in Calls
  /\ allocations' = [allocations EXCEPT ![a].state = "active"]
  /\ profiles' = [profiles EXCEPT ![allocations[a].resource].state =
                    IF @ = "allocated" THEN "active" ELSE @]
  /\ UNCHANGED <<reservations, lapsed>>

----------------------------------------------------------------------------
Minus(a, b) == IF a > b THEN a - b ELSE 0

\* Mutant: nothing is utilized once an allocation is released.
MutWithoutAllocation(profile, allocation) ==
  [profile EXCEPT !.utilizedCapacity = 0, !.currentOwner = None, !.state = "available"]

\* Mutant: released does not become available.
StuckWithoutAllocation(profile, allocation) ==
  [profile EXCEPT !.utilizedCapacity = Minus(@, allocation.capacity),
                  !.currentOwner = None, !.state = "released"]

\* releaseAllocationFromProfile; released then becomes available.
WithoutAllocation(profile, allocation) ==
  [profile EXCEPT !.utilizedCapacity = Minus(@, allocation.capacity),
                  !.currentOwner = None,
                  !.state = "available"]

\* releaseReservationFromProfile
WithoutReservation(profile, reservation) ==
  LET rest == Minus(profile.reservedCapacity, reservation.capacity)
  IN  [profile EXCEPT !.reservedCapacity = rest,
                      !.state = IF rest > 0 THEN "reserved" ELSE "available"]

\* A caller releases what it was granted; again only when it retries.
MayReleaseAllocation(r, a) ==
  /\ a \in DOMAIN allocations /\ allocations[a].resource = r
  /\ a \in Held(r) \/ "releaseAgain" \in Calls
MayReleaseReservation(r, k) ==
  /\ k \in DOMAIN reservations /\ reservations[k].resource = r
  /\ k \in Active(r) \/ "releaseAgain" \in Calls

ReleaseAllocation(r, a) ==
  /\ MayReleaseAllocation(r, a)
  /\ allocations' = [allocations EXCEPT ![a].state = "released"]
  /\ profiles' = [profiles EXCEPT ![r] = WithoutAllocation(@, allocations[a])]
  /\ UNCHANGED <<reservations, lapsed>>

ReleaseReservation(r, k) ==
  /\ MayReleaseReservation(r, k)
  /\ reservations' = [reservations EXCEPT ![k].status = "released"]
  /\ profiles' = [profiles EXCEPT ![r] = WithoutReservation(@, reservations[k])]
  /\ UNCHANGED <<allocations, lapsed>>

\* Both in one call: the reservation is taken off the profile read before the
\* allocation was, and that profile replaces the one just stored.
ReleaseBoth(r, a, k) ==
  /\ "releaseBoth" \in Calls
  /\ MayReleaseAllocation(r, a) /\ MayReleaseReservation(r, k)
  /\ allocations' = [allocations EXCEPT ![a].state = "released"]
  /\ reservations' = [reservations EXCEPT ![k].status = "released"]
  /\ profiles' = [profiles EXCEPT ![r] = WithoutReservation(@, reservations[k])]
  /\ UNCHANGED lapsed

\* The clock passes a reservation's expiresAt.
Lapse(k) ==
  /\ k \in DOMAIN reservations \ lapsed
  /\ reservations[k].expires
  /\ lapsed' = lapsed \cup {k}
  /\ UNCHANGED <<profiles, reservations, allocations>>

Swept == {k \in lapsed : reservations[k].status = "active"}

\* The sweep takes its reservations off one by one; what is left of a profile
\* does not depend on their order.
ExpireReservations ==
  /\ Swept # {}
  /\ reservations' = [k \in DOMAIN reservations |->
       IF k \in Swept THEN [reservations[k] EXCEPT !.status = "expired"] ELSE reservations[k]]
  /\ profiles' = [r \in Known |->
       LET mine == {k \in Swept : reservations[k].resource = r}
       IN  IF mine = {} THEN profiles[r]
           ELSE WithoutReservation(profiles[r],
                  [capacity |-> MapThenSumSet(LAMBDA k : reservations[k].capacity, mine)])]
  /\ UNCHANGED <<allocations, lapsed>>

Next ==
  \/ \E r \in Resources, m \in Capacities : SyncNew(r, m) \/ SyncKnown(r, m)
  \/ \E r \in Resources, o \in Owners, c \in Capacities, p \in Priorities, e \in BOOLEAN :
       RequestReservation(r, o, c, p, e)
  \/ \E r \in Resources, o \in Owners, m \in Modes, c \in Capacities : RequestAllocation(r, o, m, c)
  \/ \E a \in 1..MaxRequests : Activate(a)
  \/ \E r \in Resources, a \in 1..MaxRequests : ReleaseAllocation(r, a) \/ ReleaseReservation(r, a)
  \/ \E r \in Resources, a, k \in 1..MaxRequests : ReleaseBoth(r, a, k)
  \/ \E k \in 1..MaxRequests : Lapse(k)
  \/ ExpireReservations

Spec == Init /\ [][Next]_vars

----------------------------------------------------------------------------
(* Properties                                                              *)

\* Every variable has its type.
TypeOK ==
  /\ Known \subseteq Resources /\ profiles \in [Known -> Profile]
  /\ reservations \in Seq(Reservation) /\ Len(reservations) <= MaxRequests
  /\ allocations \in Seq(Allocation) /\ Len(allocations) <= MaxRequests
  /\ lapsed \subseteq DOMAIN reservations
  /\ \A r \in Resources \ Known : Active(r) = {} /\ Held(r) = {}

\* No grant overcommits a resource (ADR-0011: "rejection of [...] capacity
\* overcommit"): a call after which more is promised of a resource than before
\* leaves the promises within its maximum, however the counters of the profile
\* have drifted and whatever the inventory did to the maximum.
Promised(r) == ReservedUnits(r) + HeldUnits(r)
GrantsFit ==
  [][\A r \in Known : Promised(r)' > Promised(r) => Promised(r)' <= profiles'[r].maximumCapacity]_vars

\* "Rejection of double exclusive allocation" (ADR-0011): whoever holds a
\* resource exclusively is the only one to hold any of it.
ExclusiveAlone == \A r \in Known : HeldExclusively(r) => Cardinality(Held(r)) = 1

\* Of two active reservations of different owners that overlap, the later one
\* was granted over the earlier one only by a higher priority.
ReservationPrecedence ==
  \A r \in Known : \A j, k \in Active(r) \ lapsed :
    j < k /\ reservations[j].owner # reservations[k].owner
    => reservations[j].priority < reservations[k].priority

\* The counters in the profile, from which utilization is reported, never
\* understate what the lists hold, even after a call that released both kinds.
CountersCover ==
  \A r \in Known :
    /\ profiles[r].reservedCapacity = ReservedUnits(r)
    /\ profiles[r].utilizedCapacity >= HeldUnits(r)

\* "Detect [...] leaks, inconsistencies" (PHASE-18): the counters in the profile
\* agree with the lists they summarise.
CountersAgree ==
  \A r \in Known :
    /\ profiles[r].reservedCapacity = ReservedUnits(r)
    /\ profiles[r].utilizedCapacity = HeldUnits(r)

\* "Ownership/leasing always explicit" (PHASE-18): a resource of which
\* something is allocated has an owner.
OwnershipExplicit == \A r \in Known : Held(r) # {} => profiles[r].currentOwner # None

\* RESOURCE_STATE_TRANSITIONS, "allowed resource lifecycle state transitions";
\* a call may pass through released.
Allowed == [available |-> {"reserved", "allocated"},
            reserved  |-> {"available", "allocated"},
            allocated |-> {"active", "available"},
            active    |-> {"available"}]
\* Applied to an available resource, a shared allocation skips allocated.
LifecycleRespected ==
  [][\A r \in Known :
       LET from == profiles[r].state
           to   == profiles'[r].state
       IN  from = to \/ to \in Allowed[from] \/ (from = "available" /\ to = "active")]_vars
=============================================================================
