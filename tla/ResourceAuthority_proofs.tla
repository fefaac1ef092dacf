----------------------- MODULE ResourceAuthority_proofs -----------------------
(* Theorems about ResourceAuthority, for any resources, owners, capacities,    *)
(* priorities and bounds.                                                      *)
EXTENDS ResourceAuthority, TLAPS, SequenceTheorems, FiniteSetTheorems, WellFoundedInduction

----------------------------------------------------------------------------
(* The two lists: a call appends to a list or changes one entry's status.      *)

LEMMA Appended ==
  ASSUME NEW T, NEW s \in Seq(T), NEW r \in T
  PROVE  /\ Append(s, r) \in Seq(T)
         /\ Len(Append(s, r)) = Len(s) + 1
         /\ DOMAIN Append(s, r) = DOMAIN s \cup {Len(s) + 1}
         /\ Len(s) + 1 \notin DOMAIN s
         /\ \A k \in DOMAIN s : k < Len(s) + 1
         /\ Append(s, r)[Len(s) + 1] = r
         /\ \A k \in DOMAIN s : Append(s, r)[k] = s[k]
  OBVIOUS

LEMMA Replaced ==
  ASSUME NEW T, NEW s \in Seq(T), NEW p \in DOMAIN s, NEW r \in T
  PROVE  /\ [s EXCEPT ![p] = r] \in Seq(T)
         /\ Len([s EXCEPT ![p] = r]) = Len(s)
         /\ DOMAIN [s EXCEPT ![p] = r] = DOMAIN s
         /\ [s EXCEPT ![p] = r][p] = r
         /\ \A k \in DOMAIN s \ {p} : [s EXCEPT ![p] = r][k] = s[k]
  BY ExceptSeq, LenProperties

\* What the proofs need of the types.
ListsOK ==
  /\ Known \subseteq Resources
  /\ reservations \in Seq(Reservation)
  /\ allocations \in Seq(Allocation)

IsHeld(a) == allocations[a].state \in {"pending", "active"}
IsActive(k) == reservations[k].status = "active"

\* Everything a step does to the lists.
Granted(r, mode) ==
  \E o \in Owners, c \in Capacities, st \in {"pending", "active"} :
    /\ mode = "exclusive" => Held(r) = {}
    /\ ~HeldExclusively(r)
    /\ allocations' = Append(allocations, [resource |-> r, owner |-> o, mode |-> mode, capacity |-> c, state |-> st])
Marked(a, st) ==
  /\ a \in DOMAIN allocations
  /\ st = "active" => IsHeld(a)
  /\ allocations' = [allocations EXCEPT ![a] = [allocations[a] EXCEPT !.state = st]]
AllocationsStep ==
  \/ UNCHANGED allocations
  \/ \E r \in Resources, mode \in Modes : Granted(r, mode)
  \/ \E a \in DOMAIN allocations, st \in {"active", "released"} : Marked(a, st)

Promise(r, owner, capacity, priority, expires) ==
  [resource |-> r, owner |-> owner, capacity |-> capacity, priority |-> priority,
   expires |-> expires, status |-> "active"]
Reserved(r) ==
  \E owner \in Owners, capacity \in Capacities, priority \in Priorities, expires \in BOOLEAN :
    /\ \A k \in Active(r) : ~Conflicts(k, owner, priority)
    /\ reservations' = Append(reservations, Promise(r, owner, capacity, priority, expires))
Ended(K, st) ==
  reservations' = [k \in DOMAIN reservations |->
    IF k \in K THEN [reservations[k] EXCEPT !.status = st] ELSE reservations[k]]
ReservationsStep ==
  \/ UNCHANGED reservations
  \/ \E r \in Resources : Reserved(r)
  \/ \E K \in SUBSET DOMAIN reservations, st \in {"expired", "released"} : Ended(K, st)

LEMMA ReleasedIsEnded ==
  ASSUME reservations \in Seq(Reservation), NEW k \in DOMAIN reservations,
         reservations' = [reservations EXCEPT ![k].status = "released"]
  PROVE  Ended({k}, "released")
  BY DEF Ended

LEMMA ActivateShape ==
  ASSUME ListsOK, "activateReleased" \notin Calls, NEW a, Activate(a)
  PROVE  Marked(a, "active") /\ UNCHANGED <<reservations, lapsed>> /\ Known' = Known
  <1>1. a \in DOMAIN allocations /\ allocations[a].state # "released"
    BY DEF Activate
  <1>2. allocations[a] \in Allocation
    BY <1>1, ElementOfSeq, LenProperties DEF ListsOK
  <1>3. IsHeld(a)
    BY <1>1, <1>2 DEF IsHeld, Allocation
  <1> QED
    BY <1>1, <1>3 DEF Activate, Marked, Known

\* Every step is one of those on each list, the clock only goes on, and a
\* resource once known stays known.
LEMMA StepShape ==
  ASSUME ListsOK, "activateReleased" \notin Calls, [Next]_vars
  PROVE  AllocationsStep /\ ReservationsStep /\ lapsed \subseteq lapsed' /\ Known' \subseteq Resources
  <1>a. ASSUME NEW r \in Resources, NEW m \in Capacities, SyncNew(r, m) \/ SyncKnown(r, m)
        PROVE  AllocationsStep /\ ReservationsStep /\ lapsed \subseteq lapsed' /\ Known' \subseteq Resources
    BY <1>a DEF SyncNew, SyncKnown, AllocationsStep, ReservationsStep, ListsOK, Known
  <1>b. ASSUME NEW r \in Resources, NEW o \in Owners, NEW c \in Capacities, NEW p \in Priorities, NEW e \in BOOLEAN,
               RequestReservation(r, o, c, p, e)
        PROVE  AllocationsStep /\ ReservationsStep /\ lapsed \subseteq lapsed' /\ Known' \subseteq Resources
    <2>1. Reserved(r)
      BY <1>b DEF RequestReservation, Reserved, Promise
    <2> QED
      BY <1>b, <2>1 DEF RequestReservation, AllocationsStep, ReservationsStep, ListsOK, Known
  <1>c. ASSUME NEW r \in Resources, NEW o \in Owners, NEW m \in Modes, NEW c \in Capacities,
               RequestAllocation(r, o, m, c)
        PROVE  AllocationsStep /\ ReservationsStep /\ lapsed \subseteq lapsed' /\ Known' \subseteq Resources
    <2>1. Granted(r, m)
      BY <1>c DEF RequestAllocation, IsAvailable, Granted
    <2> QED
      BY <1>c, <2>1 DEF RequestAllocation, AllocationsStep, ReservationsStep, ListsOK, Known
  <1>d. ASSUME NEW a \in 1..MaxRequests, Activate(a)
        PROVE  AllocationsStep /\ ReservationsStep /\ lapsed \subseteq lapsed' /\ Known' \subseteq Resources
    <2>1. a \in DOMAIN allocations
      BY <1>d DEF Activate
    <2> QED
      BY <1>d, <2>1, ActivateShape DEF AllocationsStep, ReservationsStep, ListsOK
  <1>e. ASSUME NEW r \in Resources, NEW a \in 1..MaxRequests, ReleaseAllocation(r, a)
        PROVE  AllocationsStep /\ ReservationsStep /\ lapsed \subseteq lapsed' /\ Known' \subseteq Resources
    <2>1. a \in DOMAIN allocations /\ Marked(a, "released")
      BY <1>e DEF ReleaseAllocation, MayReleaseAllocation, Marked
    <2> QED
      BY <1>e, <2>1 DEF ReleaseAllocation, AllocationsStep, ReservationsStep, ListsOK, Known
  <1>f. ASSUME NEW r \in Resources, NEW k \in 1..MaxRequests, ReleaseReservation(r, k)
        PROVE  AllocationsStep /\ ReservationsStep /\ lapsed \subseteq lapsed' /\ Known' \subseteq Resources
    <2>1. k \in DOMAIN reservations /\ Ended({k}, "released")
      BY <1>f, ReleasedIsEnded DEF ReleaseReservation, MayReleaseReservation, ListsOK
    <2> QED
      BY <1>f, <2>1 DEF ReleaseReservation, AllocationsStep, ReservationsStep, ListsOK, Known
  <1>g. ASSUME NEW r \in Resources, NEW a \in 1..MaxRequests, NEW k \in 1..MaxRequests, ReleaseBoth(r, a, k)
        PROVE  AllocationsStep /\ ReservationsStep /\ lapsed \subseteq lapsed' /\ Known' \subseteq Resources
    <2>1. k \in DOMAIN reservations /\ Ended({k}, "released")
      BY <1>g, ReleasedIsEnded DEF ReleaseBoth, MayReleaseReservation, ListsOK
    <2>2. a \in DOMAIN allocations /\ Marked(a, "released")
      BY <1>g DEF ReleaseBoth, MayReleaseAllocation, Marked
    <2> QED
      BY <1>g, <2>1, <2>2 DEF ReleaseBoth, AllocationsStep, ReservationsStep, ListsOK, Known
  <1>h. ASSUME NEW k \in 1..MaxRequests, Lapse(k)
        PROVE  AllocationsStep /\ ReservationsStep /\ lapsed \subseteq lapsed' /\ Known' \subseteq Resources
    BY <1>h DEF Lapse, AllocationsStep, ReservationsStep, ListsOK, Known
  <1>i. ASSUME ExpireReservations
        PROVE  AllocationsStep /\ ReservationsStep /\ lapsed \subseteq lapsed' /\ Known' \subseteq Resources
    <2> DEFINE K == Swept \cap DOMAIN reservations
    <2>1. Ended(K, "expired") /\ K \in SUBSET DOMAIN reservations
      BY <1>i DEF ExpireReservations, Ended
    <2>2. Known' = Known
      BY <1>i DEF ExpireReservations, Known
    <2> HIDE DEF K
    <2> QED
      BY <1>i, <2>1, <2>2 DEF ExpireReservations, AllocationsStep, ReservationsStep, ListsOK
  <1>j. CASE UNCHANGED vars
    BY <1>j DEF vars, AllocationsStep, ReservationsStep, ListsOK, Known
  <1> QED
    BY <1>a, <1>b, <1>c, <1>d, <1>e, <1>f, <1>g, <1>h, <1>i, <1>j DEF Next

----------------------------------------------------------------------------
(* The types are kept. *)

LEMMA AllocationsType ==
  ASSUME ListsOK, AllocationsStep
  PROVE  allocations' \in Seq(Allocation)
  <1>1. ASSUME NEW r \in Resources, NEW mode \in Modes, Granted(r, mode)
        PROVE  allocations' \in Seq(Allocation)
    BY <1>1, Appended DEF Granted, ListsOK, Allocation
  <1>2. ASSUME NEW a \in DOMAIN allocations, NEW st \in {"active", "released"}, Marked(a, st)
        PROVE  allocations' \in Seq(Allocation)
    <2>1. allocations[a] \in Allocation
      BY ElementOfSeq, LenProperties DEF ListsOK
    <2>2. [allocations[a] EXCEPT !.state = st] \in Allocation
      BY <2>1 DEF Allocation
    <2> QED
      BY <1>2, <2>2, Replaced DEF Marked, ListsOK
  <1> QED
    BY <1>1, <1>2 DEF AllocationsStep, ListsOK

LEMMA ReservationsType ==
  ASSUME ListsOK, ReservationsStep
  PROVE  reservations' \in Seq(Reservation)
  <1>1. ASSUME NEW r \in Resources, Reserved(r)
        PROVE  reservations' \in Seq(Reservation)
    BY <1>1, Appended DEF Reserved, Promise, ListsOK, Reservation
  <1>2. ASSUME NEW K \in SUBSET DOMAIN reservations, NEW st \in {"expired", "released"}, Ended(K, st)
        PROVE  reservations' \in Seq(Reservation)
    <2>1. \A k \in DOMAIN reservations : reservations[k] \in Reservation
      BY ElementOfSeq, LenProperties DEF ListsOK
    <2>2. \A k \in DOMAIN reservations : [reservations[k] EXCEPT !.status = st] \in Reservation
      BY <2>1 DEF Reservation
    <2>3. reservations' \in [1..Len(reservations) -> Reservation] /\ Len(reservations) \in Nat
      BY <1>2, <2>1, <2>2, LenProperties DEF Ended, ListsOK
    <2> QED
      BY <2>3, IsASeq
  <1> QED
    BY <1>1, <1>2 DEF ReservationsStep, ListsOK

----------------------------------------------------------------------------
(* What the lists say of exclusivity and precedence, without the profiles.     *)

Alone ==
  \A a, b \in DOMAIN allocations :
    /\ IsHeld(a) /\ IsHeld(b)
    /\ allocations[a].resource = allocations[b].resource
    /\ allocations[a].mode = "exclusive"
    => a = b

Precedence ==
  \A j, k \in DOMAIN reservations \ lapsed :
    /\ IsActive(j) /\ IsActive(k) /\ j < k
    /\ reservations[j].resource = reservations[k].resource
    /\ reservations[j].owner # reservations[k].owner
    => reservations[j].priority < reservations[k].priority

LEMMA AloneIsKept ==
  ASSUME ListsOK, Alone, AllocationsStep
  PROVE  Alone'
  <1>1. ASSUME NEW r \in Resources, NEW mode \in Modes, Granted(r, mode)
        PROVE  Alone'
    <2>1. PICK o \in Owners, c \in Capacities, st \in {"pending", "active"} :
            allocations' = Append(allocations, [resource |-> r, owner |-> o, mode |-> mode, capacity |-> c, state |-> st])
      BY <1>1 DEF Granted
    <2> DEFINE n == Len(allocations) + 1
               e == [resource |-> r, owner |-> o, mode |-> mode, capacity |-> c, state |-> st]
    <2>2. e \in Allocation
      BY DEF Allocation
    <2>3. /\ DOMAIN allocations' = DOMAIN allocations \cup {n}
          /\ allocations'[n] = e
          /\ \A k \in DOMAIN allocations : allocations'[k] = allocations[k]
      BY <2>1, <2>2, Appended DEF ListsOK
    <2>4. \A k \in DOMAIN allocations : IsHeld(k) /\ allocations[k].resource = r
            => mode # "exclusive" /\ allocations[k].mode # "exclusive"
      BY <1>1 DEF Granted, HeldExclusively, Held, IsHeld
    <2>5. e.resource = r /\ e.mode = mode
      OBVIOUS
    <2> HIDE DEF e, n
    <2> QED
      BY <2>3, <2>4, <2>5 DEF Alone, IsHeld
  <1>2. ASSUME NEW a \in DOMAIN allocations, NEW st \in {"active", "released"}, Marked(a, st)
        PROVE  Alone'
    <2> DEFINE e == [allocations[a] EXCEPT !.state = st]
    <2>1. allocations[a] \in Allocation
      BY ElementOfSeq, LenProperties DEF ListsOK
    <2>2. e \in Allocation /\ e.resource = allocations[a].resource /\ e.mode = allocations[a].mode /\ e.state = st
      BY <2>1 DEF Allocation
    <2>3. /\ DOMAIN allocations' = DOMAIN allocations
          /\ allocations'[a] = e
          /\ \A k \in DOMAIN allocations \ {a} : allocations'[k] = allocations[k]
      BY <1>2, <2>2, Replaced DEF Marked, ListsOK
    <2>4. st = "active" => IsHeld(a)
      BY <1>2 DEF Marked
    <2> HIDE DEF e
    <2> QED
      BY <2>2, <2>3, <2>4 DEF Alone, IsHeld
  <1>3. CASE UNCHANGED allocations
    BY <1>3 DEF Alone, IsHeld
  <1> QED
    BY <1>1, <1>2, <1>3 DEF AllocationsStep

LEMMA PrecedenceIsKept ==
  ASSUME ListsOK, Precedence, ReservationsStep, lapsed \subseteq lapsed'
  PROVE  Precedence'
  <1>1. ASSUME NEW r \in Resources, Reserved(r)
        PROVE  Precedence'
    <2>1. PICK owner \in Owners, capacity \in Capacities, priority \in Priorities, expires \in BOOLEAN :
            /\ \A k \in Active(r) : ~Conflicts(k, owner, priority)
            /\ reservations' = Append(reservations, Promise(r, owner, capacity, priority, expires))
      BY <1>1 DEF Reserved
    <2> DEFINE n == Len(reservations) + 1
               e == Promise(r, owner, capacity, priority, expires)
    <2>2. e \in Reservation
      BY DEF Promise, Reservation
    <2>3. /\ DOMAIN reservations' = DOMAIN reservations \cup {n}
          /\ n \notin DOMAIN reservations /\ n \in Nat
          /\ \A k \in DOMAIN reservations : k < n /\ k \in Nat
          /\ reservations'[n] = e
          /\ \A k \in DOMAIN reservations : reservations'[k] = reservations[k]
      BY <2>1, <2>2, Appended, LenProperties DEF ListsOK
    <2>4. e.resource = r /\ e.owner = owner /\ e.priority = priority
      BY DEF Promise
    <2>5. \A k \in DOMAIN reservations \ lapsed :
            IsActive(k) /\ reservations[k].resource = r /\ reservations[k].owner # owner
            => ~(reservations[k].priority > priority) /\ reservations[k].priority # priority
      BY <2>1 DEF Active, IsActive, Conflicts
    <2>6. \A k \in DOMAIN reservations : reservations[k].priority \in Nat
      <3>1. \A k \in DOMAIN reservations : reservations[k] \in Reservation
        BY ElementOfSeq, LenProperties DEF ListsOK
      <3> QED
        BY <3>1, ResourceAssumption DEF Reservation
    <2>7. priority \in Nat
      BY ResourceAssumption
    <2>8. \A k \in DOMAIN reservations \ lapsed :
            IsActive(k) /\ reservations[k].resource = r /\ reservations[k].owner # owner
            => reservations[k].priority < priority
      BY <2>5, <2>6, <2>7
    <2> HIDE DEF e, n
    <2>9. ASSUME NEW j \in DOMAIN reservations' \ lapsed', NEW k \in DOMAIN reservations' \ lapsed',
                 IsActive(j)', IsActive(k)', j < k, reservations'[j].resource = reservations'[k].resource,
                 reservations'[j].owner # reservations'[k].owner
          PROVE  reservations'[j].priority < reservations'[k].priority
      <3>1. j \in DOMAIN reservations \ lapsed
        BY <2>3, <2>9
      <3>2. CASE k = n
        BY <2>3, <2>4, <2>8, <2>9, <3>1, <3>2 DEF IsActive
      <3>3. CASE k # n
        BY <2>3, <2>9, <3>1, <3>3 DEF IsActive, Precedence
      <3> QED
        BY <3>2, <3>3
    <2> QED
      BY <2>9 DEF Precedence
  <1>2. ASSUME NEW K \in SUBSET DOMAIN reservations, NEW st \in {"expired", "released"}, Ended(K, st)
        PROVE  Precedence'
    <2>1. \A k \in DOMAIN reservations : reservations[k] \in Reservation
      BY ElementOfSeq, LenProperties DEF ListsOK
    <2>2. DOMAIN reservations' = DOMAIN reservations
      BY <1>2 DEF Ended
    <2>3. \A k \in DOMAIN reservations :
            /\ reservations'[k].resource = reservations[k].resource
            /\ reservations'[k].owner = reservations[k].owner
            /\ reservations'[k].priority = reservations[k].priority
            /\ reservations'[k].status = "active" => reservations[k].status = "active"
      BY <1>2, <2>1 DEF Ended, Reservation
    <2> QED
      BY <2>2, <2>3 DEF Precedence, IsActive
  <1>3. CASE UNCHANGED reservations
    BY <1>3 DEF Precedence, IsActive
  <1> QED
    BY <1>1, <1>2, <1>3 DEF ReservationsStep

----------------------------------------------------------------------------
IInv == ListsOK /\ Alone /\ Precedence

LEMMA InitIInv == Init => IInv
  <1> SUFFICES ASSUME Init PROVE IInv
    OBVIOUS
  <1>1. ListsOK
    BY EmptySeq DEF Init, ListsOK, Known
  <1> QED
    BY <1>1 DEF Init, IInv, Alone, Precedence

LEMMA NextIInv == ASSUME "activateReleased" \notin Calls, IInv, [Next]_vars PROVE IInv'
  <1>1. AllocationsStep /\ ReservationsStep /\ lapsed \subseteq lapsed' /\ Known' \subseteq Resources
    BY StepShape DEF IInv
  <1>2. ListsOK'
    BY <1>1, AllocationsType, ReservationsType DEF IInv, ListsOK
  <1> QED
    BY <1>1, <1>2, AloneIsKept, PrecedenceIsKept DEF IInv

LEMMA IInvHolds == ASSUME "activateReleased" \notin Calls PROVE Spec => []IInv
  <1>1. IInv /\ [Next]_vars => IInv'
    BY NextIInv
  <1> QED
    BY <1>1, InitIInv, PTL DEF Spec

LEMMA AloneCounts == IInv => ExclusiveAlone
  <1> SUFFICES ASSUME IInv, NEW r \in Known, HeldExclusively(r)
               PROVE  Cardinality(Held(r)) = 1
    BY DEF ExclusiveAlone
  <1>1. PICK a \in Held(r) : allocations[a].mode = "exclusive"
    BY DEF HeldExclusively
  <1>2. Held(r) = {a}
    BY <1>1 DEF IInv, Alone, Held, IsHeld
  <1> QED
    BY <1>2, FS_Singleton

\* Whoever holds a resource exclusively is the only one to hold any of it,
\* whatever is requested, released twice, released together or resized, as long
\* as nobody activates an allocation that was released.
THEOREM NeverShared == ASSUME "activateReleased" \notin Calls PROVE Spec => []ExclusiveAlone
  BY IInvHolds, AloneCounts, PTL

LEMMA PrecedenceHolds == IInv => ReservationPrecedence
  BY DEF IInv, Precedence, ReservationPrecedence, Active, IsActive

\* Of two overlapping reservations of different owners the later one has the
\* higher priority, however the sweep and the clock interleave with requests.
THEOREM LaterIsHigher == ASSUME "activateReleased" \notin Calls PROVE Spec => []ReservationPrecedence
  BY IInvHolds, PrecedenceHolds, PTL

----------------------------------------------------------------------------
(* Sums of capacities.                                                         *)

LEMMA Least ==
  ASSUME NEW T \in SUBSET Nat, T # {}
  PROVE  \E m \in T : \A n \in T : m <= n
  <1>1. PICK m \in T : \A n \in T : ~(<<n, m>> \in OpToRel(<, Nat))
    BY NatLessThanWellFounded, WFMin
  <1>2. \A n \in T : ~(n < m)
    BY <1>1 DEF OpToRel
  <1> QED
    BY <1>2

\* A sum of capacities is the number of units the entries are made of.
Total(list, S) == MapThenSumSet(LAMBDA k : list[k].capacity, S)
Units(list, S) == {u \in S \X Nat : u[2] \in 1..list[u[1]].capacity}
Sized(list, S) == IsFiniteSet(S) /\ \A k \in S : list[k].capacity \in Nat

LEMMA UnitsOfOne ==
  ASSUME NEW list, NEW k, list[k].capacity \in Nat
  PROVE  IsFiniteSet(Units(list, {k})) /\ Cardinality(Units(list, {k})) = list[k].capacity
  <1> DEFINE c == list[k].capacity
  <1>1. Units(list, {k}) = {k} \X (1..c)
    BY DEF Units
  <1>2. IsFiniteSet(1..c) /\ Cardinality(1..c) = c
    <2>1. c \in Nat /\ 1 \in Int /\ c \in Int
      OBVIOUS
    <2> HIDE DEF c
    <2>2. IsFiniteSet(1..c) /\ Cardinality(1..c) = IF 1 > c THEN 0 ELSE c - 1 + 1
      BY <2>1, FS_Interval
    <2> QED
      BY <2>1, <2>2
  <1>3. IsFiniteSet({k}) /\ Cardinality({k}) = 1
    BY FS_Singleton
  <1>4. IsFiniteSet({k} \X (1..c)) /\ Cardinality({k} \X (1..c)) = 1 * c
    BY <1>2, <1>3, FS_Product
  <1>5. 1 * c = c
    OBVIOUS
  <1> HIDE DEF c
  <1>6. Cardinality(Units(list, {k})) = c /\ IsFiniteSet(Units(list, {k}))
    BY <1>1, <1>4, <1>5
  <1> QED
    BY <1>6 DEF c

LEMMA UnitsFinite ==
  ASSUME NEW list, NEW S, Sized(list, S)
  PROVE  IsFiniteSet(Units(list, S)) /\ Cardinality(Units(list, S)) \in Nat
  <1> DEFINE C == {Units(list, {k}) : k \in S}
  <1>1. \A T \in C : IsFiniteSet(T)
    BY UnitsOfOne DEF Sized
  <1>2. IsFiniteSet(C)
    <2> DEFINE f == [k \in S |-> Units(list, {k})]
    <2>1. f \in Surjection(S, C)
      BY DEF Surjection
    <2> HIDE DEF f, C
    <2> QED
      BY <2>1, FS_Surjection DEF Sized
  <1>3. IsFiniteSet(UNION C)
    <2> HIDE DEF C
    <2> QED
      BY <1>1, <1>2, FS_UNION
  <1>4. Units(list, S) \in SUBSET UNION C
    BY DEF Units
  <1> HIDE DEF C
  <1> QED
    BY <1>3, <1>4, FS_Subset, FS_CardinalityType

LEMMA UnitsOfBoth ==
  ASSUME NEW list, NEW S, NEW T, Sized(list, S), Sized(list, T), S \cap T = {}
  PROVE  Cardinality(Units(list, S \cup T)) = Cardinality(Units(list, S)) + Cardinality(Units(list, T))
  <1>1. Units(list, S \cup T) = Units(list, S) \cup Units(list, T)
    BY DEF Units
  <1>2. Units(list, S) \cap Units(list, T) = {}
    BY DEF Units
  <1>3. Cardinality(Units(list, S) \cap Units(list, T)) = 0
    BY <1>2, FS_EmptySet
  <1> DEFINE A == Units(list, S)
             B == Units(list, T)
  <1>4. IsFiniteSet(A) /\ IsFiniteSet(B) /\ Cardinality(A) \in Nat /\ Cardinality(B) \in Nat
    BY UnitsFinite
  <1>5. Cardinality(A \cap B) = 0 /\ Units(list, S \cup T) = A \cup B
    BY <1>1, <1>3
  <1> HIDE DEF A, B
  <1>6. Cardinality(A \cup B) = Cardinality(A) + Cardinality(B) - Cardinality(A \cap B)
    BY <1>4, FS_Union
  <1>7. Cardinality(A \cup B) = Cardinality(A) + Cardinality(B)
    BY <1>4, <1>5, <1>6
  <1> QED
    BY <1>5, <1>7 DEF A, B

\* The recursion of the library counts them one entry after the other.
LEMMA TotalIs ==
  ASSUME NEW list, NEW S, Sized(list, S)
  PROVE  Total(list, S) = Cardinality(Units(list, S))
  <1> DEFINE pick(s) == CHOOSE x \in s : TRUE
             Counts(f) == f = [s \in SUBSET S |-> IF s = {} THEN 0 ELSE list[pick(s)].capacity + f[s \ {pick(s)}]]
             count == [s \in SUBSET S |-> Cardinality(Units(list, s))]
             iter == CHOOSE f : Counts(f)
  <1>1. Total(list, S) = iter[S]
    BY DEF Total, MapThenSumSet, MapThenFoldSet
  <1>2. \A s \in SUBSET S : Sized(list, s)
    BY FS_Subset DEF Sized
  <1>3. ASSUME NEW s \in SUBSET S, s # {}
        PROVE  /\ pick(s) \in s
               /\ Cardinality(Units(list, s)) = list[pick(s)].capacity + Cardinality(Units(list, s \ {pick(s)}))
    <2>1. pick(s) \in s
      BY <1>3
    <2> DEFINE x == pick(s)
    <2> HIDE DEF x
    <2>2. x \in s
      BY <2>1 DEF x
    <2>3. Sized(list, {x}) /\ Sized(list, s \ {x}) /\ {x} \cap (s \ {x}) = {} /\ {x} \cup (s \ {x}) = s
      <3>1. {x} \in SUBSET S /\ s \ {x} \in SUBSET S
        BY <2>2
      <3> QED
        BY <1>2, <2>2, <3>1
    <2>4. Cardinality(Units(list, {x} \cup (s \ {x}))) = Cardinality(Units(list, {x})) + Cardinality(Units(list, s \ {x}))
      BY <2>3, UnitsOfBoth
    <2>5. list[x].capacity \in Nat
      BY <2>2 DEF Sized
    <2>6. Cardinality(Units(list, {x})) = list[x].capacity
      BY <2>5, UnitsOfOne
    <2>7. Cardinality(Units(list, s)) = list[x].capacity + Cardinality(Units(list, s \ {x}))
      BY <2>3, <2>4, <2>6
    <2> QED
      BY <2>1, <2>7 DEF x
  <1>4. Cardinality(Units(list, {})) = 0
    <2>1. Units(list, {}) = {}
      BY DEF Units
    <2> QED
      BY <2>1, FS_EmptySet
  <1>5. Counts(count)
    <2>1. ASSUME NEW s \in SUBSET S
          PROVE  count[s] = IF s = {} THEN 0 ELSE list[pick(s)].capacity + count[s \ {pick(s)}]
      <3>1. CASE s = {}
        BY <1>4, <3>1
      <3>2. CASE s # {}
        <4>1. s \ {pick(s)} \in SUBSET S
          OBVIOUS
        <4> QED
          BY <1>3, <3>2, <4>1
      <3> QED
        BY <3>1, <3>2
    <2> DEFINE Value(s) == IF s = {} THEN 0 ELSE list[pick(s)].capacity + count[s \ {pick(s)}]
    <2>2. \A s \in SUBSET S : count[s] = Value(s)
      BY <2>1
    <2>3. count = [s \in SUBSET S |-> count[s]]
      OBVIOUS
    <2> HIDE DEF count, Value
    <2>4. count = [s \in SUBSET S |-> Value(s)]
      BY <2>2, <2>3
    <2> QED
      BY <2>4 DEF Value
  <1>6. Counts(iter)
    <2> HIDE DEF Counts, count
    <2> QED
      BY <1>5
  <1> HIDE DEF iter
  <1>7. \A s \in SUBSET S : iter[s] = IF s = {} THEN 0 ELSE list[pick(s)].capacity + iter[s \ {pick(s)}]
    BY <1>6
  <1> HIDE DEF pick, Counts
  <1> DEFINE Wrong == {s \in SUBSET S : iter[s] # Cardinality(Units(list, s))}
             Sizes == {Cardinality(s) : s \in Wrong}
  <1>8. SUFFICES ASSUME Wrong # {} PROVE FALSE
    BY <1>1
  <1>9. \A s \in SUBSET S : Cardinality(s) \in Nat /\ IsFiniteSet(s)
    BY <1>2, FS_CardinalityType DEF Sized
  <1>10. PICK m \in Sizes : \A n \in Sizes : m <= n
    <2>1. Sizes \in SUBSET Nat /\ Sizes # {}
      BY <1>8, <1>9
    <2> HIDE DEF Sizes
    <2> QED
      BY <2>1, Least
  <1>11. PICK s \in Wrong : Cardinality(s) = m
    BY <1>10
  <1>12. s # {}
    <2> SUFFICES ASSUME s = {} PROVE FALSE
      OBVIOUS
    <2>1. iter[s] = 0
      BY <1>7
    <2> QED
      BY <1>4, <1>11, <2>1
  <1>13. pick(s) \in s /\ Cardinality(Units(list, s)) = list[pick(s)].capacity + Cardinality(Units(list, s \ {pick(s)}))
    BY <1>3, <1>12
  <1> DEFINE t == s \ {pick(s)}
  <1>14. t \in SUBSET S /\ Cardinality(t) = Cardinality(s) - 1
    BY <1>9, <1>13, FS_RemoveElement
  <1>15. t \notin Wrong
    <2> SUFFICES ASSUME t \in Wrong PROVE FALSE
      OBVIOUS
    <2>1. m <= Cardinality(t)
      BY <1>10
    <2> QED
      BY <1>9, <1>11, <1>14, <2>1
  <1>16. iter[t] = Cardinality(Units(list, t))
    BY <1>14, <1>15
  <1> QED
    BY <1>7, <1>11, <1>12, <1>13, <1>16

LEMMA TotalOfNone ==
  ASSUME NEW list PROVE Total(list, {}) = 0
  <1>1. Sized(list, {})
    BY FS_EmptySet DEF Sized
  <1>2. Units(list, {}) = {}
    BY DEF Units
  <1> QED
    BY <1>1, <1>2, TotalIs, FS_EmptySet

LEMMA TotalOfOne ==
  ASSUME NEW list, NEW k, list[k].capacity \in Nat
  PROVE  Total(list, {k}) = list[k].capacity
  <1>1. Sized(list, {k})
    BY FS_Singleton DEF Sized
  <1> QED
    BY <1>1, TotalIs, UnitsOfOne

LEMMA TotalOfBoth ==
  ASSUME NEW list, NEW S, NEW T, Sized(list, S), Sized(list, T), S \cap T = {}
  PROVE  /\ Total(list, S \cup T) = Total(list, S) + Total(list, T)
         /\ Total(list, S) \in Nat /\ Total(list, T) \in Nat
  <1>1. Sized(list, S \cup T)
    BY FS_Union DEF Sized
  <1> QED
    BY <1>1, UnitsFinite, UnitsOfBoth, TotalIs

\* Only the capacities of the entries counted matter.
LEMMA TotalSame ==
  ASSUME NEW list, NEW other, NEW S, Sized(list, S), \A k \in S : other[k].capacity = list[k].capacity
  PROVE  Total(other, S) = Total(list, S) /\ Sized(other, S)
  <1>1. Sized(other, S)
    BY DEF Sized
  <1>2. Units(other, S) = Units(list, S)
    BY DEF Units
  <1> QED
    BY <1>1, <1>2, TotalIs

----------------------------------------------------------------------------
(* What a call does to the sums of the two lists.                              *)

HeldIn(list, r) == {k \in DOMAIN list : list[k].resource = r /\ list[k].state \in {"pending", "active"}}
ActiveIn(list, r) == {k \in DOMAIN list : list[k].resource = r /\ list[k].status = "active"}

LEMMA UnitsAre ==
  ASSUME NEW r
  PROVE  /\ Held(r) = HeldIn(allocations, r) /\ Held(r)' = HeldIn(allocations', r)
         /\ Active(r) = ActiveIn(reservations, r) /\ Active(r)' = ActiveIn(reservations', r)
         /\ HeldUnits(r) = Total(allocations, HeldIn(allocations, r))
         /\ HeldUnits(r)' = Total(allocations', HeldIn(allocations', r))
         /\ ReservedUnits(r) = Total(reservations, ActiveIn(reservations, r))
         /\ ReservedUnits(r)' = Total(reservations', ActiveIn(reservations', r))
  <1>1. Held(r) = HeldIn(allocations, r) /\ Held(r)' = HeldIn(allocations', r)
    BY DEF Held, HeldIn
  <1>2. Active(r) = ActiveIn(reservations, r) /\ Active(r)' = ActiveIn(reservations', r)
    BY DEF Active, ActiveIn
  <1>3. HeldUnits(r) = Total(allocations, Held(r)) /\ ReservedUnits(r) = Total(reservations, Active(r))
    BY DEF HeldUnits, ReservedUnits, Total
  <1>4. HeldUnits(r)' = Total(allocations', Held(r)')
    BY DEF HeldUnits, Total, MapThenSumSet, MapThenFoldSet
  <1>5. ReservedUnits(r)' = Total(reservations', Active(r)')
    BY DEF ReservedUnits, Total, MapThenSumSet, MapThenFoldSet
  <1> QED
    BY <1>1, <1>2, <1>3, <1>4, <1>5

LEMMA ListFinite ==
  ASSUME NEW T, NEW list \in Seq(T), NEW S \in SUBSET DOMAIN list
  PROVE  IsFiniteSet(S)
  <1>1. DOMAIN list = 1..Len(list) /\ Len(list) \in Nat
    BY LenProperties
  <1>2. IsFiniteSet(1..Len(list))
    BY <1>1, FS_Interval
  <1> QED
    BY <1>1, <1>2, FS_Subset

LEMMA AllocationsSized ==
  ASSUME NEW list \in Seq(Allocation), NEW S \in SUBSET DOMAIN list
  PROVE  Sized(list, S)
  <1>1. \A k \in DOMAIN list : list[k] \in Allocation
    BY ElementOfSeq, LenProperties
  <1>2. \A k \in S : list[k].capacity \in Nat
    BY <1>1, ResourceAssumption DEF Allocation
  <1> QED
    BY <1>2, ListFinite DEF Sized

LEMMA ReservationsSized ==
  ASSUME NEW list \in Seq(Reservation), NEW S \in SUBSET DOMAIN list
  PROVE  Sized(list, S)
  <1>1. \A k \in DOMAIN list : list[k] \in Reservation
    BY ElementOfSeq, LenProperties
  <1>2. \A k \in S : list[k].capacity \in Nat
    BY <1>1, ResourceAssumption DEF Reservation
  <1> QED
    BY <1>2, ListFinite DEF Sized

LEMMA UnitsType ==
  ASSUME ListsOK, NEW r
  PROVE  HeldUnits(r) \in Nat /\ ReservedUnits(r) \in Nat
  <1> DEFINE H == HeldIn(allocations, r)
             A == ActiveIn(reservations, r)
  <1>1. Sized(allocations, H)
    <2>1. H \in SUBSET DOMAIN allocations
      BY DEF HeldIn
    <2> QED
      BY <2>1, AllocationsSized DEF ListsOK
  <1>2. Sized(reservations, A)
    <2>1. A \in SUBSET DOMAIN reservations
      BY DEF ActiveIn
    <2> QED
      BY <2>1, ReservationsSized DEF ListsOK
  <1> HIDE DEF H, A
  <1>3. Total(allocations, H) \in Nat /\ Total(reservations, A) \in Nat
    BY <1>1, <1>2, TotalIs, UnitsFinite
  <1> QED
    BY <1>3, UnitsAre DEF H, A

Part(r, e) == IF e.resource = r THEN e.capacity ELSE 0

LEMMA HeldAppended ==
  ASSUME NEW list \in Seq(Allocation), NEW e \in Allocation, e.state \in {"pending", "active"}, NEW r
  PROVE  Total(Append(list, e), HeldIn(Append(list, e), r)) = Total(list, HeldIn(list, r)) + Part(r, e)
  <1> DEFINE new == Append(list, e)
             n == Len(list) + 1
             S == HeldIn(list, r)
             one == IF e.resource = r THEN {n} ELSE {}
  <1>1. /\ new \in Seq(Allocation) /\ DOMAIN new = DOMAIN list \cup {n} /\ n \notin DOMAIN list /\ new[n] = e
        /\ \A k \in DOMAIN list : new[k] = list[k]
    BY Appended
  <1> HIDE DEF new, n
  <1>2. HeldIn(new, r) = S \cup one /\ S \cap one = {}
    BY <1>1 DEF HeldIn
  <1>3. S \in SUBSET DOMAIN list /\ S \in SUBSET DOMAIN new /\ one \in SUBSET DOMAIN new
    BY <1>1 DEF HeldIn
  <1>4. Sized(list, S) /\ Sized(new, S) /\ Sized(new, one)
    BY <1>1, <1>3, AllocationsSized
  <1>5. Total(new, one) = Part(r, e)
    <2>1. CASE e.resource = r
      <3>1. new[n].capacity \in Nat
        BY <1>1, ResourceAssumption DEF Allocation
      <3> QED
        BY <1>1, <2>1, <3>1, TotalOfOne DEF Part
    <2>2. CASE e.resource # r
      BY <2>2, TotalOfNone DEF Part
    <2> QED
      BY <2>1, <2>2
  <1>6. Total(new, S) = Total(list, S)
    <2>1. \A k \in S : new[k].capacity = list[k].capacity
      BY <1>1, <1>3
    <2> HIDE DEF S
    <2> QED
      BY <1>4, <2>1, TotalSame
  <1>7. Total(new, S \cup one) = Total(new, S) + Total(new, one)
    <2> HIDE DEF S, one
    <2> QED
      BY <1>2, <1>4, TotalOfBoth
  <1> QED
    BY <1>2, <1>5, <1>6, <1>7 DEF new

LEMMA ActiveAppended ==
  ASSUME NEW list \in Seq(Reservation), NEW e \in Reservation, e.status = "active", NEW r
  PROVE  Total(Append(list, e), ActiveIn(Append(list, e), r)) = Total(list, ActiveIn(list, r)) + Part(r, e)
  <1> DEFINE new == Append(list, e)
             n == Len(list) + 1
             S == ActiveIn(list, r)
             one == IF e.resource = r THEN {n} ELSE {}
  <1>1. /\ new \in Seq(Reservation) /\ DOMAIN new = DOMAIN list \cup {n} /\ n \notin DOMAIN list /\ new[n] = e
        /\ \A k \in DOMAIN list : new[k] = list[k]
    BY Appended
  <1> HIDE DEF new, n
  <1>2. ActiveIn(new, r) = S \cup one /\ S \cap one = {}
    BY <1>1 DEF ActiveIn
  <1>3. S \in SUBSET DOMAIN list /\ S \in SUBSET DOMAIN new /\ one \in SUBSET DOMAIN new
    BY <1>1 DEF ActiveIn
  <1>4. Sized(list, S) /\ Sized(new, S) /\ Sized(new, one)
    BY <1>1, <1>3, ReservationsSized
  <1>5. Total(new, one) = Part(r, e)
    <2>1. CASE e.resource = r
      <3>1. new[n].capacity \in Nat
        BY <1>1, ResourceAssumption DEF Reservation
      <3> QED
        BY <1>1, <2>1, <3>1, TotalOfOne DEF Part
    <2>2. CASE e.resource # r
      BY <2>2, TotalOfNone DEF Part
    <2> QED
      BY <2>1, <2>2
  <1>6. Total(new, S) = Total(list, S)
    <2>1. \A k \in S : new[k].capacity = list[k].capacity
      BY <1>1, <1>3
    <2> HIDE DEF S
    <2> QED
      BY <1>4, <2>1, TotalSame
  <1>7. Total(new, S \cup one) = Total(new, S) + Total(new, one)
    <2> HIDE DEF S, one
    <2> QED
      BY <1>2, <1>4, TotalOfBoth
  <1> QED
    BY <1>2, <1>5, <1>6, <1>7 DEF new

MarkedList(list, a, st, new) == new = [list EXCEPT ![a] = [list[a] EXCEPT !.state = st]]
EndedList(list, K, st, new) ==
  new = [k \in DOMAIN list |-> IF k \in K THEN [list[k] EXCEPT !.status = st] ELSE list[k]]

\* Marking an allocation takes what it held off the sum when it was held and is
\* released, and nothing otherwise.
LEMMA HeldMarked ==
  ASSUME NEW list \in Seq(Allocation), NEW a \in DOMAIN list, NEW st \in {"active", "released"},
         st = "active" => list[a].state \in {"pending", "active"},
         NEW new, MarkedList(list, a, st, new), NEW r
  PROVE  Total(new, HeldIn(new, r)) =
           Total(list, HeldIn(list, r))
           - (IF st = "released" /\ list[a].state \in {"pending", "active"} THEN Part(r, list[a]) ELSE 0)
  <1> DEFINE e == [list[a] EXCEPT !.state = st]
             S == HeldIn(list, r)
             one == IF st = "released" /\ a \in S THEN {a} ELSE {}
             rest == S \ one
  <1>1. list[a] \in Allocation
    BY ElementOfSeq, LenProperties
  <1>2. e \in Allocation /\ e.resource = list[a].resource /\ e.capacity = list[a].capacity /\ e.state = st
    BY <1>1 DEF Allocation
  <1>3. /\ new \in Seq(Allocation) /\ DOMAIN new = DOMAIN list /\ new[a] = e
        /\ \A k \in DOMAIN list \ {a} : new[k] = list[k]
    BY <1>2, Replaced DEF MarkedList
  <1> HIDE DEF e
  <1>4. HeldIn(new, r) = rest
    BY <1>2, <1>3 DEF HeldIn
  <1>5. S \in SUBSET DOMAIN list /\ rest \in SUBSET DOMAIN list /\ one \in SUBSET DOMAIN list
    BY DEF HeldIn
  <1>6. Sized(list, rest) /\ Sized(list, one)
    BY <1>5, AllocationsSized
  <1>7. Total(new, rest) = Total(list, rest)
    <2>1. \A k \in rest : new[k].capacity = list[k].capacity
      BY <1>2, <1>3, <1>5
    <2> HIDE DEF rest
    <2> QED
      BY <1>6, <2>1, TotalSame
  <1>8. rest \cup one = S /\ rest \cap one = {}
    OBVIOUS
  <1>9. Total(list, one) = IF st = "released" /\ list[a].state \in {"pending", "active"} THEN Part(r, list[a]) ELSE 0
    <2>1. CASE st = "released" /\ a \in S
      <3>1. list[a].capacity \in Nat
        BY <1>1, ResourceAssumption DEF Allocation
      <3>2. Total(list, {a}) = list[a].capacity
        BY <3>1, TotalOfOne
      <3>3. list[a].resource = r /\ list[a].state \in {"pending", "active"}
        BY <2>1 DEF HeldIn
      <3> QED
        BY <2>1, <3>2, <3>3 DEF Part
    <2>2. CASE ~(st = "released" /\ a \in S)
      <3>1. Total(list, one) = 0
        BY <2>2, TotalOfNone
      <3> QED
        BY <2>2, <3>1 DEF Part, HeldIn
    <2> QED
      BY <2>1, <2>2
  <1>10. /\ Total(list, rest \cup one) = Total(list, rest) + Total(list, one)
         /\ Total(list, rest) \in Nat /\ Total(list, one) \in Nat
    <2> HIDE DEF rest, one
    <2> QED
      BY <1>6, <1>8, TotalOfBoth
  <1>11. Total(new, HeldIn(new, r)) = Total(list, S) - Total(list, one)
    <2>1. Total(list, S) = Total(list, rest) + Total(list, one)
      BY <1>8, <1>10
    <2>2. Total(new, HeldIn(new, r)) = Total(list, rest)
      BY <1>4, <1>7
    <2> HIDE DEF rest, one, S
    <2> QED
      BY <1>10, <2>1, <2>2
  <1> QED
    BY <1>9, <1>11

\* Reservations that end are taken off the sum, if they were active.
LEMMA ActiveEnded ==
  ASSUME NEW list \in Seq(Reservation), NEW new \in Seq(Reservation), NEW K \in SUBSET DOMAIN list,
         NEW st \in {"expired", "released"},
         EndedList(list, K, st, new),
         NEW r
  PROVE  /\ Total(new, ActiveIn(new, r)) = Total(list, ActiveIn(list, r)) - Total(list, K \cap ActiveIn(list, r))
         /\ Total(list, K \cap ActiveIn(list, r)) \in Nat
         /\ Total(new, ActiveIn(new, r)) \in Nat
  <1> DEFINE S == ActiveIn(list, r)
             gone == K \cap S
             rest == S \ K
  <1>1. \A k \in DOMAIN list : list[k] \in Reservation
    BY ElementOfSeq, LenProperties
  <1>2. /\ DOMAIN new = DOMAIN list
        /\ \A k \in DOMAIN list : new[k].resource = list[k].resource /\ new[k].capacity = list[k].capacity
        /\ \A k \in DOMAIN list : new[k].status = IF k \in K THEN st ELSE list[k].status
    BY <1>1 DEF EndedList, Reservation
  <1>3. ActiveIn(new, r) = rest
    BY <1>2 DEF ActiveIn
  <1>4. gone \in SUBSET DOMAIN list /\ rest \in SUBSET DOMAIN list
    BY DEF ActiveIn
  <1>5. Sized(list, rest) /\ Sized(list, gone)
    BY <1>4, ReservationsSized
  <1>6. rest \cup gone = S /\ rest \cap gone = {}
    OBVIOUS
  <1>7. Total(new, rest) = Total(list, rest)
    <2>1. \A k \in rest : new[k].capacity = list[k].capacity
      BY <1>2, <1>4
    <2> HIDE DEF rest
    <2> QED
      BY <1>5, <2>1, TotalSame
  <1>8. /\ Total(list, rest \cup gone) = Total(list, rest) + Total(list, gone)
        /\ Total(list, rest) \in Nat /\ Total(list, gone) \in Nat
    <2> HIDE DEF rest, gone
    <2> QED
      BY <1>5, <1>6, TotalOfBoth
  <1> HIDE DEF rest, S
  <1>9. Total(list, gone) \in Nat /\ Total(new, ActiveIn(new, r)) = Total(list, S) - Total(list, gone)
        /\ Total(new, ActiveIn(new, r)) \in Nat
    <2>1. Total(list, S) = Total(list, rest) + Total(list, gone)
      BY <1>6, <1>8
    <2>2. Total(new, ActiveIn(new, r)) = Total(list, rest)
      BY <1>3, <1>7
    <2> HIDE DEF gone
    <2> QED
      BY <1>8, <2>1, <2>2
  <1> QED
    BY <1>9 DEF S


----------------------------------------------------------------------------
(* What a call does to what is reserved and held of each resource.             *)

LEMMA GrantedUnits ==
  ASSUME ListsOK, NEW e \in Allocation, e.state \in {"pending", "active"},
         allocations' = Append(allocations, e), NEW r
  PROVE  HeldUnits(r)' = HeldUnits(r) + Part(r, e)
  BY HeldAppended, UnitsAre DEF ListsOK

LEMMA PromisedUnits ==
  ASSUME ListsOK, NEW e \in Reservation, e.status = "active",
         reservations' = Append(reservations, e), NEW r
  PROVE  ReservedUnits(r)' = ReservedUnits(r) + Part(r, e)
  BY ActiveAppended, UnitsAre DEF ListsOK

LEMMA MarkedUnits ==
  ASSUME ListsOK, NEW a \in DOMAIN allocations, NEW st \in {"active", "released"}, Marked(a, st), NEW r
  PROVE  HeldUnits(r)' = HeldUnits(r)
           - (IF st = "released" /\ IsHeld(a) THEN Part(r, allocations[a]) ELSE 0)
  <1>1. allocations' = [allocations EXCEPT ![a] = [allocations[a] EXCEPT !.state = st]]
        /\ (st = "active" => allocations[a].state \in {"pending", "active"}) /\ allocations \in Seq(Allocation)
    BY DEF Marked, IsHeld, ListsOK
  <1>2. Total(allocations', HeldIn(allocations', r)) =
          Total(allocations, HeldIn(allocations, r))
          - (IF st = "released" /\ allocations[a].state \in {"pending", "active"} THEN Part(r, allocations[a]) ELSE 0)
    <2> DEFINE new == allocations'
    <2>1. MarkedList(allocations, a, st, new)
      BY <1>1 DEF MarkedList
    <2> HIDE DEF new
    <2>2. Total(new, HeldIn(new, r)) =
            Total(allocations, HeldIn(allocations, r))
            - (IF st = "released" /\ allocations[a].state \in {"pending", "active"} THEN Part(r, allocations[a]) ELSE 0)
      BY <1>1, <2>1, HeldMarked
    <2> QED
      BY <2>2 DEF new
  <1> QED
    BY <1>2, UnitsAre DEF IsHeld

LEMMA EndedUnits ==
  ASSUME ListsOK, NEW K \in SUBSET DOMAIN reservations, NEW st \in {"expired", "released"}, Ended(K, st), NEW r
  PROVE  /\ ReservedUnits(r)' = ReservedUnits(r) - Total(reservations, K \cap Active(r))
         /\ Total(reservations, K \cap Active(r)) \in Nat
         /\ ReservedUnits(r)' \in Nat
  <1>1. reservations' \in Seq(Reservation)
    BY ReservationsType DEF ReservationsStep
  <1>2. reservations \in Seq(Reservation)
        /\ reservations' = [k \in DOMAIN reservations |->
             IF k \in K THEN [reservations[k] EXCEPT !.status = st] ELSE reservations[k]]
    BY DEF ListsOK, Ended
  <1>3. /\ Total(reservations', ActiveIn(reservations', r)) =
             Total(reservations, ActiveIn(reservations, r)) - Total(reservations, K \cap ActiveIn(reservations, r))
        /\ Total(reservations, K \cap ActiveIn(reservations, r)) \in Nat
        /\ Total(reservations', ActiveIn(reservations', r)) \in Nat
    <2> DEFINE new == reservations'
    <2>1. new \in Seq(Reservation) /\ EndedList(reservations, K, st, new)
      BY <1>1, <1>2 DEF EndedList
    <2> HIDE DEF new
    <2>2. /\ Total(new, ActiveIn(new, r)) =
               Total(reservations, ActiveIn(reservations, r)) - Total(reservations, K \cap ActiveIn(reservations, r))
          /\ Total(reservations, K \cap ActiveIn(reservations, r)) \in Nat
          /\ Total(new, ActiveIn(new, r)) \in Nat
      BY <1>2, <2>1, ActiveEnded
    <2> QED
      BY <2>2 DEF new
  <1> QED
    BY <1>3, UnitsAre

LEMMA UnitsSame ==
  ASSUME NEW r
  PROVE  /\ UNCHANGED allocations => HeldUnits(r)' = HeldUnits(r)
         /\ UNCHANGED reservations => ReservedUnits(r)' = ReservedUnits(r)
  <1>1. UNCHANGED allocations => HeldUnits(r)' = HeldUnits(r)
    BY UnitsAre
  <1>2. UNCHANGED reservations => ReservedUnits(r)' = ReservedUnits(r)
    BY UnitsAre
  <1> QED
    BY <1>1, <1>2

LEMMA PartType ==
  ASSUME ListsOK, NEW a \in DOMAIN allocations, NEW r
  PROVE  allocations[a] \in Allocation /\ allocations[a].capacity \in Nat /\ Part(r, allocations[a]) \in Nat
  <1>1. allocations[a] \in Allocation
    BY ElementOfSeq, LenProperties DEF ListsOK
  <1> QED
    BY <1>1, ResourceAssumption DEF Allocation, Part

LEMMA ReservedCapacityType ==
  ASSUME ListsOK, NEW k \in DOMAIN reservations
  PROVE  reservations[k] \in Reservation /\ reservations[k].capacity \in Nat
  <1>1. reservations[k] \in Reservation
    BY ElementOfSeq, LenProperties DEF ListsOK
  <1> QED
    BY <1>1, ResourceAssumption DEF Reservation

----------------------------------------------------------------------------
(* What a call does to the profiles.                                           *)

ProfilesOK == profiles \in [Known -> Profile]
LapsedOK == lapsed \subseteq DOMAIN reservations

\* The profile p becomes q: its counters become x and y, its maximum stays.
Becomes(p, q, x, y) ==
  /\ q \in Profile
  /\ q.maximumCapacity = p.maximumCapacity
  /\ q.reservedCapacity = x
  /\ q.utilizedCapacity = y

LEMMA MinusType ==
  ASSUME NEW a \in Nat, NEW b \in Nat
  PROVE  Minus(a, b) \in Nat /\ (a >= b => Minus(a, b) = a - b) /\ (a < b => Minus(a, b) = 0)
  BY DEF Minus

LEMMA WithoutAllocationIs ==
  ASSUME NEW p \in Profile, NEW allocation, allocation.capacity \in Nat
  PROVE  Becomes(p, WithoutAllocation(p, allocation), p.reservedCapacity,
                 Minus(p.utilizedCapacity, allocation.capacity))
  <1>1. p.utilizedCapacity \in Nat
    BY DEF Profile
  <1>2. Minus(p.utilizedCapacity, allocation.capacity) \in Nat
    BY <1>1, MinusType
  <1> QED
    BY <1>2 DEF Becomes, WithoutAllocation, Profile, States

LEMMA WithoutReservationIs ==
  ASSUME NEW p \in Profile, NEW reservation, reservation.capacity \in Nat
  PROVE  Becomes(p, WithoutReservation(p, reservation),
                 Minus(p.reservedCapacity, reservation.capacity), p.utilizedCapacity)
  <1>1. p.reservedCapacity \in Nat
    BY DEF Profile
  <1>2. Minus(p.reservedCapacity, reservation.capacity) \in Nat
    BY <1>1, MinusType
  <1> QED
    BY <1>2 DEF Becomes, WithoutReservation, Profile, States

LEMMA StaysThere ==
  ASSUME NEW p \in Profile
  PROVE  Becomes(p, p, p.reservedCapacity, p.utilizedCapacity)
  BY DEF Becomes

\* Only the profile of r changes, to q.
LEMMA OneChanges ==
  ASSUME ProfilesOK, NEW r \in Known, NEW q \in Profile, profiles' = [profiles EXCEPT ![r] = q]
  PROVE  /\ Known' = Known
         /\ ProfilesOK'
         /\ profiles'[r] = q
         /\ \A s \in Known \ {r} : profiles'[s] = profiles[s]
  BY DEF ProfilesOK, Known

ByKnown(r, x, y) ==
  \A s \in Known :
    Becomes(profiles[s], profiles'[s],
            profiles[s].reservedCapacity + (IF s = r THEN x ELSE 0),
            profiles[s].utilizedCapacity + (IF s = r THEN y ELSE 0))

LEMMA OneBecomes ==
  ASSUME ProfilesOK, NEW r \in Known, NEW q \in Profile, profiles' = [profiles EXCEPT ![r] = q],
         NEW x \in Int, NEW y \in Int,
         Becomes(profiles[r], q, profiles[r].reservedCapacity + x, profiles[r].utilizedCapacity + y)
  PROVE  Known' = Known /\ ProfilesOK' /\ ByKnown(r, x, y)
  <1>1. Known' = Known /\ ProfilesOK'
    BY OneChanges
  <1>2. ASSUME NEW s \in Known
        PROVE  Becomes(profiles[s], profiles'[s],
                       profiles[s].reservedCapacity + (IF s = r THEN x ELSE 0),
                       profiles[s].utilizedCapacity + (IF s = r THEN y ELSE 0))
    <2>1. CASE s = r
      BY <2>1, OneChanges
    <2>2. CASE s # r
      <3>1. profiles'[s] = profiles[s] /\ profiles[s] \in Profile
        BY <2>2, OneChanges DEF ProfilesOK
      <3>2. profiles[s].reservedCapacity + 0 = profiles[s].reservedCapacity
            /\ profiles[s].utilizedCapacity + 0 = profiles[s].utilizedCapacity
        BY <3>1 DEF Profile
      <3> QED
        BY <2>2, <3>1, <3>2, StaysThere
    <2> QED
      BY <2>1, <2>2
  <1> QED
    BY <1>1, <1>2 DEF ByKnown

\* The units of every resource.
LEMMA UnitsThen ==
  ASSUME allocations' \in Seq(Allocation), reservations' \in Seq(Reservation), NEW r
  PROVE  HeldUnits(r)' \in Nat /\ ReservedUnits(r)' \in Nat
  <1> DEFINE H == HeldIn(allocations', r)
             A == ActiveIn(reservations', r)
  <1>1. Sized(allocations', H)
    <2>1. H \in SUBSET DOMAIN allocations'
      BY DEF HeldIn
    <2> QED
      BY <2>1, AllocationsSized
  <1>2. Sized(reservations', A)
    <2>1. A \in SUBSET DOMAIN reservations'
      BY DEF ActiveIn
    <2> QED
      BY <2>1, ReservationsSized
  <1> HIDE DEF H, A
  <1>3. Total(allocations', H) \in Nat /\ Total(reservations', A) \in Nat
    BY <1>1, <1>2, TotalIs, UnitsFinite
  <1> QED
    BY <1>3, UnitsAre DEF H, A

----------------------------------------------------------------------------
(* Each call: the profiles keep their type, and the units of each resource     *)
(* and its counters change together.                                           *)

LEMMA SyncNewDoes ==
  ASSUME ListsOK, ProfilesOK, NEW r \in Resources, NEW m \in Capacities, SyncNew(r, m)
  PROVE  /\ ProfilesOK' /\ r \notin Known /\ Known' = Known \cup {r}
         /\ \A s \in Known : profiles'[s] = profiles[s]
         /\ profiles'[r].reservedCapacity = 0 /\ profiles'[r].utilizedCapacity = 0
         /\ UNCHANGED <<reservations, allocations, lapsed>>
  <1>1. m \in Nat
    BY ResourceAssumption
  <1>2. r \notin Known /\ Known' = Known \cup {r} /\ UNCHANGED <<reservations, allocations, lapsed>>
    BY DEF SyncNew, Known
  <1> DEFINE fresh == [state |-> "available", maximumCapacity |-> m, reservedCapacity |-> 0,
                       utilizedCapacity |-> 0, currentOwner |-> None]
  <1>3. fresh \in Profile /\ fresh.reservedCapacity = 0 /\ fresh.utilizedCapacity = 0
    BY <1>1 DEF Profile, States
  <1>4. profiles' = [q \in Known \cup {r} |-> IF q \in Known THEN profiles[q] ELSE fresh]
    BY DEF SyncNew
  <1> HIDE DEF fresh
  <1>5. profiles'[r] = fresh /\ \A s \in Known : profiles'[s] = profiles[s]
    BY <1>2, <1>4
  <1>6. profiles' \in [Known \cup {r} -> Profile]
    BY <1>3, <1>4 DEF ProfilesOK
  <1> QED
    BY <1>2, <1>3, <1>5, <1>6 DEF ProfilesOK

LEMMA SyncKnownDoes ==
  ASSUME ListsOK, ProfilesOK, NEW r \in Resources, NEW m \in Capacities, SyncKnown(r, m)
  PROVE  /\ ProfilesOK' /\ Known' = Known
         /\ \A s \in Known : /\ profiles'[s].reservedCapacity = profiles[s].reservedCapacity
                             /\ profiles'[s].utilizedCapacity = profiles[s].utilizedCapacity
         /\ UNCHANGED <<reservations, allocations, lapsed>>
  <1>1. m \in Nat
    BY ResourceAssumption
  <1> DEFINE q == [profiles[r] EXCEPT !.maximumCapacity = m]
  <1>2. r \in Known /\ profiles' = [profiles EXCEPT ![r] = q] /\ UNCHANGED <<reservations, allocations, lapsed>>
    BY DEF SyncKnown
  <1>3. profiles[r] \in Profile
    BY <1>2 DEF ProfilesOK
  <1>4. q \in Profile /\ q.reservedCapacity = profiles[r].reservedCapacity
        /\ q.utilizedCapacity = profiles[r].utilizedCapacity
    BY <1>1, <1>3 DEF Profile
  <1> HIDE DEF q
  <1> QED
    BY <1>2, <1>4, OneChanges

LEMMA RequestReservationDoes ==
  ASSUME ListsOK, ProfilesOK, NEW r \in Resources, NEW o \in Owners, NEW c \in Capacities, NEW p \in Priorities,
         NEW e \in BOOLEAN, RequestReservation(r, o, c, p, e)
  PROVE  /\ ProfilesOK' /\ Known' = Known /\ r \in Known /\ ByKnown(r, c, 0)
         /\ \A s \in Resources : ReservedUnits(s)' = ReservedUnits(s) + (IF s = r THEN c ELSE 0)
         /\ EffectiveAvailable(r) >= c /\ c \in Nat
         /\ UNCHANGED <<allocations, lapsed>>
         /\ DOMAIN reservations \subseteq DOMAIN reservations'
  <1>1. c \in Nat /\ c \in Int /\ 0 \in Int
    BY ResourceAssumption
  <1> DEFINE q == [profiles[r] EXCEPT !.reservedCapacity = @ + c, !.state = "reserved"]
  <1>2. r \in Known /\ profiles' = [profiles EXCEPT ![r] = q] /\ EffectiveAvailable(r) >= c
        /\ UNCHANGED <<allocations, lapsed>>
    BY DEF RequestReservation, IsAvailable
  <1>3. profiles[r] \in Profile
    BY <1>2 DEF ProfilesOK
  <1>4. q \in Profile /\ Becomes(profiles[r], q, profiles[r].reservedCapacity + c, profiles[r].utilizedCapacity + 0)
    <2>1. /\ profiles[r].reservedCapacity \in Nat /\ profiles[r].utilizedCapacity \in Nat
          /\ profiles[r].state \in States /\ profiles[r].maximumCapacity \in Nat
      BY <1>3 DEF Profile
    <2>2. profiles[r].reservedCapacity + c \in Nat /\ profiles[r].utilizedCapacity + 0 \in Nat
          /\ profiles[r].utilizedCapacity + 0 = profiles[r].utilizedCapacity
      BY <1>1, <2>1
    <2>3. q \in Profile
      BY <1>3, <2>1, <2>2 DEF Profile, States
    <2>4. q.maximumCapacity = profiles[r].maximumCapacity /\ q.reservedCapacity = profiles[r].reservedCapacity + c
          /\ q.utilizedCapacity = profiles[r].utilizedCapacity + 0
      BY <1>3, <2>2 DEF Profile
    <2> QED
      BY <2>3, <2>4 DEF Becomes
  <1> HIDE DEF q
  <1>5. Known' = Known /\ ProfilesOK' /\ ByKnown(r, c, 0)
    BY <1>1, <1>2, <1>4, OneBecomes
  <1> DEFINE new == Promise(r, o, c, p, e)
  <1>6. reservations' = Append(reservations, new)
    BY DEF RequestReservation, Promise
  <1>7. new \in Reservation /\ new.status = "active" /\ new.resource = r /\ new.capacity = c
    BY DEF Promise, Reservation
  <1> HIDE DEF new
  <1>8. \A s \in Resources : ReservedUnits(s)' = ReservedUnits(s) + (IF s = r THEN c ELSE 0)
    BY <1>6, <1>7, PromisedUnits DEF Part
  <1>9. DOMAIN reservations \subseteq DOMAIN reservations'
    BY <1>6, <1>7, Appended DEF ListsOK
  <1> QED
    BY <1>1, <1>2, <1>5, <1>8, <1>9

LEMMA RequestAllocationDoes ==
  ASSUME ListsOK, ProfilesOK, NEW r \in Resources, NEW o \in Owners, NEW m \in Modes, NEW c \in Capacities,
         RequestAllocation(r, o, m, c)
  PROVE  /\ ProfilesOK' /\ Known' = Known /\ r \in Known /\ ByKnown(r, 0, c)
         /\ \A s \in Resources : HeldUnits(s)' = HeldUnits(s) + (IF s = r THEN c ELSE 0)
         /\ EffectiveAvailable(r) >= c /\ c \in Nat
         /\ UNCHANGED <<reservations, lapsed>>
  <1>1. c \in Nat /\ c \in Int /\ 0 \in Int
    BY ResourceAssumption
  <1> DEFINE q == [profiles[r] EXCEPT !.utilizedCapacity = @ + c, !.currentOwner = o,
                     !.state = IF m = "exclusive" THEN "allocated" ELSE IF @ = "available" THEN "active" ELSE @]
  <1>2. r \in Known /\ profiles' = [profiles EXCEPT ![r] = q] /\ EffectiveAvailable(r) >= c
        /\ UNCHANGED <<reservations, lapsed>>
    BY DEF RequestAllocation, IsAvailable
  <1>3. profiles[r] \in Profile
    BY <1>2 DEF ProfilesOK
  <1>4. q \in Profile /\ Becomes(profiles[r], q, profiles[r].reservedCapacity + 0, profiles[r].utilizedCapacity + c)
    <2>1. /\ profiles[r].reservedCapacity \in Nat /\ profiles[r].utilizedCapacity \in Nat
          /\ profiles[r].state \in States /\ profiles[r].maximumCapacity \in Nat
      BY <1>3 DEF Profile
    <2>2. profiles[r].reservedCapacity + 0 \in Nat /\ profiles[r].utilizedCapacity + c \in Nat
          /\ profiles[r].reservedCapacity + 0 = profiles[r].reservedCapacity
      BY <1>1, <2>1
    <2>3. q \in Profile
      BY <1>3, <2>1, <2>2 DEF Profile, States
    <2>4. q.maximumCapacity = profiles[r].maximumCapacity /\ q.reservedCapacity = profiles[r].reservedCapacity + 0
          /\ q.utilizedCapacity = profiles[r].utilizedCapacity + c
      BY <1>3, <2>2 DEF Profile
    <2> QED
      BY <2>3, <2>4 DEF Becomes
  <1> HIDE DEF q
  <1>5. Known' = Known /\ ProfilesOK' /\ ByKnown(r, 0, c)
    BY <1>1, <1>2, <1>4, OneBecomes
  <1> DEFINE new == [resource |-> r, owner |-> o, mode |-> m, capacity |-> c,
                     state |-> IF m = "temporary" THEN "pending" ELSE "active"]
  <1>6. allocations' = Append(allocations, new)
    BY DEF RequestAllocation
  <1>7. new \in Allocation /\ new.state \in {"pending", "active"} /\ new.resource = r /\ new.capacity = c
    BY DEF Allocation
  <1> HIDE DEF new
  <1>8. \A s \in Resources : HeldUnits(s)' = HeldUnits(s) + (IF s = r THEN c ELSE 0)
    BY <1>6, <1>7, GrantedUnits DEF Part
  <1> QED
    BY <1>1, <1>2, <1>5, <1>8


\* A call on a resource that is not known has no effect on the profiles.
LEMMA OneOfKnown ==
  ASSUME ProfilesOK, NEW r, NEW q, profiles' = [profiles EXCEPT ![r] = q], r \in Known => q \in Profile
  PROVE  /\ Known' = Known
         /\ ProfilesOK'
         /\ \A s \in Known : profiles'[s] = IF s = r THEN q ELSE profiles[s]
  <1>1. Known' = Known /\ \A s \in Known : profiles'[s] = IF s = r THEN q ELSE profiles[s]
    BY DEF Known
  <1>2. profiles' \in [Known -> Profile]
    BY DEF ProfilesOK, Known
  <1> QED
    BY <1>1, <1>2 DEF ProfilesOK

LEMMA ActivateDoes ==
  ASSUME ListsOK, ProfilesOK, "activateReleased" \notin Calls, NEW a, Activate(a)
  PROVE  /\ ProfilesOK' /\ Known' = Known
         /\ \A s \in Known : Becomes(profiles[s], profiles'[s], profiles[s].reservedCapacity, profiles[s].utilizedCapacity)
         /\ \A s : HeldUnits(s)' = HeldUnits(s)
         /\ UNCHANGED <<reservations, lapsed>>
  <1>1. Marked(a, "active") /\ UNCHANGED <<reservations, lapsed>> /\ a \in DOMAIN allocations
    BY ActivateShape DEF Marked
  <1> DEFINE r == allocations[a].resource
             q == [profiles[r] EXCEPT !.state = IF @ = "allocated" THEN "active" ELSE @]
  <1>2. profiles' = [profiles EXCEPT ![r] = q]
    BY DEF Activate
  <1>3. ASSUME r \in Known
        PROVE  q \in Profile /\ Becomes(profiles[r], q, profiles[r].reservedCapacity, profiles[r].utilizedCapacity)
    <2> HIDE DEF r
    <2>1. profiles[r] \in Profile
      BY <1>3 DEF ProfilesOK
    <2> QED
      BY <2>1 DEF Profile, Becomes, States
  <1> HIDE DEF r, q
  <1>4. Known' = Known /\ ProfilesOK' /\ \A s \in Known : profiles'[s] = IF s = r THEN q ELSE profiles[s]
    BY <1>2, <1>3, OneOfKnown
  <1>5. \A s \in Known : profiles[s] \in Profile
    BY DEF ProfilesOK
  <1>6. \A s \in Known : Becomes(profiles[s], profiles'[s], profiles[s].reservedCapacity, profiles[s].utilizedCapacity)
    BY <1>3, <1>4, <1>5, StaysThere
  <1>7. \A s : HeldUnits(s)' = HeldUnits(s)
    <2> TAKE s
    <2>1. HeldUnits(s)' = HeldUnits(s) - 0
      BY <1>1, MarkedUnits
    <2>2. HeldUnits(s) \in Nat
      BY UnitsType
    <2> QED
      BY <2>1, <2>2
  <1> QED
    BY <1>1, <1>4, <1>6, <1>7

LEMMA ReleaseAllocationDoes ==
  ASSUME ListsOK, ProfilesOK, NEW r \in Resources, NEW a, ReleaseAllocation(r, a)
  PROVE  /\ ProfilesOK' /\ Known' = Known
         /\ a \in DOMAIN allocations /\ allocations[a].resource = r /\ Marked(a, "released")
         /\ a \in Held(r) \/ "releaseAgain" \in Calls
         /\ \A s \in Known : Becomes(profiles[s], profiles'[s], profiles[s].reservedCapacity,
                                     IF s = r THEN Minus(profiles[s].utilizedCapacity, allocations[a].capacity)
                                     ELSE profiles[s].utilizedCapacity)
         /\ UNCHANGED <<reservations, lapsed>>
  <1>1. /\ a \in DOMAIN allocations /\ allocations[a].resource = r /\ Marked(a, "released")
        /\ a \in Held(r) \/ "releaseAgain" \in Calls
        /\ UNCHANGED <<reservations, lapsed>>
    BY DEF ReleaseAllocation, MayReleaseAllocation, Marked
  <1> DEFINE q == WithoutAllocation(profiles[r], allocations[a])
             u == Minus(profiles[r].utilizedCapacity, allocations[a].capacity)
  <1>2. profiles' = [profiles EXCEPT ![r] = q]
    BY DEF ReleaseAllocation
  <1>3. \A s \in Known : profiles[s] \in Profile
    BY DEF ProfilesOK
  <1>4. r \in Known => q \in Profile /\ Becomes(profiles[r], q, profiles[r].reservedCapacity, u)
    <2>1. allocations[a].capacity \in Nat
      BY <1>1, PartType
    <2>2. r \in Known => Becomes(profiles[r], q, profiles[r].reservedCapacity, u)
      BY <1>3, <2>1, WithoutAllocationIs
    <2> QED
      BY <2>2 DEF Becomes
  <1> HIDE DEF q, u
  <1>5. Known' = Known /\ ProfilesOK' /\ \A s \in Known : profiles'[s] = IF s = r THEN q ELSE profiles[s]
    BY <1>2, <1>4, OneOfKnown
  <1>6. \A s \in Known : Becomes(profiles[s], profiles'[s], profiles[s].reservedCapacity,
                                 IF s = r THEN u ELSE profiles[s].utilizedCapacity)
    BY <1>3, <1>4, <1>5, StaysThere
  <1> QED
    BY <1>1, <1>5, <1>6 DEF u

\* Both kinds of release of a reservation.
TakenOff(r, k) == profiles' = [profiles EXCEPT ![r] = WithoutReservation(@, reservations[k])]

LEMMA TakesOff ==
  ASSUME ListsOK, ProfilesOK, NEW r, NEW k \in DOMAIN reservations,
         TakenOff(r, k)
  PROVE  /\ ProfilesOK' /\ Known' = Known
         /\ \A s \in Known : Becomes(profiles[s], profiles'[s],
                                     IF s = r THEN Minus(profiles[s].reservedCapacity, reservations[k].capacity)
                                     ELSE profiles[s].reservedCapacity,
                                     profiles[s].utilizedCapacity)
  <1> DEFINE q == WithoutReservation(profiles[r], reservations[k])
             u == Minus(profiles[r].reservedCapacity, reservations[k].capacity)
  <1>2. profiles' = [profiles EXCEPT ![r] = q]
    BY DEF TakenOff
  <1>3. \A s \in Known : profiles[s] \in Profile
    BY DEF ProfilesOK
  <1>4. r \in Known => q \in Profile /\ Becomes(profiles[r], q, u, profiles[r].utilizedCapacity)
    <2>1. reservations[k].capacity \in Nat
      BY ReservedCapacityType
    <2>2. r \in Known => Becomes(profiles[r], q, u, profiles[r].utilizedCapacity)
      BY <1>3, <2>1, WithoutReservationIs
    <2> QED
      BY <2>2 DEF Becomes
  <1> HIDE DEF q, u
  <1>5. Known' = Known /\ ProfilesOK' /\ \A s \in Known : profiles'[s] = IF s = r THEN q ELSE profiles[s]
    BY <1>2, <1>4, OneOfKnown
  <1>6. \A s \in Known : Becomes(profiles[s], profiles'[s], IF s = r THEN u ELSE profiles[s].reservedCapacity,
                                 profiles[s].utilizedCapacity)
    BY <1>3, <1>4, <1>5, StaysThere
  <1> QED
    BY <1>5, <1>6 DEF u

LEMMA ExpireDoes ==
  ASSUME ListsOK, ProfilesOK, LapsedOK, ExpireReservations
  PROVE  /\ ProfilesOK' /\ Known' = Known
         /\ Swept \in SUBSET DOMAIN reservations /\ Ended(Swept, "expired")
         /\ \A s \in Known :
              /\ Total(reservations, Swept \cap Active(s)) \in Nat
              /\ Becomes(profiles[s], profiles'[s],
                         IF Swept \cap Active(s) = {} THEN profiles[s].reservedCapacity
                         ELSE Minus(profiles[s].reservedCapacity, Total(reservations, Swept \cap Active(s))),
                         profiles[s].utilizedCapacity)
         /\ UNCHANGED <<allocations, lapsed>>
  <1>1. Swept \in SUBSET DOMAIN reservations /\ Ended(Swept, "expired") /\ UNCHANGED <<allocations, lapsed>>
    BY DEF ExpireReservations, Ended, Swept, LapsedOK
  <1> DEFINE mine(s) == Swept \cap Active(s)
             sum(s) == Total(reservations, mine(s))
             q(s) == IF mine(s) = {} THEN profiles[s] ELSE WithoutReservation(profiles[s], [capacity |-> sum(s)])
  <1>2. \A s : {k \in Swept : reservations[k].resource = s} = mine(s)
    BY <1>1 DEF Swept, Active
  <1>3. profiles' = [s \in Known |-> q(s)]
    BY <1>2 DEF ExpireReservations, Total
  <1>4. \A s : sum(s) \in Nat
    BY <1>1, EndedUnits
  <1>5. \A s \in Known : profiles[s] \in Profile
    BY DEF ProfilesOK
  <1>6. ASSUME NEW s \in Known
        PROVE  Becomes(profiles[s], q(s),
                       IF mine(s) = {} THEN profiles[s].reservedCapacity
                       ELSE Minus(profiles[s].reservedCapacity, sum(s)),
                       profiles[s].utilizedCapacity)
    <2>1. CASE mine(s) = {}
      BY <1>5, <2>1, StaysThere
    <2>2. CASE mine(s) # {}
      <3> DEFINE e == [capacity |-> sum(s)]
      <3>1. e.capacity \in Nat /\ e.capacity = sum(s)
        BY <1>4
      <3> HIDE DEF e
      <3>2. Becomes(profiles[s], WithoutReservation(profiles[s], e),
                    Minus(profiles[s].reservedCapacity, e.capacity), profiles[s].utilizedCapacity)
        BY <1>5, <3>1, WithoutReservationIs
      <3> QED
        BY <2>2, <3>1, <3>2 DEF e
    <2> QED
      BY <2>1, <2>2
  <1> HIDE DEF q
  <1>7. \A s \in Known : q(s) \in Profile
    BY <1>6 DEF Becomes
  <1>8. Known' = Known /\ ProfilesOK' /\ \A s \in Known : profiles'[s] = q(s)
    BY <1>3, <1>7 DEF Known, ProfilesOK
  <1> QED
    BY <1>1, <1>4, <1>6, <1>8


----------------------------------------------------------------------------
(* Nothing but a request makes more promised of a resource.                    *)

Shrinks(r) == HeldUnits(r)' <= HeldUnits(r) /\ ReservedUnits(r)' <= ReservedUnits(r)
HeldShrinks == \A r : HeldUnits(r)' <= HeldUnits(r)
ReservedShrinks == \A r : ReservedUnits(r)' <= ReservedUnits(r)

LEMMA SameShrinks ==
  ASSUME ListsOK
  PROVE  (UNCHANGED allocations => HeldShrinks) /\ (UNCHANGED reservations => ReservedShrinks)
  <1>1. ASSUME UNCHANGED allocations, NEW r PROVE HeldUnits(r)' <= HeldUnits(r)
    <2>1. HeldUnits(r) \in Nat /\ HeldUnits(r)' = HeldUnits(r)
      BY <1>1, UnitsSame, UnitsType
    <2> QED
      BY <2>1
  <1>2. ASSUME UNCHANGED reservations, NEW r PROVE ReservedUnits(r)' <= ReservedUnits(r)
    <2>1. ReservedUnits(r) \in Nat /\ ReservedUnits(r)' = ReservedUnits(r)
      BY <1>2, UnitsSame, UnitsType
    <2> QED
      BY <2>1
  <1> QED
    BY <1>1, <1>2 DEF HeldShrinks, ReservedShrinks

LEMMA MarkedShrinks ==
  ASSUME ListsOK, NEW a \in DOMAIN allocations, NEW st \in {"active", "released"}, Marked(a, st)
  PROVE  HeldShrinks
  <1> SUFFICES ASSUME NEW r PROVE HeldUnits(r)' <= HeldUnits(r)
    BY DEF HeldShrinks
  <1> DEFINE gone == IF st = "released" /\ IsHeld(a) THEN Part(r, allocations[a]) ELSE 0
  <1>1. gone \in Nat
    BY PartType
  <1>2. HeldUnits(r)' = HeldUnits(r) - gone
    BY MarkedUnits
  <1>3. HeldUnits(r) \in Nat
    BY UnitsType
  <1> HIDE DEF gone
  <1> QED
    BY <1>1, <1>2, <1>3

LEMMA EndedShrinks ==
  ASSUME ListsOK, NEW K \in SUBSET DOMAIN reservations, NEW st \in {"expired", "released"}, Ended(K, st)
  PROVE  ReservedShrinks
  <1> SUFFICES ASSUME NEW r PROVE ReservedUnits(r)' <= ReservedUnits(r)
    BY DEF ReservedShrinks
  <1>1. /\ ReservedUnits(r)' = ReservedUnits(r) - Total(reservations, K \cap Active(r))
        /\ Total(reservations, K \cap Active(r)) \in Nat
    BY EndedUnits
  <1>2. ReservedUnits(r) \in Nat
    BY UnitsType
  <1> QED
    BY <1>1, <1>2

Fits(r) == Promised(r)' > Promised(r) => Promised(r)' <= profiles'[r].maximumCapacity

LEMMA ShrinksFits ==
  ASSUME ListsOK, ListsOK', HeldShrinks, ReservedShrinks, NEW r
  PROVE  Fits(r)
  <1>1. HeldUnits(r) \in Nat /\ ReservedUnits(r) \in Nat
    BY UnitsType
  <1>2. HeldUnits(r)' \in Nat /\ ReservedUnits(r)' \in Nat
    BY UnitsThen DEF ListsOK
  <1>3. HeldUnits(r)' <= HeldUnits(r) /\ ReservedUnits(r)' <= ReservedUnits(r)
    BY DEF HeldShrinks, ReservedShrinks
  <1>4. Promised(r) = ReservedUnits(r) + HeldUnits(r) /\ Promised(r)' = ReservedUnits(r)' + HeldUnits(r)'
    BY DEF Promised
  <1> QED
    BY <1>1, <1>2, <1>3, <1>4 DEF Fits

\* A request is granted only what is available, by the lists themselves.
LEMMA GrantFits ==
  ASSUME ListsOK, ProfilesOK, NEW r \in Known, NEW c \in Nat, NEW s \in Known,
         EffectiveAvailable(r) >= c,
         profiles'[s].maximumCapacity = profiles[s].maximumCapacity,
         \/ /\ ReservedUnits(s)' = ReservedUnits(s) + (IF s = r THEN c ELSE 0)
            /\ HeldUnits(s)' = HeldUnits(s)
         \/ /\ ReservedUnits(s)' = ReservedUnits(s)
            /\ HeldUnits(s)' = HeldUnits(s) + (IF s = r THEN c ELSE 0)
  PROVE  Fits(s)
  <1>1. HeldUnits(s) \in Nat /\ ReservedUnits(s) \in Nat
    BY UnitsType
  <1>2. Promised(s) = ReservedUnits(s) + HeldUnits(s) /\ Promised(s)' = ReservedUnits(s)' + HeldUnits(s)'
    BY DEF Promised
  <1>3. profiles[s].maximumCapacity \in Nat
    BY DEF ProfilesOK, Profile
  <1>4. CASE s = r
    <2>1. profiles[s].maximumCapacity - ReservedUnits(s) - HeldUnits(s) >= c
      BY <1>4 DEF EffectiveAvailable
    <2>2. Promised(s)' = ReservedUnits(s) + HeldUnits(s) + c
      BY <1>1, <1>2, <1>4
    <2> QED
      BY <1>1, <1>3, <2>1, <2>2 DEF Fits
  <1>5. CASE s # r
    <2>1. Promised(s)' = Promised(s)
      BY <1>1, <1>2, <1>5
    <2> QED
      BY <1>1, <1>2, <2>1 DEF Fits
  <1> QED
    BY <1>4, <1>5

LEMMA StepFits ==
  ASSUME ListsOK, ListsOK', ProfilesOK, LapsedOK, "activateReleased" \notin Calls, [Next]_vars
  PROVE  \A s \in Known : Fits(s)
  <1>a. ASSUME NEW r \in Resources, NEW m \in Capacities, SyncNew(r, m) \/ SyncKnown(r, m)
        PROVE  \A s \in Known : Fits(s)
    <2>1. UNCHANGED <<reservations, allocations>>
      BY <1>a DEF SyncNew, SyncKnown
    <2> QED
      BY <2>1, SameShrinks, ShrinksFits
  <1>b. ASSUME NEW r \in Resources, NEW o \in Owners, NEW c \in Capacities, NEW p \in Priorities, NEW e \in BOOLEAN,
               RequestReservation(r, o, c, p, e)
        PROVE  \A s \in Known : Fits(s)
    <2> SUFFICES ASSUME NEW s \in Known PROVE Fits(s)
      OBVIOUS
    <2>1. s \in Resources
      BY DEF ListsOK
    <2>2. /\ r \in Known /\ c \in Nat /\ EffectiveAvailable(r) >= c /\ UNCHANGED allocations /\ ByKnown(r, c, 0)
          /\ ReservedUnits(s)' = ReservedUnits(s) + (IF s = r THEN c ELSE 0)
      BY <1>b, <2>1, RequestReservationDoes
    <2>3. HeldUnits(s)' = HeldUnits(s)
      BY <2>2, UnitsSame
    <2>4. profiles'[s].maximumCapacity = profiles[s].maximumCapacity
      BY <2>2 DEF ByKnown, Becomes
    <2> QED
      BY <2>2, <2>3, <2>4, GrantFits
  <1>c. ASSUME NEW r \in Resources, NEW o \in Owners, NEW m \in Modes, NEW c \in Capacities,
               RequestAllocation(r, o, m, c)
        PROVE  \A s \in Known : Fits(s)
    <2> SUFFICES ASSUME NEW s \in Known PROVE Fits(s)
      OBVIOUS
    <2>1. s \in Resources
      BY DEF ListsOK
    <2>2. /\ r \in Known /\ c \in Nat /\ EffectiveAvailable(r) >= c /\ UNCHANGED reservations /\ ByKnown(r, 0, c)
          /\ HeldUnits(s)' = HeldUnits(s) + (IF s = r THEN c ELSE 0)
      BY <1>c, <2>1, RequestAllocationDoes
    <2>3. ReservedUnits(s)' = ReservedUnits(s)
      BY <2>2, UnitsSame
    <2>4. profiles'[s].maximumCapacity = profiles[s].maximumCapacity
      BY <2>2 DEF ByKnown, Becomes
    <2> QED
      BY <2>2, <2>3, <2>4, GrantFits
  <1>d. ASSUME NEW a \in 1..MaxRequests, Activate(a)
        PROVE  \A s \in Known : Fits(s)
    <2>1. a \in DOMAIN allocations /\ Marked(a, "active") /\ UNCHANGED reservations
      BY <1>d, ActivateShape DEF Marked
    <2>2. HeldShrinks
      BY <2>1, MarkedShrinks
    <2> QED
      BY <2>1, <2>2, SameShrinks, ShrinksFits
  <1>e. ASSUME NEW r \in Resources, NEW a \in 1..MaxRequests, ReleaseAllocation(r, a)
        PROVE  \A s \in Known : Fits(s)
    <2>1. a \in DOMAIN allocations /\ Marked(a, "released") /\ UNCHANGED reservations
      BY <1>e, ReleaseAllocationDoes
    <2>2. HeldShrinks
      BY <2>1, MarkedShrinks
    <2> QED
      BY <2>1, <2>2, SameShrinks, ShrinksFits
  <1>f. ASSUME NEW r \in Resources, NEW k \in 1..MaxRequests, ReleaseReservation(r, k)
        PROVE  \A s \in Known : Fits(s)
    <2>1. k \in DOMAIN reservations /\ Ended({k}, "released") /\ UNCHANGED allocations
      BY <1>f, ReleasedIsEnded DEF ReleaseReservation, MayReleaseReservation, ListsOK
    <2>2. ReservedShrinks
      BY <2>1, EndedShrinks
    <2> QED
      BY <2>1, <2>2, SameShrinks, ShrinksFits
  <1>g. ASSUME NEW r \in Resources, NEW a \in 1..MaxRequests, NEW k \in 1..MaxRequests, ReleaseBoth(r, a, k)
        PROVE  \A s \in Known : Fits(s)
    <2>1. k \in DOMAIN reservations /\ Ended({k}, "released")
      BY <1>g, ReleasedIsEnded DEF ReleaseBoth, MayReleaseReservation, ListsOK
    <2>2. a \in DOMAIN allocations /\ Marked(a, "released")
      BY <1>g DEF ReleaseBoth, MayReleaseAllocation, Marked
    <2>3. HeldShrinks /\ ReservedShrinks
      BY <2>1, <2>2, MarkedShrinks, EndedShrinks
    <2> QED
      BY <2>3, ShrinksFits
  <1>h. ASSUME NEW k \in 1..MaxRequests, Lapse(k)
        PROVE  \A s \in Known : Fits(s)
    <2>1. UNCHANGED <<reservations, allocations>>
      BY <1>h DEF Lapse
    <2> QED
      BY <2>1, SameShrinks, ShrinksFits
  <1>i. ASSUME ExpireReservations
        PROVE  \A s \in Known : Fits(s)
    <2>1. Swept \in SUBSET DOMAIN reservations /\ Ended(Swept, "expired") /\ UNCHANGED allocations
      BY <1>i, ExpireDoes
    <2>2. ReservedShrinks
      BY <2>1, EndedShrinks
    <2> QED
      BY <2>1, <2>2, SameShrinks, ShrinksFits
  <1>j. CASE UNCHANGED vars
    <2>1. UNCHANGED <<reservations, allocations>>
      BY <1>j DEF vars
    <2> QED
      BY <2>1, SameShrinks, ShrinksFits
  <1> QED
    BY <1>a, <1>b, <1>c, <1>d, <1>e, <1>f, <1>g, <1>h, <1>i, <1>j DEF Next


----------------------------------------------------------------------------
(* The profiles keep their type, and the sweep looks at reservations only.     *)

Sound == ListsOK /\ ProfilesOK /\ LapsedOK

LEMMA EndedDomain ==
  ASSUME NEW K, NEW st, Ended(K, st)
  PROVE  DOMAIN reservations' = DOMAIN reservations
  BY DEF Ended

LEMMA StepSound ==
  ASSUME Sound, "activateReleased" \notin Calls, [Next]_vars
  PROVE  Sound'
  <1>1. ListsOK'
    <2>1. AllocationsStep /\ ReservationsStep /\ lapsed \subseteq lapsed' /\ Known' \subseteq Resources
      BY StepShape DEF Sound
    <2> QED
      BY <2>1, AllocationsType, ReservationsType DEF Sound, ListsOK
  <1> USE DEF Sound
  <1>a. ASSUME NEW r \in Resources, NEW m \in Capacities, SyncNew(r, m) \/ SyncKnown(r, m)
        PROVE  ProfilesOK' /\ LapsedOK'
    <2>1. ProfilesOK' /\ UNCHANGED <<reservations, lapsed>>
      BY <1>a, SyncNewDoes, SyncKnownDoes
    <2> QED
      BY <2>1 DEF LapsedOK
  <1>b. ASSUME NEW r \in Resources, NEW o \in Owners, NEW c \in Capacities, NEW p \in Priorities, NEW e \in BOOLEAN,
               RequestReservation(r, o, c, p, e)
        PROVE  ProfilesOK' /\ LapsedOK'
    <2>1. ProfilesOK' /\ UNCHANGED lapsed /\ DOMAIN reservations \subseteq DOMAIN reservations'
      BY <1>b, RequestReservationDoes
    <2> QED
      BY <2>1 DEF LapsedOK
  <1>c. ASSUME NEW r \in Resources, NEW o \in Owners, NEW m \in Modes, NEW c \in Capacities,
               RequestAllocation(r, o, m, c)
        PROVE  ProfilesOK' /\ LapsedOK'
    <2>1. ProfilesOK' /\ UNCHANGED <<reservations, lapsed>>
      BY <1>c, RequestAllocationDoes
    <2> QED
      BY <2>1 DEF LapsedOK
  <1>d. ASSUME NEW a \in 1..MaxRequests, Activate(a)
        PROVE  ProfilesOK' /\ LapsedOK'
    <2>1. ProfilesOK' /\ UNCHANGED <<reservations, lapsed>>
      BY <1>d, ActivateDoes
    <2> QED
      BY <2>1 DEF LapsedOK
  <1>e. ASSUME NEW r \in Resources, NEW a \in 1..MaxRequests, ReleaseAllocation(r, a)
        PROVE  ProfilesOK' /\ LapsedOK'
    <2>1. ProfilesOK' /\ UNCHANGED <<reservations, lapsed>>
      BY <1>e, ReleaseAllocationDoes
    <2> QED
      BY <2>1 DEF LapsedOK
  <1>f. ASSUME NEW r \in Resources, NEW k \in 1..MaxRequests, ReleaseReservation(r, k) 
        PROVE  ProfilesOK' /\ LapsedOK'
    <2>1. k \in DOMAIN reservations /\ Ended({k}, "released") /\ TakenOff(r, k) /\ UNCHANGED lapsed
      BY <1>f, ReleasedIsEnded DEF ReleaseReservation, MayReleaseReservation, TakenOff, ListsOK
    <2> QED
      BY <2>1, TakesOff, EndedDomain DEF LapsedOK
  <1>g. ASSUME NEW r \in Resources, NEW a \in 1..MaxRequests, NEW k \in 1..MaxRequests, ReleaseBoth(r, a, k)
        PROVE  ProfilesOK' /\ LapsedOK'
    <2>1. k \in DOMAIN reservations /\ Ended({k}, "released") /\ TakenOff(r, k) /\ UNCHANGED lapsed
      BY <1>g, ReleasedIsEnded DEF ReleaseBoth, MayReleaseReservation, TakenOff, ListsOK
    <2> QED
      BY <2>1, TakesOff, EndedDomain DEF LapsedOK
  <1>h. ASSUME NEW k \in 1..MaxRequests, Lapse(k)
        PROVE  ProfilesOK' /\ LapsedOK'
    BY <1>h DEF Lapse, LapsedOK, ProfilesOK, Known
  <1>i. ASSUME ExpireReservations
        PROVE  ProfilesOK' /\ LapsedOK'
    <2>1. ProfilesOK' /\ Ended(Swept, "expired") /\ UNCHANGED lapsed
      BY <1>i, ExpireDoes
    <2> QED
      BY <2>1, EndedDomain DEF LapsedOK
  <1>j. CASE UNCHANGED vars
    <2>1. profiles' = profiles /\ reservations' = reservations /\ lapsed' = lapsed
      BY <1>j DEF vars
    <2>2. ProfilesOK'
      BY <2>1 DEF ProfilesOK, Known
    <2>3. LapsedOK'
      BY <2>1 DEF LapsedOK
    <2> QED
      BY <1>1, <2>2, <2>3
  <1> QED
    BY <1>1, <1>a, <1>b, <1>c, <1>d, <1>e, <1>f, <1>g, <1>h, <1>i, <1>j DEF Next

LEMMA InitSound == Init => Sound
  <1> SUFFICES ASSUME Init PROVE Sound
    OBVIOUS
  <1>1. ListsOK
    BY InitIInv DEF IInv
  <1>2. profiles \in [{} -> Profile] /\ Known = {}
    BY DEF Init, Known
  <1> QED
    BY <1>1, <1>2 DEF Init, Sound, ProfilesOK, LapsedOK

LEMMA SoundHolds == ASSUME "activateReleased" \notin Calls PROVE Spec => []Sound
  <1>1. Sound /\ [Next]_vars => Sound'
    BY StepSound
  <1> QED
    BY <1>1, InitSound, PTL DEF Spec

\* No call overcommits a resource: whatever the counters of its profile say, and
\* whatever maximum the inventory reported since, a call after which more is
\* reserved and allocated of it than before leaves that within its maximum.
THEOREM NothingOvercommits == ASSUME "activateReleased" \notin Calls PROVE Spec => GrantsFit
  <1>1. Sound /\ Sound' /\ [Next]_vars
        => [\A r \in Known : Promised(r)' > Promised(r) => Promised(r)' <= profiles'[r].maximumCapacity]_vars
    BY StepFits DEF Sound, Fits
  <1> QED
    BY <1>1, SoundHolds, PTL DEF Spec, GrantsFit


----------------------------------------------------------------------------
(* The counters of a profile and the lists they summarise.                     *)

Balanced(p, x, y) ==
  /\ p.reservedCapacity = x
  /\ p.utilizedCapacity \in Nat /\ p.utilizedCapacity >= y
  /\ "releaseBoth" \notin Calls => p.utilizedCapacity = y
Counters == \A r \in Known : Balanced(profiles[r], ReservedUnits(r), HeldUnits(r))
Unknown == \A r \in Resources \ Known : ReservedUnits(r) = 0 /\ HeldUnits(r) = 0

LEMMA UnknownKept ==
  ASSUME ListsOK, ListsOK', Unknown,
         \A r \in Resources \ Known' :
           r \notin Known /\ HeldUnits(r)' <= HeldUnits(r) /\ ReservedUnits(r)' <= ReservedUnits(r)
  PROVE  Unknown'
  <1>1. ASSUME NEW r \in Resources \ Known'
        PROVE  ReservedUnits(r)' = 0 /\ HeldUnits(r)' = 0
    <2>1. ReservedUnits(r) = 0 /\ HeldUnits(r) = 0
      BY <1>1 DEF Unknown
    <2>2. HeldUnits(r)' \in Nat /\ ReservedUnits(r)' \in Nat
      BY UnitsThen DEF ListsOK
    <2>3. HeldUnits(r)' <= HeldUnits(r) /\ ReservedUnits(r)' <= ReservedUnits(r)
      BY <1>1
    <2> QED
      BY <2>1, <2>2, <2>3
  <1> QED
    BY <1>1 DEF Unknown

LEMMA ShrinksUnknown ==
  ASSUME ListsOK, ListsOK', Unknown, Known' = Known, HeldShrinks, ReservedShrinks
  PROVE  Unknown'
  BY UnknownKept DEF HeldShrinks, ReservedShrinks

\* What is taken off a counter is taken off the sum.
LEMMA BalanceReleased ==
  ASSUME NEW u \in Nat, NEW y \in Nat, NEW c \in Nat, u >= y, y - c \in Nat
  PROVE  Minus(u, c) \in Nat /\ Minus(u, c) >= y - c /\ (u = y => Minus(u, c) = y - c)
  BY MinusType

LEMMA SyncBalances ==
  ASSUME Sound, Sound', Unknown, Counters, NEW r \in Resources, NEW m \in Capacities,
         SyncNew(r, m) \/ SyncKnown(r, m)
  PROVE  Unknown' /\ Counters'
  <1>1. UNCHANGED <<reservations, allocations>> /\ Known \subseteq Known' /\ Known' \subseteq Known \cup {r}
    BY SyncNewDoes, SyncKnownDoes DEF Sound
  <1>2. \A s : HeldUnits(s)' = HeldUnits(s) /\ ReservedUnits(s)' = ReservedUnits(s)
    BY <1>1, UnitsSame
  <1>3. HeldShrinks /\ ReservedShrinks
    BY <1>1, SameShrinks DEF Sound
  <1>4. Unknown'
    BY <1>1, <1>3, UnknownKept DEF Sound, HeldShrinks, ReservedShrinks
  <1>5. ASSUME NEW s \in Known'
        PROVE  Balanced(profiles'[s], ReservedUnits(s), HeldUnits(s))
    <2>1. CASE s \in Known
      <3>1. /\ profiles'[s].reservedCapacity = profiles[s].reservedCapacity
            /\ profiles'[s].utilizedCapacity = profiles[s].utilizedCapacity
        BY <2>1, SyncNewDoes, SyncKnownDoes DEF Sound
      <3>2. Balanced(profiles[s], ReservedUnits(s), HeldUnits(s))
        BY <2>1 DEF Counters
      <3> QED
        BY <3>1, <3>2 DEF Balanced
    <2>2. CASE s \notin Known
      <3>1. s = r
        BY <1>1, <2>2
      <3>2. SyncNew(r, m)
        BY <2>2, <3>1 DEF SyncKnown
      <3>3. profiles'[s].reservedCapacity = 0 /\ profiles'[s].utilizedCapacity = 0
        BY <3>1, <3>2, SyncNewDoes DEF Sound
      <3>4. ReservedUnits(s) = 0 /\ HeldUnits(s) = 0
        BY <2>2, <3>1 DEF Unknown
      <3> QED
        BY <3>3, <3>4 DEF Balanced
    <2> QED
      BY <2>1, <2>2
  <1> QED
    BY <1>2, <1>4, <1>5 DEF Counters

LEMMA RequestReservationBalances ==
  ASSUME Sound, Sound', Unknown, Counters, NEW r \in Resources, NEW o \in Owners, NEW c \in Capacities,
         NEW p \in Priorities, NEW e \in BOOLEAN, RequestReservation(r, o, c, p, e)
  PROVE  Unknown' /\ Counters'
  <1>1. /\ Known' = Known /\ r \in Known /\ ByKnown(r, c, 0) /\ c \in Nat /\ UNCHANGED allocations
        /\ \A s \in Resources : ReservedUnits(s)' = ReservedUnits(s) + (IF s = r THEN c ELSE 0)
    BY RequestReservationDoes DEF Sound
  <1>2. \A s : HeldUnits(s)' = HeldUnits(s)
    BY <1>1, UnitsSame
  <1>3. \A s : HeldUnits(s) \in Nat /\ ReservedUnits(s) \in Nat
    BY UnitsType DEF Sound
  <1>4. Unknown'
    <2>1. \A s \in Resources \ Known' :
            s \notin Known /\ HeldUnits(s)' <= HeldUnits(s) /\ ReservedUnits(s)' <= ReservedUnits(s)
      BY <1>1, <1>2, <1>3
    <2> QED
      BY <2>1, UnknownKept DEF Sound
  <1>5. ASSUME NEW s \in Known
        PROVE  Balanced(profiles'[s], ReservedUnits(s)', HeldUnits(s)')
    <2>1. s \in Resources /\ Balanced(profiles[s], ReservedUnits(s), HeldUnits(s))
      BY DEF Sound, ListsOK, Counters
    <2>2. /\ profiles'[s].reservedCapacity = profiles[s].reservedCapacity + (IF s = r THEN c ELSE 0)
          /\ profiles'[s].utilizedCapacity = profiles[s].utilizedCapacity + (IF s = r THEN 0 ELSE 0)
      BY <1>1 DEF ByKnown, Becomes
    <2> QED
      BY <1>1, <1>2, <1>3, <2>1, <2>2 DEF Balanced
  <1> QED
    BY <1>1, <1>4, <1>5 DEF Counters

LEMMA RequestAllocationBalances ==
  ASSUME Sound, Sound', Unknown, Counters, NEW r \in Resources, NEW o \in Owners, NEW m \in Modes,
         NEW c \in Capacities, RequestAllocation(r, o, m, c)
  PROVE  Unknown' /\ Counters'
  <1>1. /\ Known' = Known /\ r \in Known /\ ByKnown(r, 0, c) /\ c \in Nat /\ UNCHANGED reservations
        /\ \A s \in Resources : HeldUnits(s)' = HeldUnits(s) + (IF s = r THEN c ELSE 0)
    BY RequestAllocationDoes DEF Sound
  <1>2. \A s : ReservedUnits(s)' = ReservedUnits(s)
    BY <1>1, UnitsSame
  <1>3. \A s : HeldUnits(s) \in Nat /\ ReservedUnits(s) \in Nat
    BY UnitsType DEF Sound
  <1>4. Unknown'
    <2>1. \A s \in Resources \ Known' :
            s \notin Known /\ HeldUnits(s)' <= HeldUnits(s) /\ ReservedUnits(s)' <= ReservedUnits(s)
      BY <1>1, <1>2, <1>3
    <2> QED
      BY <2>1, UnknownKept DEF Sound
  <1>5. ASSUME NEW s \in Known
        PROVE  Balanced(profiles'[s], ReservedUnits(s)', HeldUnits(s)')
    <2>1. s \in Resources /\ Balanced(profiles[s], ReservedUnits(s), HeldUnits(s))
      BY DEF Sound, ListsOK, Counters
    <2>2. /\ profiles'[s].reservedCapacity = profiles[s].reservedCapacity + (IF s = r THEN 0 ELSE 0)
          /\ profiles'[s].utilizedCapacity = profiles[s].utilizedCapacity + (IF s = r THEN c ELSE 0)
      BY <1>1 DEF ByKnown, Becomes
    <2> QED
      BY <1>1, <1>2, <1>3, <2>1, <2>2 DEF Balanced
  <1> QED
    BY <1>1, <1>4, <1>5 DEF Counters

LEMMA ActivateBalances ==
  ASSUME Sound, Sound', Unknown, Counters, "activateReleased" \notin Calls, NEW a, Activate(a)
  PROVE  Unknown' /\ Counters'
  <1>1. /\ Known' = Known /\ UNCHANGED reservations /\ \A s : HeldUnits(s)' = HeldUnits(s)
        /\ \A s \in Known : Becomes(profiles[s], profiles'[s], profiles[s].reservedCapacity, profiles[s].utilizedCapacity)
    BY ActivateDoes DEF Sound
  <1>2. \A s : ReservedUnits(s)' = ReservedUnits(s)
    BY <1>1, UnitsSame
  <1>3. Unknown'
    BY <1>1, <1>2 DEF Unknown
  <1> QED
    BY <1>1, <1>2, <1>3 DEF Counters, Becomes, Balanced

LEMMA ReleaseAllocationBalances ==
  ASSUME Sound, Sound', Unknown, Counters, "releaseAgain" \notin Calls, NEW r \in Resources, NEW a, ReleaseAllocation(r, a)
  PROVE  Unknown' /\ Counters'
  <1>1. /\ Known' = Known /\ UNCHANGED reservations
        /\ a \in DOMAIN allocations /\ allocations[a].resource = r /\ Marked(a, "released") /\ a \in Held(r)
        /\ \A s \in Known : Becomes(profiles[s], profiles'[s], profiles[s].reservedCapacity,
                                    IF s = r THEN Minus(profiles[s].utilizedCapacity, allocations[a].capacity)
                                    ELSE profiles[s].utilizedCapacity)
    BY ReleaseAllocationDoes DEF Sound
  <1>2. HeldShrinks /\ ReservedShrinks
    BY <1>1, MarkedShrinks, SameShrinks DEF Sound
  <1>3. Unknown'
    BY <1>1, <1>2, ShrinksUnknown DEF Sound
  <1>4. allocations[a].capacity \in Nat
    BY <1>1, PartType DEF Sound
  <1>5. ASSUME NEW s \in Known
        PROVE  Balanced(profiles'[s], ReservedUnits(s)', HeldUnits(s)')
    <2>1. Balanced(profiles[s], ReservedUnits(s), HeldUnits(s))
      BY DEF Counters
    <2>2. ReservedUnits(s)' = ReservedUnits(s)
      BY <1>1, UnitsSame
    <2>3. HeldUnits(s)' = HeldUnits(s) - Part(s, allocations[a])
      <3>1. IsHeld(a)
        BY <1>1 DEF Held, IsHeld
      <3> QED
        BY <1>1, <3>1, MarkedUnits DEF Sound
    <2>4. HeldUnits(s)' \in Nat /\ HeldUnits(s) \in Nat
      BY UnitsThen, UnitsType DEF Sound, ListsOK
    <2>5. Becomes(profiles[s], profiles'[s], profiles[s].reservedCapacity,
                  IF s = r THEN Minus(profiles[s].utilizedCapacity, allocations[a].capacity)
                  ELSE profiles[s].utilizedCapacity)
      BY <1>1
    <2>6. CASE s = r
      <3>1. HeldUnits(s)' = HeldUnits(s) - allocations[a].capacity
        BY <1>1, <2>3, <2>6 DEF Part
      <3> DEFINE u == profiles[s].utilizedCapacity
                 c == allocations[a].capacity
                 y == HeldUnits(s)
      <3>2. u \in Nat /\ y \in Nat /\ c \in Nat /\ u >= y /\ y - c \in Nat
        BY <1>4, <2>1, <2>4, <3>1 DEF Balanced
      <3> HIDE DEF u, c, y
      <3>3. Minus(u, c) \in Nat /\ Minus(u, c) >= y - c /\ (u = y => Minus(u, c) = y - c)
        BY <3>2, BalanceReleased
      <3>4. profiles'[s].reservedCapacity = profiles[s].reservedCapacity /\ profiles'[s].utilizedCapacity = Minus(u, c)
        BY <2>5, <2>6 DEF Becomes, u, c
      <3>5. HeldUnits(s)' = y - c
        BY <3>1 DEF y, c
      <3>6. "releaseBoth" \notin Calls => u = y
        BY <2>1 DEF Balanced, u, y
      <3> QED
        BY <2>1, <2>2, <3>3, <3>4, <3>5, <3>6 DEF Balanced
    <2>7. CASE s # r
      <3>1. HeldUnits(s)' = HeldUnits(s)
        BY <1>1, <2>3, <2>4, <2>7 DEF Part
      <3> QED
        BY <2>1, <2>2, <2>5, <2>7, <3>1 DEF Balanced, Becomes
    <2> QED
      BY <2>6, <2>7
  <1> QED
    BY <1>1, <1>3, <1>5 DEF Counters


\* The reservations of K end, and each profile loses what they reserved.
LEMMA EndedBalances ==
  ASSUME Sound, Sound', Counters, NEW K \in SUBSET DOMAIN reservations, NEW st \in {"expired", "released"},
         Ended(K, st), NEW s \in Known, NEW q,
         q.reservedCapacity = Minus(profiles[s].reservedCapacity, Total(reservations, K \cap Active(s)))
  PROVE  q.reservedCapacity = ReservedUnits(s)'
  <1>1. profiles[s].reservedCapacity = ReservedUnits(s)
    BY DEF Counters, Balanced
  <1>2. /\ ReservedUnits(s)' = ReservedUnits(s) - Total(reservations, K \cap Active(s))
        /\ Total(reservations, K \cap Active(s)) \in Nat
        /\ ReservedUnits(s)' \in Nat
    BY EndedUnits DEF Sound
  <1>3. ReservedUnits(s) \in Nat
    BY UnitsType DEF Sound
  <1> DEFINE x == ReservedUnits(s)
             d == Total(reservations, K \cap Active(s))
  <1>4. x \in Nat /\ d \in Nat /\ x - d \in Nat /\ x >= d
    BY <1>2, <1>3
  <1> HIDE DEF x, d
  <1>5. Minus(x, d) = x - d
    BY <1>4, MinusType
  <1> QED
    BY <1>1, <1>2, <1>5 DEF x, d

\* One active reservation of r is released.
LEMMA OneEnds ==
  ASSUME Sound, Sound', Counters, NEW r, NEW k \in DOMAIN reservations, k \in Active(r), TakenOff(r, k),
         Ended({k}, "released"), NEW s \in Known
  PROVE  /\ Known' = Known
         /\ profiles'[s].reservedCapacity = ReservedUnits(s)'
         /\ profiles'[s].utilizedCapacity = profiles[s].utilizedCapacity
  <1>1. /\ Known' = Known
        /\ Becomes(profiles[s], profiles'[s],
                   IF s = r THEN Minus(profiles[s].reservedCapacity, reservations[k].capacity)
                   ELSE profiles[s].reservedCapacity,
                   profiles[s].utilizedCapacity)
    BY TakesOff DEF Sound
  <1>2. reservations[k].capacity \in Nat /\ profiles[s].reservedCapacity \in Nat
    BY ReservedCapacityType DEF Sound, ProfilesOK, Profile
  <1>3. profiles'[s].reservedCapacity = Minus(profiles[s].reservedCapacity, Total(reservations, {k} \cap Active(s)))
    <2>1. CASE s = r
      <3>1. {k} \cap Active(s) = {k}
        BY <2>1
      <3> QED
        BY <1>1, <1>2, <2>1, <3>1, TotalOfOne DEF Becomes
    <2>2. CASE s # r
      <3>1. {k} \cap Active(s) = {}
        BY <2>2 DEF Active
      <3>2. Minus(profiles[s].reservedCapacity, 0) = profiles[s].reservedCapacity
        BY <1>2 DEF Minus
      <3> QED
        BY <1>1, <2>2, <3>1, <3>2, TotalOfNone DEF Becomes
    <2> QED
      BY <2>1, <2>2
  <1>4. {k} \in SUBSET DOMAIN reservations
    OBVIOUS
  <1>5. profiles'[s].reservedCapacity = ReservedUnits(s)'
    BY <1>3, <1>4, EndedBalances
  <1> QED
    BY <1>1, <1>5 DEF Becomes

LEMMA ReleaseReservationBalances ==
  ASSUME Sound, Sound', Unknown, Counters, "releaseAgain" \notin Calls, NEW r \in Resources, NEW k,
         ReleaseReservation(r, k)
  PROVE  Unknown' /\ Counters'
  <1>1. k \in DOMAIN reservations /\ k \in Active(r) /\ Ended({k}, "released") /\ TakenOff(r, k) /\ UNCHANGED allocations
    BY ReleasedIsEnded DEF ReleaseReservation, MayReleaseReservation, TakenOff, Sound, ListsOK
  <1>2. HeldShrinks /\ ReservedShrinks
    BY <1>1, EndedShrinks, SameShrinks DEF Sound
  <1>3. Known' = Known
    BY <1>1, TakesOff DEF Sound
  <1>4. Unknown'
    BY <1>2, <1>3, ShrinksUnknown DEF Sound
  <1>5. ASSUME NEW s \in Known
        PROVE  Balanced(profiles'[s], ReservedUnits(s)', HeldUnits(s)')
    <2>1. Balanced(profiles[s], ReservedUnits(s), HeldUnits(s))
      BY DEF Counters
    <2>2. HeldUnits(s)' = HeldUnits(s)
      BY <1>1, UnitsSame
    <2>3. /\ profiles'[s].reservedCapacity = ReservedUnits(s)'
          /\ profiles'[s].utilizedCapacity = profiles[s].utilizedCapacity
      BY <1>1, OneEnds
    <2> QED
      BY <2>1, <2>2, <2>3 DEF Balanced
  <1> QED
    BY <1>3, <1>4, <1>5 DEF Counters

\* Both at once: the utilized capacity is left as it was, and is too much.
LEMMA ReleaseBothBalances ==
  ASSUME Sound, Sound', Unknown, Counters, "releaseAgain" \notin Calls, NEW r \in Resources, NEW a, NEW k,
         ReleaseBoth(r, a, k)
  PROVE  Unknown' /\ Counters'
  <1>1. k \in DOMAIN reservations /\ k \in Active(r) /\ Ended({k}, "released") /\ TakenOff(r, k)
    BY ReleasedIsEnded DEF ReleaseBoth, MayReleaseReservation, TakenOff, Sound, ListsOK
  <1>2. a \in DOMAIN allocations /\ Marked(a, "released") /\ "releaseBoth" \in Calls
    BY DEF ReleaseBoth, MayReleaseAllocation, Marked
  <1>3. HeldShrinks /\ ReservedShrinks
    BY <1>1, <1>2, EndedShrinks, MarkedShrinks DEF Sound
  <1>4. Known' = Known
    BY <1>1, TakesOff DEF Sound
  <1>5. Unknown'
    BY <1>3, <1>4, ShrinksUnknown DEF Sound
  <1>6. ASSUME NEW s \in Known
        PROVE  Balanced(profiles'[s], ReservedUnits(s)', HeldUnits(s)')
    <2>1. Balanced(profiles[s], ReservedUnits(s), HeldUnits(s))
      BY DEF Counters
    <2>2. HeldUnits(s)' <= HeldUnits(s) /\ HeldUnits(s)' \in Nat /\ HeldUnits(s) \in Nat
      BY <1>3, UnitsThen, UnitsType DEF HeldShrinks, Sound, ListsOK
    <2>3. /\ profiles'[s].reservedCapacity = ReservedUnits(s)'
          /\ profiles'[s].utilizedCapacity = profiles[s].utilizedCapacity
      BY <1>1, OneEnds
    <2> QED
      BY <1>2, <2>1, <2>2, <2>3 DEF Balanced
  <1> QED
    BY <1>4, <1>5, <1>6 DEF Counters

LEMMA ExpireBalances ==
  ASSUME Sound, Sound', Unknown, Counters, ExpireReservations
  PROVE  Unknown' /\ Counters'
  <1>1. /\ Known' = Known /\ UNCHANGED allocations
        /\ Swept \in SUBSET DOMAIN reservations /\ Ended(Swept, "expired")
        /\ \A s \in Known :
             /\ Total(reservations, Swept \cap Active(s)) \in Nat
             /\ Becomes(profiles[s], profiles'[s],
                        IF Swept \cap Active(s) = {} THEN profiles[s].reservedCapacity
                        ELSE Minus(profiles[s].reservedCapacity, Total(reservations, Swept \cap Active(s))),
                        profiles[s].utilizedCapacity)
    BY ExpireDoes DEF Sound
  <1>2. HeldShrinks /\ ReservedShrinks
    BY <1>1, EndedShrinks, SameShrinks DEF Sound
  <1>3. Unknown'
    BY <1>1, <1>2, ShrinksUnknown DEF Sound
  <1>4. ASSUME NEW s \in Known
        PROVE  Balanced(profiles'[s], ReservedUnits(s)', HeldUnits(s)')
    <2>1. Balanced(profiles[s], ReservedUnits(s), HeldUnits(s))
      BY DEF Counters
    <2>2. HeldUnits(s)' = HeldUnits(s)
      BY <1>1, UnitsSame
    <2>3. profiles[s].reservedCapacity \in Nat
      BY DEF Sound, ProfilesOK, Profile
    <2>4. profiles'[s].reservedCapacity = Minus(profiles[s].reservedCapacity, Total(reservations, Swept \cap Active(s)))
      <3>1. CASE Swept \cap Active(s) = {}
        <4>1. Minus(profiles[s].reservedCapacity, 0) = profiles[s].reservedCapacity
          BY <2>3 DEF Minus
        <4> QED
          BY <1>1, <3>1, <4>1, TotalOfNone DEF Becomes
      <3>2. CASE Swept \cap Active(s) # {}
        BY <1>1, <3>2 DEF Becomes
      <3> QED
        BY <3>1, <3>2
    <2>5. profiles'[s].reservedCapacity = ReservedUnits(s)'
      BY <1>1, <2>4, EndedBalances
    <2>6. profiles'[s].utilizedCapacity = profiles[s].utilizedCapacity
      BY <1>1 DEF Becomes
    <2> QED
      BY <2>1, <2>2, <2>5, <2>6 DEF Balanced
  <1> QED
    BY <1>1, <1>3, <1>4 DEF Counters

LEMMA StepBalances ==
  ASSUME Sound, Sound', Unknown, Counters, "activateReleased" \notin Calls, "releaseAgain" \notin Calls, [Next]_vars
  PROVE  Unknown' /\ Counters'
  <1>h. ASSUME UNCHANGED <<profiles, reservations, allocations>>
        PROVE  Unknown' /\ Counters'
    <2>1. \A s : HeldUnits(s)' = HeldUnits(s) /\ ReservedUnits(s)' = ReservedUnits(s)
      BY <1>h, UnitsSame
    <2>2. Known' = Known /\ profiles' = profiles
      BY <1>h DEF Known
    <2> QED
      BY <2>1, <2>2 DEF Unknown, Counters
  <1>1. ASSUME NEW k \in 1..MaxRequests, Lapse(k) PROVE Unknown' /\ Counters'
    BY <1>1, <1>h DEF Lapse
  <1>2. CASE UNCHANGED vars
    BY <1>2, <1>h DEF vars
  <1> QED
    BY <1>1, <1>2, SyncBalances, RequestReservationBalances, RequestAllocationBalances, ActivateBalances,
       ReleaseAllocationBalances, ReleaseReservationBalances, ReleaseBothBalances, ExpireBalances DEF Next

LEMMA InitBalances == Init => Unknown /\ Counters
  <1> SUFFICES ASSUME Init PROVE Unknown /\ Counters
    OBVIOUS
  <1>1. Known = {}
    BY DEF Init, Known
  <1>2. ASSUME NEW r PROVE ReservedUnits(r) = 0 /\ HeldUnits(r) = 0
    <2>1. HeldIn(allocations, r) = {} /\ ActiveIn(reservations, r) = {}
      BY DEF Init, HeldIn, ActiveIn
    <2> QED
      BY <2>1, UnitsAre, TotalOfNone
  <1> QED
    BY <1>1, <1>2 DEF Unknown, Counters

LEMMA CountersHold ==
  ASSUME "activateReleased" \notin Calls, "releaseAgain" \notin Calls
  PROVE  Spec => [](Sound /\ Counters)
  <1>1. Sound /\ Sound' /\ Unknown /\ Counters /\ [Next]_vars => Unknown' /\ Counters'
    BY StepBalances
  <1> QED
    BY <1>1, InitBalances, SoundHolds, PTL DEF Spec

\* The counters from which utilization is reported never understate what the
\* lists hold, even after calls that released both kinds at once, as long as
\* nothing is released twice or activated after its release.
THEOREM CountersNeverUnderstate ==
  ASSUME "activateReleased" \notin Calls, "releaseAgain" \notin Calls
  PROVE  Spec => []CountersCover
  <1>1. Counters => CountersCover
    BY DEF Counters, Balanced, CountersCover
  <1> QED
    BY <1>1, CountersHold, PTL

\* Without calls that release both kinds at once the counters are exact.
THEOREM CountersExact ==
  ASSUME "activateReleased" \notin Calls, "releaseAgain" \notin Calls, "releaseBoth" \notin Calls
  PROVE  Spec => []CountersAgree
  <1>1. Counters => CountersAgree
    BY DEF Counters, Balanced, CountersAgree
  <1> QED
    BY <1>1, CountersHold, PTL
=============================================================================
