--------------------------- MODULE Operations_proofs ---------------------------
(* Theorems about the mining stack, for any processes, adapters, plugins,      *)
(* workloads, devices, sessions and storage locations.                         *)
EXTENDS Operations, TLAPS, FiniteSetTheorems, SequenceTheorems, WellFoundedInduction

----------------------------------------------------------------------------
(* Sessions.  An active session owns its device's claim and a claim's owner is *)
(* active on it; together they make the claim a function of who is at work.    *)

SessionsType ==
  /\ sessions \in [Sessions -> [device : Devices \cup {None}, stage : S!Stages, grant : BOOLEAN]]
  /\ owners \in [Devices -> Sessions \cup {None}]
  /\ leases \in [Sessions -> Int]
  /\ pending \in [Sessions -> SUBSET {"identify", "start", "monitor", "stop"}]
  /\ \A s \in Sessions : S!Known(s) => sessions[s].device \in Devices
  /\ \A s \in Sessions : pending[s] # {} => S!Known(s)
SessionsInv == SessionsType /\ S!DevicesAreOwned /\ S!GrantsAreKept

LEMMA SessionsInit == S!Init => SessionsInv
  <1> SUFFICES ASSUME S!Init PROVE SessionsInv
    OBVIOUS
  <1>1. SessionsType
    BY DEF S!Init, SessionsType, S!Stages, S!Known
  <1>2. S!DevicesAreOwned
    BY DEF S!Init, S!DevicesAreOwned, S!Active
  <1>3. S!GrantsAreKept
    BY DEF S!Init, S!GrantsAreKept
  <1> QED
    BY <1>1, <1>2, <1>3 DEF SessionsInv

\* A session that ends gives back its claim and its grant, and no other's.
LEMMA ReleaseKeeps ==
  ASSUME SessionsInv, NEW s \in Sessions, NEW stage \in {"stopped", "failed"}, NEW h \in Int, h >= leases[s],
         S!Known(s), S!Release(s, stage, h), framework' = framework,
         NEW what, pending' = [pending EXCEPT ![s] = @ \ {what}]
  PROVE  SessionsInv'
  <1> DEFINE g == IF sessions[s].grant THEN 1 ELSE 0
             d == sessions[s].device
  <1>1. /\ leases' = [leases EXCEPT ![s] = h - g]
        /\ sessions' = [sessions EXCEPT ![s].stage = stage, ![s].grant = FALSE]
        /\ owners' = IF owners[d] = s THEN [owners EXCEPT ![d] = None] ELSE owners
    BY DEF S!Release, S!Unclaimed, S!Owns
  <1>2. /\ sessions'[s].stage = stage /\ sessions'[s].grant = FALSE /\ sessions'[s].device = d
        /\ \A t \in Sessions \ {s} : sessions'[t] = sessions[t]
        /\ d \in Devices
    BY <1>1 DEF SessionsInv, SessionsType
  <1>3. SessionsType'
    <2>1. sessions' \in [Sessions -> [device : Devices \cup {None}, stage : S!Stages, grant : BOOLEAN]]
      <3>1. stage \in S!Stages
        BY DEF S!Stages
      <3>2. sessions[s] \in [device : Devices \cup {None}, stage : S!Stages, grant : BOOLEAN]
        BY DEF SessionsInv, SessionsType
      <3>3. [sessions[s] EXCEPT !.stage = stage, !.grant = FALSE] \in [device : Devices \cup {None}, stage : S!Stages, grant : BOOLEAN]
        BY <3>1, <3>2
      <3>4. sessions' = [sessions EXCEPT ![s] = [sessions[s] EXCEPT !.stage = stage, !.grant = FALSE]]
        BY <1>1 DEF SessionsInv, SessionsType
      <3> QED
        BY <3>3, <3>4 DEF SessionsInv, SessionsType
    <2>2. owners' \in [Devices -> Sessions \cup {None}] /\ leases' \in [Sessions -> Int]
      BY <1>1 DEF SessionsInv, SessionsType
    <2>3. \A t \in Sessions : S!Known(t)' => sessions'[t].device \in Devices
      BY <1>2 DEF SessionsInv, SessionsType, S!Known
    <2>4. /\ pending' \in [Sessions -> SUBSET {"identify", "start", "monitor", "stop"}]
          /\ \A t \in Sessions : pending'[t] \subseteq pending[t]
      BY DEF SessionsInv, SessionsType
    <2>5. \A t \in Sessions : pending'[t] # {} => S!Known(t)'
      BY <1>2, <2>4 DEF SessionsInv, SessionsType, S!Known
    <2> QED
      BY <2>1, <2>2, <2>3, <2>4, <2>5 DEF SessionsType
  <1>4. S!DevicesAreOwned'
    BY <1>1, <1>2, <1>3, OperationsAssumption
    DEF SessionsInv, SessionsType, S!DevicesAreOwned, S!Active, S!Owns, S!Exclusive, S!MiningSessionsAssumption
  <1>5. S!GrantsAreKept'
    <2>1. leases'[s] = h - g /\ leases[s] >= g /\ leases[s] \in Int
      BY <1>1 DEF SessionsInv, SessionsType, S!GrantsAreKept
    <2>2. leases'[s] >= 0 /\ \A t \in Sessions \ {s} : leases'[t] = leases[t]
      BY <1>1, <2>1 DEF SessionsInv, SessionsType
    <2> QED
      BY <1>2, <2>2 DEF SessionsInv, S!GrantsAreKept
  <1> QED
    BY <1>3, <1>4, <1>5 DEF SessionsInv

LEMMA FailsKeeps ==
  ASSUME SessionsInv, NEW s \in Sessions, NEW h \in Int, h >= leases[s], S!Known(s), S!Fails(s, h),
         framework' = framework, NEW what, pending' = [pending EXCEPT ![s] = @ \ {what}]
  PROVE  SessionsInv'
  <1> PICK stage \in {"stopped", "failed"} : stage = IF sessions[s].stage = "stopped" THEN "stopped" ELSE "failed"
    OBVIOUS
  <1>1. S!Release(s, stage, h)
    BY DEF S!Fails
  <1> QED
    BY <1>1, ReleaseKeeps

\* A step that leaves the claims and the leases and moves one session on.
LEMMA MovesOn ==
  ASSUME SessionsInv, NEW s \in Sessions, NEW stage \in S!Stages \ {"none"},
         sessions' = [sessions EXCEPT ![s].stage = stage], UNCHANGED <<framework, owners, leases>>,
         sessions[s].stage = stage \/ (sessions[s].stage = "prepared" /\ stage = "running")
           \/ (sessions[s].stage = "running" /\ stage = "monitored"),
         pending' \in [Sessions -> SUBSET {"identify", "start", "monitor", "stop"}],
         \A t \in Sessions \ {s} : pending'[t] = pending[t]
  PROVE  SessionsInv'
  <1>1. /\ sessions'[s].stage = stage /\ sessions'[s].grant = sessions[s].grant
        /\ sessions'[s].device = sessions[s].device
        /\ \A t \in Sessions \ {s} : sessions'[t] = sessions[t]
    BY DEF SessionsInv, SessionsType
  <1>2. SessionsType'
    <2>1. sessions' \in [Sessions -> [device : Devices \cup {None}, stage : S!Stages, grant : BOOLEAN]]
      BY DEF SessionsInv, SessionsType
    <2>2. S!Known(s)
      BY DEF S!Known
    <2> QED
      BY <1>1, <2>1, <2>2 DEF SessionsInv, SessionsType, S!Known
  <1>3. S!DevicesAreOwned'
    BY <1>1 DEF SessionsInv, SessionsType, S!DevicesAreOwned, S!Active, S!Owns, S!Exclusive
  <1>4. S!GrantsAreKept'
    BY <1>1 DEF SessionsInv, SessionsType, S!GrantsAreKept
  <1> QED
    BY <1>2, <1>3, <1>4 DEF SessionsInv

LEMMA SessionsStep == SessionsInv /\ (S!Next \/ UNCHANGED sessionVars) => SessionsInv'
  <1> SUFFICES ASSUME SessionsInv, S!Next \/ UNCHANGED sessionVars PROVE SessionsInv'
    OBVIOUS
  <1>1. ASSUME NEW s \in Sessions, NEW d \in Devices, S!Start(s, d)
        PROVE  SessionsInv'
    <2> DEFINE new == [device |-> d, stage |-> "requested", grant |-> FALSE]
    <2>1. /\ ~S!Known(s) /\ (S!Exclusive => owners[d] = None) /\ UNCHANGED <<framework, leases, mining>>
          /\ sessions' = [sessions EXCEPT ![s] = new]
          /\ owners' = IF S!Exclusive THEN [owners EXCEPT ![d] = s] ELSE owners
          /\ pending' = [pending EXCEPT ![s] = @ \cup {"identify"}]
      BY <1>1 DEF S!Start, S!Awaits
    <2>2. sessions'[s] = new /\ \A t \in Sessions \ {s} : sessions'[t] = sessions[t]
      BY <2>1 DEF SessionsInv, SessionsType
    <2>3. SessionsType'
      <3>1. sessions' \in [Sessions -> [device : Devices \cup {None}, stage : S!Stages, grant : BOOLEAN]]
        BY <2>1 DEF SessionsInv, SessionsType, S!Stages
      <3>2. owners' \in [Devices -> Sessions \cup {None}] /\ leases' \in [Sessions -> Int]
            /\ pending' \in [Sessions -> SUBSET {"identify", "start", "monitor", "stop"}]
        BY <2>1 DEF SessionsInv, SessionsType
      <3>3. \A t \in Sessions : /\ S!Known(t)' => sessions'[t].device \in Devices
                                /\ pending'[t] # {} => S!Known(t)'
        BY <2>1, <2>2 DEF SessionsInv, SessionsType, S!Known
      <3> QED
        BY <3>1, <3>2, <3>3 DEF SessionsType
    <2>4. S!DevicesAreOwned'
      <3>1. None \notin Sessions
        BY OperationsAssumption DEF S!MiningSessionsAssumption
      <3> QED
        BY <2>1, <2>2, <3>1 DEF SessionsInv, SessionsType, S!DevicesAreOwned, S!Active, S!Owns, S!Exclusive, S!Known
    <2>5. S!GrantsAreKept'
      BY <2>1, <2>2 DEF SessionsInv, SessionsType, S!GrantsAreKept, S!Known
    <2> QED
      BY <2>3, <2>4, <2>5 DEF SessionsInv
  <1>2. ASSUME NEW s \in Sessions, S!Granted(s)
        PROVE  SessionsInv'
    <2>1. /\ sessions[s].stage = "requested" /\ UNCHANGED <<framework, owners, mining>>
          /\ leases' = [leases EXCEPT ![s] = @ + 1]
          /\ sessions' = [sessions EXCEPT ![s].stage = "prepared", ![s].grant = TRUE]
          /\ pending' = [pending EXCEPT ![s] = (@ \ {"identify"}) \cup {"start"}]
      BY <1>2 DEF S!Granted
    <2>2. /\ sessions'[s].stage = "prepared" /\ sessions'[s].grant = TRUE /\ sessions'[s].device = sessions[s].device
          /\ \A t \in Sessions \ {s} : sessions'[t] = sessions[t]
      BY <2>1 DEF SessionsInv, SessionsType
    <2>3. SessionsType'
      <3>1. sessions' \in [Sessions -> [device : Devices \cup {None}, stage : S!Stages, grant : BOOLEAN]]
        BY <2>1 DEF SessionsInv, SessionsType, S!Stages
      <3>2. leases' \in [Sessions -> Int] /\ owners' \in [Devices -> Sessions \cup {None}]
            /\ pending' \in [Sessions -> SUBSET {"identify", "start", "monitor", "stop"}]
        BY <2>1 DEF SessionsInv, SessionsType
      <3>3. \A t \in Sessions : /\ S!Known(t)' => sessions'[t].device \in Devices
                                /\ pending'[t] # {} => S!Known(t)'
        BY <2>1, <2>2 DEF SessionsInv, SessionsType, S!Known
      <3> QED
        BY <3>1, <3>2, <3>3 DEF SessionsType
    <2>4. S!DevicesAreOwned'
      BY <2>1, <2>2 DEF SessionsInv, SessionsType, S!DevicesAreOwned, S!Active, S!Owns, S!Exclusive
    <2>5. S!GrantsAreKept'
      <3>1. leases[s] >= 0 /\ leases'[s] = leases[s] + 1 /\ \A t \in Sessions \ {s} : leases'[t] = leases[t]
        BY <2>1 DEF SessionsInv, SessionsType, S!GrantsAreKept
      <3>2. leases'[s] >= 1
        BY <3>1 DEF SessionsInv, SessionsType
      <3> QED
        BY <2>2, <3>1, <3>2 DEF SessionsInv, S!GrantsAreKept
    <2> QED
      BY <2>3, <2>4, <2>5 DEF SessionsInv
  <1>3. ASSUME NEW s \in Sessions, NEW what, S!Resumes(s, what)
        PROVE  S!Known(s) /\ pending' = [pending EXCEPT ![s] = @ \ {what}] /\ leases[s] \in Int
    BY <1>3 DEF S!Resumes, SessionsInv, SessionsType
  <1>4. ASSUME NEW s \in Sessions, S!Unsuited(s) \/ S!Mismatched(s) \/ S!NotStarted(s) \/ S!NotMonitored(s) \/ S!NotStopped(s)
        PROVE  SessionsInv'
    <2>1. PICK what \in {"identify", "start", "monitor", "stop"}, extra \in {0, 1} :
            S!Resumes(s, what) /\ S!Fails(s, leases[s] + extra) /\ framework' = framework
      <3>1. leases[s] \in Int /\ leases[s] = leases[s] + 0
        BY DEF SessionsInv, SessionsType
      <3> QED
        BY <1>4, <3>1 DEF S!Unsuited, S!Mismatched, S!NotStarted, S!NotMonitored, S!NotStopped
    <2>2. S!Known(s) /\ pending' = [pending EXCEPT ![s] = @ \ {what}] /\ leases[s] \in Int
      BY <1>3, <2>1
    <2>3. leases[s] + extra \in Int /\ leases[s] + extra >= leases[s]
      BY <2>2
    <2> QED
      BY <2>1, <2>2, <2>3, FailsKeeps
  <1>5. ASSUME NEW s \in Sessions, S!Started(s)
        PROVE  SessionsInv'
    <2>1. S!Resumes(s, "start") /\ framework' = framework
      BY <1>5 DEF S!Started
    <2>2. S!Known(s) /\ pending' = [pending EXCEPT ![s] = @ \ {"start"}] /\ leases[s] \in Int /\ leases[s] >= leases[s]
      BY <1>3, <2>1
    <2>3. CASE sessions[s].stage = "prepared"
      <3>1. sessions' = [sessions EXCEPT ![s].stage = "running"] /\ UNCHANGED <<framework, owners, leases>>
        BY <1>5, <2>3 DEF S!Started
      <3>2. "running" \in S!Stages \ {"none"}
        BY DEF S!Stages
      <3>3. /\ pending' \in [Sessions -> SUBSET {"identify", "start", "monitor", "stop"}]
            /\ \A t \in Sessions \ {s} : pending'[t] = pending[t]
        BY <2>2 DEF SessionsInv, SessionsType
      <3> QED
        BY <2>3, <3>1, <3>2, <3>3, MovesOn
    <2>4. CASE sessions[s].stage # "prepared"
      <3>1. S!Fails(s, leases[s])
        BY <1>5, <2>4 DEF S!Started
      <3> QED
        BY <2>1, <2>2, <3>1, FailsKeeps
    <2> QED
      BY <2>3, <2>4
  <1>6. ASSUME NEW s \in Sessions, S!Stopped(s)
        PROVE  SessionsInv'
    <2>1. S!Resumes(s, "stop") /\ framework' = framework
      BY <1>6 DEF S!Stopped
    <2>2. S!Known(s) /\ pending' = [pending EXCEPT ![s] = @ \ {"stop"}] /\ leases[s] \in Int /\ leases[s] >= leases[s]
      BY <1>3, <2>1
    <2>3. S!Release(s, "stopped", leases[s]) \/ S!Fails(s, leases[s])
      BY <1>6 DEF S!Stopped
    <2> QED
      BY <2>1, <2>2, <2>3, ReleaseKeeps, FailsKeeps
  <1>7. ASSUME NEW s \in Sessions, S!Monitor(s) \/ S!Stop(s) \/ S!Monitored(s)
        PROVE  SessionsInv'
    <2>1. UNCHANGED <<framework, owners, leases>> /\ S!Known(s)
      BY <1>3, <1>7 DEF S!Monitor, S!Stop, S!Monitored, S!Served
    <2>2. /\ pending' \in [Sessions -> SUBSET {"identify", "start", "monitor", "stop"}]
          /\ \A t \in Sessions \ {s} : pending'[t] = pending[t]
      BY <1>7 DEF S!Monitor, S!Stop, S!Monitored, S!Awaits, S!Resumes, SessionsInv, SessionsType
    <2> PICK stage : stage = IF S!Monitored(s) /\ sessions[s].stage = "running" THEN "monitored" ELSE sessions[s].stage
      OBVIOUS
    <2>3. sessions' = [sessions EXCEPT ![s].stage = stage]
      <3>1. sessions = [sessions EXCEPT ![s].stage = sessions[s].stage]
        BY DEF SessionsInv, SessionsType
      <3> QED
        BY <1>7, <3>1 DEF S!Monitor, S!Stop, S!Monitored
    <2>4. stage \in S!Stages \ {"none"}
      BY <2>1 DEF SessionsInv, SessionsType, S!Stages, S!Known
    <2> QED
      BY <2>1, <2>2, <2>3, <2>4, MovesOn
  <1>8. CASE UNCHANGED sessionVars
    BY <1>8 DEF sessionVars, SessionsInv, SessionsType, S!DevicesAreOwned, S!GrantsAreKept, S!Known, S!Active, S!Owns, S!Exclusive
  <1> QED
    BY <1>1, <1>2, <1>4, <1>5, <1>6, <1>7, <1>8 DEF S!Next


(* DevicesAreOwned (core/{gpu,asic}_mining_framework/src/isolation.ts, fail() and stop() of the
   sessions): for any devices and sessions, and any order of start(), monitor() and stop(), the
   session at work on a GPU or an ASIC owns its claim, an owned device has its owner at work, and
   a reservation is given back at most once. *)
THEOREM SessionsOwnDevices == OperationsSpec => []DevicesAreOwned
  <1>1. OperationsInit => SessionsInv
    BY SessionsInit DEF OperationsInit
  <1>2. SessionsInv /\ [OperationsNext]_operationsVars => SessionsInv'
    <2>1. [OperationsNext]_operationsVars => S!Next \/ UNCHANGED sessionVars
      BY DEF OperationsNext, operationsVars
    <2> QED
      BY <2>1, SessionsStep
  <1>3. SessionsInv => DevicesAreOwned
    BY DEF SessionsInv, DevicesAreOwned
  <1> QED
    BY <1>1, <1>2, <1>3, PTL DEF OperationsSpec


----------------------------------------------------------------------------
(* Storage.  An entry of the registry keeps its location for good and ends     *)
(* once; the index of a location follows the entry that has not ended.         *)

StorageType ==
  /\ entries \in Seq(T!Entry)
  /\ index \in [Locations -> Nat \cup {Nothing}]
  /\ \E Made : /\ archives \in Seq(Made)
               /\ \A m \in Made : m = [source |-> m.source, location |-> m.location, checksums |-> m.checksums,
                                       validated |-> m.validated]
StorageInv == StorageType /\ T!IndexAgrees /\ T!BackedUpIsArchived

\* What a step leaves of the entries there were.
StillThere(id) ==
  /\ id \in DOMAIN entries'
  /\ entries'[id].location = entries[id].location
  /\ entries'[id].stage = "deleted" <=> entries[id].stage = "deleted"
\* Of the archives.
ArchivesStay ==
  \A a \in DOMAIN archives : /\ a \in DOMAIN archives' /\ archives'[a].source = archives[a].source
                             /\ archives'[a].location = archives[a].location

LEMMA StorageConstants == Nothing \notin Nat
  BY OperationsAssumption DEF T!StorageAssumption

LEMMA StorageStarts == T!Init => StorageInv
  <1> SUFFICES ASSUME T!Init PROVE StorageInv
    OBVIOUS
  <1>1. StorageType
    <2>1. entries \in Seq(T!Entry) /\ archives \in Seq({})
      BY DEF T!Init
    <2>2. index \in [Locations -> Nat \cup {Nothing}]
      BY DEF T!Init
    <2> QED
      BY <2>1, <2>2 DEF StorageType
  <1>2. T!Live = {}
    BY DEF T!Init, T!Live
  <1>3. T!IndexAgrees /\ T!BackedUpIsArchived
    BY <1>2 DEF T!Init, T!IndexAgrees, T!BackedUpIsArchived
  <1> QED
    BY <1>1, <1>3 DEF StorageInv

\* No entry comes or ends, and the index stays.
LEMMA IndexStays ==
  ASSUME StorageInv, DOMAIN entries' = DOMAIN entries, \A id \in DOMAIN entries : StillThere(id), index' = index
  PROVE  T!IndexAgrees'
  <1>1. T!Live' = T!Live
    BY DEF T!Live, StillThere
  <1>2. \A id \in T!Live : entries'[id].location = entries[id].location
    BY DEF T!Live, StillThere
  <1> QED
    BY <1>1, <1>2 DEF StorageInv, T!IndexAgrees

\* A location without an entry is registered.
LEMMA IndexFollows ==
  ASSUME StorageInv, NEW l \in Locations, index[l] = Nothing, NEW n \in Nat, n \notin DOMAIN entries,
         DOMAIN entries' = DOMAIN entries \cup {n}, \A id \in DOMAIN entries : StillThere(id),
         entries'[n].location = l, entries'[n].stage # "deleted", index' = [index EXCEPT ![l] = n]
  PROVE  T!IndexAgrees'
  <1>1. T!Live' = T!Live \cup {n} /\ n \notin T!Live
    BY DEF T!Live, StillThere
  <1>2. \A id \in T!Live : /\ entries'[id].location = entries[id].location /\ entries[id].location \in Locations
                           /\ id \in Nat /\ index[entries[id].location] = id
    <2>1. ASSUME NEW id \in T!Live PROVE id \in DOMAIN entries /\ id \in Nat /\ entries[id].location \in Locations
      <3>1. entries \in Seq(T!Entry) /\ id \in DOMAIN entries
        BY DEF T!Live, StorageInv, StorageType
      <3>2. entries[id] \in T!Entry /\ id \in Nat
        BY <3>1
      <3> QED
        BY <3>1, <3>2 DEF T!Entry
    <2> QED
      BY <2>1 DEF StorageInv, T!IndexAgrees, StillThere
  <1>3. \A id \in T!Live : entries[id].location # l
    BY <1>2, StorageConstants
  <1>4. index'[l] = n /\ \A k \in Locations \ {l} : index'[k] = index[k]
    BY DEF StorageInv, StorageType
  <1>5. ASSUME NEW id \in T!Live' PROVE index'[entries'[id].location] = id
    BY <1>1, <1>2, <1>3, <1>4
  <1>6. ASSUME NEW k \in Locations, index'[k] # Nothing PROVE index'[k] \in T!Live' /\ entries'[index'[k]].location = k
    <2>1. CASE k = l
      BY <1>1, <1>4, <2>1
    <2>2. CASE k # l
      <3>1. index[k] \in T!Live /\ entries[index[k]].location = k
        BY <1>4, <1>6, <2>2 DEF StorageInv, T!IndexAgrees
      <3> QED
        BY <1>1, <1>2, <1>4, <2>2, <3>1
    <2> QED
      BY <2>1, <2>2
  <1> QED
    BY <1>5, <1>6 DEF T!IndexAgrees

\* What counts as backed up has ended, or did count before, or has an archive now.
StillBacked(id) ==
  \/ entries'[id].stage = "deleted"
  \/ /\ entries'[id].location = entries[id].location /\ entries[id].stage # "deleted"
     /\ entries'[id].stage = "archived" => entries[id].stage = "archived"
     /\ entries'[id].backup = "backed-up" => entries[id].backup = "backed-up"
  \/ \E a \in DOMAIN archives' : archives'[a].source = id /\ archives'[a].location = ArchiveOf[entries'[id].location]

\* What was backed up stays so.
LEMMA BackupStays ==
  ASSUME StorageInv, ArchivesStay, NEW new, DOMAIN entries' = DOMAIN entries \cup new,
         \A id \in DOMAIN entries : StillBacked(id),
         \A id \in new : id \notin DOMAIN entries => entries'[id].stage = "allocated" /\ entries'[id].backup = "none"
  PROVE  T!BackedUpIsArchived'
  <1> SUFFICES ASSUME NEW id \in T!Live', (entries'[id].stage = "archived" \/ entries'[id].backup = "backed-up")
               PROVE  \E a \in DOMAIN archives' : /\ archives'[a].source = id
                                                  /\ archives'[a].location = ArchiveOf[entries'[id].location]
    BY DEF T!BackedUpIsArchived
  <1>1. id \in DOMAIN entries' /\ entries'[id].stage # "deleted"
    BY DEF T!Live
  <1>2. id \in DOMAIN entries
    BY <1>1
  <1>3. CASE \E a \in DOMAIN archives' : /\ archives'[a].source = id
                                         /\ archives'[a].location = ArchiveOf[entries'[id].location]
    BY <1>3
  <1>4. CASE id \in T!Live /\ entries'[id].location = entries[id].location
             /\ (entries[id].stage = "archived" \/ entries[id].backup = "backed-up")
    <2>1. PICK a \in DOMAIN archives : archives[a].source = id /\ archives[a].location = ArchiveOf[entries[id].location]
      BY <1>4 DEF StorageInv, T!BackedUpIsArchived
    <2> QED
      BY <1>4, <2>1 DEF ArchivesStay
  <1> QED
    BY <1>1, <1>2, <1>3, <1>4 DEF T!Live, StillBacked


\* The entries after one of them was archived.
ArchivedIn(new, id) == [new EXCEPT ![id].stage = "archived", ![id].backup = "backed-up"]
LEMMA Archives ==
  ASSUME NEW new \in Seq(T!Entry), NEW id \in DOMAIN new
  PROVE  \E e \in T!Entry : /\ e.stage = "archived" /\ e.location = new[id].location
                            /\ ArchivedIn(new, id) = [new EXCEPT ![id] = e]
  <1> PICK e : e = [new[id] EXCEPT !.stage = "archived", !.backup = "backed-up"]
    OBVIOUS
  <1>1. new[id] \in T!Entry
    OBVIOUS
  <1>2. e \in T!Entry /\ e.stage = "archived" /\ e.location = new[id].location
    BY <1>1 DEF T!Entry, T!Stages
  <1>3. [new EXCEPT ![id].stage = "archived", ![id].backup = "backed-up"] = [new EXCEPT ![id] = e]
    BY <1>1 DEF T!Entry
  <1> QED
    BY <1>2, <1>3 DEF ArchivedIn

LEMMA Staged ==
  ASSUME StorageType, NEW id \in DOMAIN entries, NEW stage \in T!Stages,
         entries' = [entries EXCEPT ![id].stage = stage]
  PROVE  /\ entries' \in Seq(T!Entry) /\ DOMAIN entries' = DOMAIN entries
         /\ entries'[id].stage = stage /\ entries'[id].backup = entries[id].backup
         /\ entries'[id].location = entries[id].location
         /\ \A other \in DOMAIN entries \ {id} : entries'[other] = entries[other]
  <1> PICK e : e = [entries[id] EXCEPT !.stage = stage]
    OBVIOUS
  <1>1. entries \in Seq(T!Entry) /\ entries[id] \in T!Entry
    BY DEF StorageType
  <1>2. /\ e \in T!Entry /\ e.stage = stage /\ e.backup = entries[id].backup /\ e.location = entries[id].location
    BY <1>1 DEF T!Entry
  <1>3. entries' = [entries EXCEPT ![id] = e]
    BY <1>1 DEF T!Entry
  <1>4. /\ entries' \in Seq(T!Entry) /\ Len(entries') = Len(entries)
        /\ \A other \in 1..Len(entries) : entries'[other] = IF other = id THEN e ELSE entries[other]
    BY <1>1, <1>2, <1>3, ExceptSeq
  <1>5. DOMAIN entries = 1..Len(entries) /\ DOMAIN entries' = 1..Len(entries)
    BY <1>1, <1>4
  <1> QED
    BY <1>2, <1>4, <1>5

\* A new entry of a location, which is neither archived nor backed up.
NewEntries(l) == {e \in T!Entry : e.location = l /\ e.stage = "allocated" /\ e.backup = "none"}
LEMMA Registers ==
  ASSUME NEW l \in Locations, NEW isFile \in BOOLEAN, NEW policy \in RetentionPolicies \cup {Nothing}
  PROVE  \E e \in NewEntries(l) : T!Registered(l, isFile, policy) = Append(entries, e)
  <1> PICK e : e = [location |-> l, isFile |-> isFile, policy |-> policy, stage |-> "allocated", backup |-> "none"]
    OBVIOUS
  <1>1. e \in NewEntries(l)
    BY DEF NewEntries, T!Entry, T!Stages
  <1> QED
    BY <1>1 DEF T!Registered

LEMMA NewIsLast ==
  ASSUME StorageType, NEW l \in Locations, NEW e \in NewEntries(l), NEW n, n = Len(entries) + 1
  PROVE  LET new == Append(entries, e)
         IN  /\ new \in Seq(T!Entry) /\ DOMAIN new = DOMAIN entries \cup {n} /\ n \in Nat /\ n \notin DOMAIN entries
             /\ new[n].location = l /\ new[n].stage = "allocated" /\ new[n].backup = "none"
             /\ \A id \in DOMAIN entries : new[id] = entries[id]
  <1>1. entries \in Seq(T!Entry) /\ e \in T!Entry /\ e.location = l /\ e.stage = "allocated" /\ e.backup = "none"
    BY DEF StorageType, NewEntries
  <1> QED
    BY <1>1

\* What the steps but Release and Archive come to.
LEMMA RegistryStep ==
  ASSUME StorageInv, ArchivesStay, StorageType',
         \/ entries' = entries /\ index' = index
         \/ \E l \in Locations : \E e \in NewEntries(l) :
              /\ index[l] = Nothing /\ entries' = Append(entries, e)
              /\ index' = [index EXCEPT ![l] = Len(entries) + 1]
  PROVE  StorageInv'
  <1>1. CASE entries' = entries /\ index' = index
    <2>1. \A id \in DOMAIN entries : StillThere(id)
      BY <1>1 DEF StillThere
    <2>2. T!IndexAgrees'
      BY <1>1, <2>1, IndexStays
    <2>3. T!BackedUpIsArchived'
      <3>1. DOMAIN entries' = DOMAIN entries \cup {}
        BY <1>1
      <3>2. \A id \in DOMAIN entries : StillBacked(id)
        BY <1>1 DEF StillBacked
      <3> QED
        BY <3>1, <3>2, BackupStays
    <2> QED
      BY <2>2, <2>3 DEF StorageInv
  <1>2. ASSUME NEW l \in Locations, NEW e \in NewEntries(l), index[l] = Nothing, entries' = Append(entries, e),
               index' = [index EXCEPT ![l] = Len(entries) + 1]
        PROVE  StorageInv'
    <2> PICK n : n = Len(entries) + 1
      OBVIOUS
    <2>1. /\ DOMAIN entries' = DOMAIN entries \cup {n} /\ n \in Nat /\ n \notin DOMAIN entries
          /\ entries'[n].location = l /\ entries'[n].stage = "allocated" /\ entries'[n].backup = "none"
          /\ \A id \in DOMAIN entries : entries'[id] = entries[id]
      BY <1>2, NewIsLast DEF StorageInv
    <2>2. \A id \in DOMAIN entries : StillThere(id)
      BY <2>1 DEF StillThere
    <2>3. index' = [index EXCEPT ![l] = n] /\ entries'[n].stage # "deleted"
      BY <1>2, <2>1
    <2>4. T!IndexAgrees'
      BY <1>2, <2>1, <2>2, <2>3, IndexFollows
    <2>5. T!BackedUpIsArchived'
      <3>1. \A id \in DOMAIN entries : StillBacked(id)
        BY <2>1 DEF StillBacked
      <3>2. \A id \in {n} : id \notin DOMAIN entries => entries'[id].stage = "allocated" /\ entries'[id].backup = "none"
        BY <2>1
      <3> QED
        BY <2>1, <3>1, <3>2, BackupStays
    <2> QED
      BY <2>4, <2>5 DEF StorageInv
  <1> QED
    BY <1>1, <1>2


\* Release: an entry ends, and its location is free.
LEMMA ReleaseFrees ==
  ASSUME StorageInv, NEW id \in DOMAIN entries, T!Release(id)
  PROVE  StorageInv'
  <1>1. /\ StorageType /\ id \in T!Live /\ entries' = [entries EXCEPT ![id].stage = "deleted"]
        /\ index' = [index EXCEPT ![entries[id].location] = Nothing] /\ archives' = archives
    BY DEF T!Release, T!MayMove, StorageInv
  <1>2. "deleted" \in T!Stages
    BY DEF T!Stages
  <1>3. /\ entries' \in Seq(T!Entry) /\ DOMAIN entries' = DOMAIN entries
        /\ entries'[id].stage = "deleted" /\ entries'[id].location = entries[id].location
        /\ \A other \in DOMAIN entries \ {id} : entries'[other] = entries[other]
    BY <1>1, <1>2, Staged
  <1> PICK l : l = entries[id].location
    OBVIOUS
  <1>4. l \in Locations /\ index[l] = id
    <2>1. entries[id] \in T!Entry
      BY <1>1 DEF StorageType
    <2> QED
      BY <1>1, <2>1 DEF T!Entry, StorageInv, T!IndexAgrees
  <1>5. index'[l] = Nothing /\ \A k \in Locations \ {l} : index'[k] = index[k]
    BY <1>1, <1>4 DEF StorageType
  <1>6. StorageType'
    <2>1. index' \in [Locations -> Nat \cup {Nothing}]
      BY <1>1 DEF StorageType
    <2> QED
      BY <1>1, <1>3, <2>1 DEF StorageType
  <1>7. T!Live' = T!Live \ {id}
    BY <1>1, <1>3 DEF T!Live
  <1>8. \A other \in T!Live \ {id} : entries'[other] = entries[other] /\ entries[other].location # l
    <2> SUFFICES ASSUME NEW other \in T!Live \ {id} PROVE entries'[other] = entries[other] /\ entries[other].location # l
      OBVIOUS
    <2>1. other \in DOMAIN entries
      BY DEF T!Live
    <2>2. index[entries[other].location] = other
      BY DEF StorageInv, T!IndexAgrees
    <2> QED
      BY <1>3, <1>4, <2>1, <2>2
  <1>9. T!IndexAgrees'
    <2>1. ASSUME NEW other \in T!Live' PROVE index'[entries'[other].location] = other
      <3>1. entries[other] \in T!Entry /\ other \in T!Live \ {id}
        BY <1>1, <1>7 DEF T!Live, StorageType
      <3>2. entries[other].location \in Locations \ {l}
        BY <1>8, <3>1 DEF T!Entry
      <3> QED
        BY <1>5, <1>8, <3>1, <3>2 DEF StorageInv, T!IndexAgrees
    <2>2. ASSUME NEW k \in Locations, index'[k] # Nothing
          PROVE  index'[k] \in T!Live' /\ entries'[index'[k]].location = k
      <3>1. k # l /\ index'[k] = index[k]
        BY <1>5, <2>2
      <3>2. index[k] \in T!Live /\ entries[index[k]].location = k
        BY <2>2, <3>1 DEF StorageInv, T!IndexAgrees
      <3>3. index[k] # id
        BY <3>1, <3>2
      <3> QED
        BY <1>7, <1>8, <3>1, <3>2, <3>3
    <2> QED
      BY <2>1, <2>2 DEF T!IndexAgrees
  <1>10. T!BackedUpIsArchived'
    <2>1. \A other \in DOMAIN entries : StillBacked(other)
      BY <1>3 DEF StillBacked
    <2>2. ArchivesStay /\ DOMAIN entries' = DOMAIN entries \cup {}
      BY <1>1, <1>3 DEF ArchivesStay
    <2> QED
      BY <2>1, <2>2, BackupStays
  <1> QED
    BY <1>6, <1>9, <1>10 DEF StorageInv

LEMMA ActivateKeeps ==
  ASSUME StorageInv, NEW id \in DOMAIN entries, T!Activate(id)
  PROVE  StorageInv'
  <1>1. /\ StorageType /\ entries[id].stage # "deleted" /\ entries' = [entries EXCEPT ![id].stage = "active"]
        /\ index' = index /\ archives' = archives
    BY DEF T!Activate, T!MayMove, T!Live, StorageInv
  <1>2. "active" \in T!Stages
    BY DEF T!Stages
  <1>3. /\ entries' \in Seq(T!Entry) /\ DOMAIN entries' = DOMAIN entries
        /\ entries'[id].stage = "active" /\ entries'[id].location = entries[id].location
        /\ entries'[id].backup = entries[id].backup
        /\ \A other \in DOMAIN entries \ {id} : entries'[other] = entries[other]
    BY <1>1, <1>2, Staged
  <1>4. StorageType'
    BY <1>1, <1>3 DEF StorageType
  <1>5. \A other \in DOMAIN entries : StillThere(other)
    BY <1>1, <1>3 DEF StillThere
  <1>6. T!IndexAgrees'
    BY <1>1, <1>3, <1>5, IndexStays
  <1>7. T!BackedUpIsArchived'
    <2>1. \A other \in DOMAIN entries : StillBacked(other)
      BY <1>1, <1>3 DEF StillBacked
    <2>2. ArchivesStay /\ DOMAIN entries' = DOMAIN entries \cup {}
      BY <1>1, <1>3 DEF ArchivesStay
    <2> QED
      BY <2>1, <2>2, BackupStays
  <1> QED
    BY <1>4, <1>6, <1>7 DEF StorageInv


\* A location that is opened for its archives has an entry then.
LEMMA Opens ==
  ASSUME NEW id \in DOMAIN entries, StorageInv, T!Archivable(id), NEW l, l = ArchiveOf[entries[id].location]
  PROVE  /\ l \in Locations
         /\ index[l] # Nothing => T!AfterOpening(l) = entries
         /\ index[l] = Nothing => \E e \in NewEntries(l) : T!AfterOpening(l) = Append(entries, e)
  <1>1. l \in Locations
    <2>1. T!Range(ArchiveOf) \subseteq Locations /\ entries[id].location \in DOMAIN ArchiveOf
      BY OperationsAssumption DEF T!StorageAssumption, T!Archivable
    <2> QED
      BY <2>1 DEF T!Range
  <1>2. ASSUME index[l] = Nothing PROVE \E e \in NewEntries(l) : T!AfterOpening(l) = Append(entries, e)
    <2>1. T!AfterOpening(l) = T!Registered(l, FALSE, Nothing)
      BY <1>2 DEF T!AfterOpening
    <2>2. \E e \in NewEntries(l) : T!Registered(l, FALSE, Nothing) = Append(entries, e)
      BY <1>1, Registers
    <2> QED
      BY <2>1, <2>2
  <1> QED
    BY <1>1, <1>2 DEF T!AfterOpening

LEMMA StorageTypeKept ==
  ASSUME StorageType, entries' \in Seq(T!Entry), archives' = archives,
         \/ index' = index
         \/ \E l \in Locations : index' = [index EXCEPT ![l] = Len(entries) + 1]
         \/ \E l \in Locations : index' = [index EXCEPT ![l] = IF @ = Nothing THEN Len(entries) + 1 ELSE @]
  PROVE  StorageType'
  <1>1. Len(entries) + 1 \in Nat
    BY DEF StorageType
  <1>2. index' \in [Locations -> Nat \cup {Nothing}]
    BY <1>1 DEF StorageType
  <1> QED
    BY <1>2 DEF StorageType

\* archive() that fails after it opened the location of the archives.
LEMMA ArchiveFailsKeeps ==
  ASSUME StorageInv, NEW id \in DOMAIN entries, T!ArchiveFails(id)
  PROVE  StorageInv'
  <1> PICK l : l = ArchiveOf[entries[id].location]
    OBVIOUS
  <1>1. /\ StorageType /\ T!Archivable(id) /\ entries' = T!AfterOpening(l) /\ archives' = archives
        /\ index' = [index EXCEPT ![l] = IF @ = Nothing THEN Len(entries) + 1 ELSE @]
    BY DEF T!ArchiveFails, T!Opened, StorageInv
  <1>2. /\ l \in Locations
        /\ index[l] # Nothing => entries' = entries
        /\ index[l] = Nothing => \E e \in NewEntries(l) : entries' = Append(entries, e)
    BY <1>1, Opens
  <1>3. ArchivesStay
    BY <1>1 DEF ArchivesStay
  <1>4. CASE index[l] # Nothing
    <2>1. index' = index
      BY <1>1, <1>2, <1>4 DEF StorageType
    <2>2. entries' \in Seq(T!Entry)
      BY <1>1, <1>2, <1>4 DEF StorageType
    <2>3. StorageType'
      BY <1>1, <2>1, <2>2, StorageTypeKept
    <2> QED
      BY <1>2, <1>3, <1>4, <2>1, <2>3, RegistryStep
  <1>5. CASE index[l] = Nothing
    <2>1. PICK e \in NewEntries(l) : entries' = Append(entries, e)
      BY <1>2, <1>5
    <2>2. index' = [index EXCEPT ![l] = Len(entries) + 1]
      BY <1>1, <1>2, <1>5 DEF StorageType
    <2>3. entries' \in Seq(T!Entry)
      BY <1>1, <1>2, <2>1, NewIsLast
    <2>4. StorageType'
      BY <1>1, <1>2, <2>2, <2>3, StorageTypeKept
    <2> QED
      BY <1>2, <1>3, <1>5, <2>1, <2>2, <2>4, RegistryStep
  <1> QED
    BY <1>4, <1>5


\* The records of the archives, before and after one is appended or validated.
LEMMA ArchiveAppended ==
  ASSUME StorageType, NEW r, r = [source |-> r.source, location |-> r.location, checksums |-> r.checksums,
                                  validated |-> r.validated],
         archives' = Append(archives, r)
  PROVE  /\ ArchivesStay
         /\ \E a \in DOMAIN archives' : archives'[a] = r
         /\ \E Made : /\ archives' \in Seq(Made)
                      /\ \A m \in Made : m = [source |-> m.source, location |-> m.location,
                                              checksums |-> m.checksums, validated |-> m.validated]
  <1> PICK Made : /\ archives \in Seq(Made)
                  /\ \A m \in Made : m = [source |-> m.source, location |-> m.location, checksums |-> m.checksums,
                                          validated |-> m.validated]
    BY DEF StorageType
  <1> DEFINE More == Made \cup {r}
  <1>1. archives \in Seq(More) /\ r \in More
    OBVIOUS
  <1>2. \A m \in More : m = [source |-> m.source, location |-> m.location, checksums |-> m.checksums,
                             validated |-> m.validated]
    OBVIOUS
  <1> HIDE DEF More
  <1>3. /\ archives' \in Seq(More) /\ archives'[Len(archives) + 1] = r /\ Len(archives) + 1 \in DOMAIN archives'
        /\ \A a \in DOMAIN archives : a \in DOMAIN archives' /\ archives'[a] = archives[a]
    BY <1>1
  <1> QED
    BY <1>2, <1>3 DEF ArchivesStay

LEMMA ArchiveValidated ==
  ASSUME StorageType, NEW a \in DOMAIN archives, NEW v, archives' = [archives EXCEPT ![a].validated = v]
  PROVE  /\ ArchivesStay
         /\ \E Made : /\ archives' \in Seq(Made)
                      /\ \A m \in Made : m = [source |-> m.source, location |-> m.location,
                                              checksums |-> m.checksums, validated |-> m.validated]
  <1> PICK Made : /\ archives \in Seq(Made)
                  /\ \A m \in Made : m = [source |-> m.source, location |-> m.location, checksums |-> m.checksums,
                                          validated |-> m.validated]
    BY DEF StorageType
  <1>1. archives[a] \in Made /\ a \in 1..Len(archives) /\ DOMAIN archives = 1..Len(archives)
    OBVIOUS
  <1> PICK r : r = [source |-> archives[a].source, location |-> archives[a].location,
                    checksums |-> archives[a].checksums, validated |-> v]
    OBVIOUS
  <1>2. /\ r = [source |-> r.source, location |-> r.location, checksums |-> r.checksums, validated |-> r.validated]
        /\ r.source = archives[a].source /\ r.location = archives[a].location
    OBVIOUS
  <1>3. archives' = [archives EXCEPT ![a] = r]
    <2>1. archives[a] = [source |-> archives[a].source, location |-> archives[a].location,
                         checksums |-> archives[a].checksums, validated |-> archives[a].validated]
      BY <1>1
    <2>2. [archives[a] EXCEPT !.validated = v] = r
      BY <2>1
    <2> QED
      BY <2>2
  <1> DEFINE More == Made \cup {r}
  <1>4. archives \in Seq(More) /\ r \in More
    OBVIOUS
  <1>5. \A m \in More : m = [source |-> m.source, location |-> m.location, checksums |-> m.checksums,
                             validated |-> m.validated]
    BY <1>2
  <1> HIDE DEF More
  <1>6. /\ archives' \in Seq(More) /\ Len(archives') = Len(archives)
        /\ \A b \in 1..Len(archives) : archives'[b] = IF b = a THEN r ELSE archives[b]
    BY <1>1, <1>3, <1>4, ExceptSeq
  <1>7. ArchivesStay
    BY <1>1, <1>2, <1>6 DEF ArchivesStay
  <1> QED
    BY <1>5, <1>6, <1>7


\* archive(): the entry is archived, and its archive is there.
LEMMA ArchiveKeeps ==
  ASSUME StorageInv, NEW id \in DOMAIN entries, T!Archive(id)
  PROVE  StorageInv'
  <1> PICK l : l = ArchiveOf[entries[id].location]
    OBVIOUS
  <1> PICK new : new = T!AfterOpening(l)
    OBVIOUS
  <1> PICK n : n = Len(entries) + 1
    OBVIOUS
  <1> PICK copies : copies = T!CollectFiles(entries[id].location)
    OBVIOUS
  <1>1. /\ StorageType /\ T!Archivable(id) /\ entries[id].stage # "deleted"
        /\ entries' = ArchivedIn(new, id)
        /\ index' = [index EXCEPT ![l] = IF @ = Nothing THEN n ELSE @]
        /\ archives' = Append(archives, [source |-> id, location |-> l, checksums |-> copies, validated |-> Nothing])
    BY DEF T!Archive, T!Archivable, T!MayMove, T!Live, T!Opened, StorageInv, ArchivedIn
  <1>2. /\ l \in Locations
        /\ index[l] # Nothing => new = entries
        /\ index[l] = Nothing => \E e \in NewEntries(l) : new = Append(entries, e)
    BY <1>1, Opens
  <1>3. /\ new \in Seq(T!Entry) /\ DOMAIN entries \subseteq DOMAIN new
        /\ \A other \in DOMAIN entries : new[other] = entries[other]
        /\ index[l] # Nothing => DOMAIN new = DOMAIN entries
        /\ index[l] = Nothing => /\ n \in Nat /\ n \notin DOMAIN entries /\ DOMAIN new = DOMAIN entries \cup {n}
                                 /\ new[n].location = l /\ new[n].stage = "allocated" /\ new[n].backup = "none"
    <2>1. CASE index[l] # Nothing
      BY <1>1, <1>2, <2>1 DEF StorageType
    <2>2. CASE index[l] = Nothing
      <3>1. PICK e \in NewEntries(l) : new = Append(entries, e)
        BY <1>2, <2>2
      <3> QED
        BY <1>1, <1>2, <2>2, <3>1, NewIsLast
    <2> QED
      BY <2>1, <2>2
  <1>4. /\ entries' \in Seq(T!Entry) /\ DOMAIN entries' = DOMAIN new
        /\ entries'[id].stage = "archived" /\ entries'[id].location = entries[id].location
        /\ \A other \in DOMAIN new \ {id} : entries'[other] = new[other]
    <2>1. id \in DOMAIN new /\ DOMAIN new = 1..Len(new)
      BY <1>3
    <2>2. PICK e \in T!Entry : /\ e.stage = "archived" /\ e.location = new[id].location
                              /\ entries' = [new EXCEPT ![id] = e]
      <3>1. new \in Seq(T!Entry)
        BY <1>3
      <3>2. \E e \in T!Entry : /\ e.stage = "archived" /\ e.location = new[id].location
                               /\ ArchivedIn(new, id) = [new EXCEPT ![id] = e]
        BY <2>1, <3>1, Archives
      <3>3. entries' = ArchivedIn(new, id)
        BY <1>1
      <3> QED
        BY <3>2, <3>3
    <2>3. /\ entries' \in Seq(T!Entry) /\ Len(entries') = Len(new)
          /\ \A other \in 1..Len(new) : entries'[other] = IF other = id THEN e ELSE new[other]
      BY <1>3, <2>1, <2>2, ExceptSeq
    <2>4. DOMAIN entries' = 1..Len(new)
      BY <2>3
    <2> QED
      BY <1>3, <2>1, <2>2, <2>3, <2>4
  <1> PICK r : r = [source |-> id, location |-> l, checksums |-> copies, validated |-> Nothing]
    OBVIOUS
  <1>5. r = [source |-> r.source, location |-> r.location, checksums |-> r.checksums, validated |-> r.validated]
        /\ r.source = id /\ r.location = l /\ archives' = Append(archives, r)
    BY <1>1
  <1>6. /\ ArchivesStay
        /\ \E a \in DOMAIN archives' : archives'[a] = r
        /\ \E Made : /\ archives' \in Seq(Made)
                     /\ \A m \in Made : m = [source |-> m.source, location |-> m.location, checksums |-> m.checksums,
                                             validated |-> m.validated]
    BY <1>1, <1>5, ArchiveAppended
  <1>7. StorageType'
    <2>1. n \in Nat /\ index \in [Locations -> Nat \cup {Nothing}]
      BY <1>1 DEF StorageType
    <2>2. index' \in [Locations -> Nat \cup {Nothing}]
      BY <1>1, <2>1
    <2> QED
      BY <1>4, <1>6, <2>2 DEF StorageType
  <1>8. \A other \in DOMAIN entries : StillThere(other) /\ StillBacked(other)
    <2>1. StillThere(id) /\ StillBacked(id)
      BY <1>1, <1>3, <1>4, <1>5, <1>6 DEF StillThere, StillBacked
    <2>2. ASSUME NEW other \in DOMAIN entries \ {id} PROVE StillThere(other) /\ StillBacked(other)
      BY <1>3, <1>4 DEF StillThere, StillBacked
    <2> QED
      BY <2>1, <2>2
  <1>9. CASE index[l] # Nothing
    <2>1. index' = index
      BY <1>1, <1>2, <1>9 DEF StorageType
    <2>2. DOMAIN entries' = DOMAIN entries /\ DOMAIN entries' = DOMAIN entries \cup {}
      BY <1>3, <1>4, <1>9
    <2>3. T!IndexAgrees'
      BY <1>8, <2>1, <2>2, IndexStays
    <2>4. T!BackedUpIsArchived'
      BY <1>6, <1>8, <2>2, BackupStays
    <2> QED
      BY <1>7, <2>3, <2>4 DEF StorageInv
  <1>10. CASE index[l] = Nothing
    <2>1. /\ n \in Nat /\ n \notin DOMAIN entries /\ DOMAIN entries' = DOMAIN entries \cup {n}
          /\ entries'[n].location = l /\ entries'[n].stage = "allocated" /\ entries'[n].backup = "none"
      BY <1>3, <1>4, <1>10
    <2>2. index' = [index EXCEPT ![l] = n]
      BY <1>1, <1>2, <1>10 DEF StorageType
    <2>3. T!IndexAgrees'
      <3>1. entries'[n].stage # "deleted" /\ \A other \in DOMAIN entries : StillThere(other)
        BY <1>8, <2>1
      <3> QED
        BY <1>2, <1>10, <2>1, <2>2, <3>1, IndexFollows
    <2>4. T!BackedUpIsArchived'
      <3>1. /\ \A k \in {n} : k \notin DOMAIN entries => entries'[k].stage = "allocated" /\ entries'[k].backup = "none"
            /\ \A other \in DOMAIN entries : StillBacked(other)
        BY <1>8, <2>1
      <3> QED
        BY <1>6, <2>1, <3>1, BackupStays
    <2> QED
      BY <1>7, <2>3, <2>4 DEF StorageInv
  <1> QED
    BY <1>9, <1>10

LEMMA StorageStep == StorageInv /\ (T!Next \/ UNCHANGED storageVars) => StorageInv'
  <1> SUFFICES ASSUME StorageInv, T!Next \/ UNCHANGED storageVars PROVE StorageInv'
    OBVIOUS
  <1>1. ASSUME NEW l \in Locations, NEW isFile \in BOOLEAN, NEW policy \in RetentionPolicies, T!Allocate(l, isFile, policy)
        PROVE  StorageInv'
    <2>1. /\ index[l] = Nothing /\ archives' = archives /\ entries' = T!Registered(l, isFile, policy)
          /\ index' = [index EXCEPT ![l] = Len(entries) + 1] /\ StorageType
      BY <1>1 DEF T!Allocate, StorageInv
    <2>2. PICK e \in NewEntries(l) : entries' = Append(entries, e)
      <3>1. \E e \in NewEntries(l) : T!Registered(l, isFile, policy) = Append(entries, e)
        BY Registers
      <3> QED
        BY <2>1, <3>1
    <2>3. entries' \in Seq(T!Entry)
      BY <2>1, <2>2, NewIsLast
    <2>4. StorageType' /\ ArchivesStay
      BY <2>1, <2>3, StorageTypeKept DEF ArchivesStay
    <2> QED
      BY <2>1, <2>2, <2>4, RegistryStep
  <1>2. ASSUME NEW id \in DOMAIN entries,
               T!Activate(id) \/ T!Release(id) \/ T!Archive(id) \/ T!ArchiveFails(id)
        PROVE  StorageInv'
    BY <1>2, ActivateKeeps, ReleaseFrees, ArchiveKeeps, ArchiveFailsKeeps
  <1>3. ASSUME NEW a \in DOMAIN archives, T!ValidateArchive(a)
        PROVE  StorageInv'
    <2> PICK v : v = T!Valid(a)
      OBVIOUS
    <2>1. archives' = [archives EXCEPT ![a].validated = v] /\ entries' = entries /\ index' = index /\ StorageType
      BY <1>3 DEF T!ValidateArchive, StorageInv
    <2>2. /\ ArchivesStay
          /\ \E Made : /\ archives' \in Seq(Made)
                       /\ \A m \in Made : m = [source |-> m.source, location |-> m.location, checksums |-> m.checksums,
                                               validated |-> m.validated]
      BY <2>1, ArchiveValidated
    <2>3. StorageType'
      BY <2>1, <2>2 DEF StorageType
    <2> QED
      BY <2>1, <2>2, <2>3, RegistryStep
  <1>4. ASSUME UNCHANGED <<entries, index, archives>>
        PROVE  StorageInv'
    <2>1. StorageType' /\ ArchivesStay
      BY <1>4 DEF StorageInv, StorageType, ArchivesStay
    <2> QED
      BY <1>4, <2>1, RegistryStep
  <1>5. (\E id \in DOMAIN entries : T!EnforceRetention(id)) \/ T!EnforceAllRetention \/ T!External \/ UNCHANGED storageVars
          => UNCHANGED <<entries, index, archives>>
    BY DEF T!EnforceRetention, T!EnforceAllRetention, T!External, T!RemoveDirectory, T!GrowOld, T!Write, storageVars
  <1> QED
    BY <1>1, <1>2, <1>3, <1>4, <1>5 DEF T!Next

(* IndexAgrees (core/storage_authority: StorageRegistry, allocate(), release() and archive()):
   for any locations, policies and bounds, a location has one entry and the two maps of the
   registry agree, and what counts as backed up has an archive that was made of it. *)
THEOREM RegistryAgrees == OperationsSpec => []IndexAgrees
  <1>1. OperationsInit => StorageInv
    BY StorageStarts DEF OperationsInit
  <1>2. StorageInv /\ [OperationsNext]_operationsVars => StorageInv'
    <2>1. [OperationsNext]_operationsVars => T!Next \/ UNCHANGED storageVars
      BY DEF OperationsNext, operationsVars
    <2> QED
      BY <2>1, StorageStep
  <1>3. StorageInv => IndexAgrees
    BY DEF StorageInv, IndexAgrees
  <1> QED
    BY <1>1, <1>2, <1>3, PTL DEF OperationsSpec


----------------------------------------------------------------------------
(* Workloads.  An outcome is for good, so what was ready stays ready; the      *)
(* stage of a workload, its outcome, its counts and its history tell one story.*)

States == {"created", "validated", "queued", "assigned", "running", "paused", "completed", "failed", "archived"}
WorkloadProfile ==
  [state : States, assigned : SUBSET WorkResources, dependencies : SUBSET Workloads, priority : Priorities,
   completedRuns : Nat, failedRuns : Nat, started : BOOLEAN, outcome : {"none", "completed", "failed", "cancelled"}]
WorkloadsType ==
  /\ DOMAIN profiles \subseteq Workloads /\ profiles \in [DOMAIN profiles -> WorkloadProfile]
  /\ history \in [Workloads -> SUBSET States]
  /\ advice \in [Workloads -> {"none", "defer", "queue", "place-now"}]

\* Every dependency of a workload has completed.
Ready(w) == \A d \in profiles[w].dependencies : d \in DOMAIN profiles /\ profiles[d].outcome = "completed"
\* One story: profile p has the history h.
Consistent(p, h) ==
  /\ p.state = "completed" => p.outcome = "completed"
  /\ p.state = "failed" => p.outcome = "failed"
  /\ p.outcome = "completed" => p.state \in {"completed", "archived"}
  /\ p.outcome = "failed" => p.state \in {"failed", "archived"}
  /\ p.completedRuns > 0 <=> p.outcome = "completed"
  /\ p.failedRuns > 0 <=> p.outcome = "failed"
  /\ "completed" \in h <=> p.outcome = "completed"
  /\ "failed" \in h <=> p.outcome = "failed"
  /\ p.state = "queued" => "queued" \in h
  /\ p.state \in W!Working \/ p.started => {"queued", "assigned"} \subseteq h
WorkloadsInv ==
  /\ WorkloadsType
  /\ \A w \in DOMAIN profiles : Consistent(profiles[w], history[w])
  /\ \A w \in DOMAIN profiles : profiles[w].state \in W!Working => profiles[w].assigned # {} /\ Ready(w)
  /\ \A w \in Workloads : /\ advice[w] = "place-now" => w \in DOMAIN profiles /\ Ready(w)
                          /\ w \notin DOMAIN profiles => history[w] = {}

LEMMA ReadyIsComplete == ASSUME NEW w PROVE W!Incomplete(w) = {} <=> Ready(w)
  BY DEF W!Incomplete, W!Registered, Ready

LEMMA WorkloadsStart == W!Init => WorkloadsInv
  BY DEF W!Init, WorkloadsInv, WorkloadsType

LEMMA WorkloadsTell ==
  ASSUME WorkloadsInv
  PROVE  W!WorkIsReady /\ W!OneOutcome /\ W!AdviceHolds /\ W!DelayKnown
  <1>1. W!WorkIsReady
    BY DEF WorkloadsInv, W!WorkIsReady, W!Registered, Ready
  <1>2. W!OneOutcome
    BY DEF WorkloadsInv, W!OneOutcome, W!Registered, Consistent
  <1>3. W!AdviceHolds
    BY ReadyIsComplete DEF WorkloadsInv, WorkloadsType, W!AdviceHolds, W!Registered
  <1>4. W!DelayKnown
    <2> SUFFICES ASSUME NEW w \in DOMAIN profiles, profiles[w].started, ~W!Terminal(w) PROVE W!Forecast(w).delayed
      BY DEF W!DelayKnown, W!Registered
    <2>1. {"queued", "assigned"} \subseteq history[w]
      BY DEF WorkloadsInv, Consistent
    <2> QED
      BY <2>1 DEF W!Forecast
  <1> QED
    BY <1>1, <1>2, <1>3, <1>4

\* What is ready stays ready while no workload loses its outcome.
LEMMA ReadyStays ==
  ASSUME NEW w \in DOMAIN profiles, w \in DOMAIN profiles', DOMAIN profiles \subseteq DOMAIN profiles',
         profiles'[w].dependencies = profiles[w].dependencies, Ready(w),
         \A d \in DOMAIN profiles : profiles[d].outcome = "completed" => profiles'[d].outcome = "completed"
  PROVE  Ready(w)'
  BY DEF Ready

\* A step that gives one workload the profile q.
LEMMA ProfileStep ==
  ASSUME WorkloadsInv, NEW w \in DOMAIN profiles, NEW q \in WorkloadProfile, profiles' = [profiles EXCEPT ![w] = q],
         q.dependencies = profiles[w].dependencies, profiles[w].outcome = "completed" => q.outcome = "completed",
         NEW h \in SUBSET States, history' = [history EXCEPT ![w] = h], Consistent(q, h), advice' = advice,
         q.state \in W!Working => q.assigned # {} /\ (profiles[w].state \in W!Working \/ Ready(w))
  PROVE  WorkloadsInv'
  <1>1. WorkloadsType /\ w \in Workloads
    BY DEF WorkloadsInv, WorkloadsType
  <1>2. /\ DOMAIN profiles' = DOMAIN profiles /\ profiles'[w] = q /\ history'[w] = h
        /\ \A v \in DOMAIN profiles \ {w} : profiles'[v] = profiles[v]
        /\ \A v \in Workloads \ {w} : history'[v] = history[v]
    BY <1>1 DEF WorkloadsType
  <1>3. WorkloadsType'
    BY <1>1, <1>2 DEF WorkloadsType
  <1>4. \A v \in DOMAIN profiles : Consistent(profiles[v], history[v])'
    <2>1. Consistent(profiles[w], history[w])'
      BY <1>2
    <2>2. ASSUME NEW v \in DOMAIN profiles \ {w} PROVE Consistent(profiles[v], history[v])'
      BY <1>1, <1>2 DEF WorkloadsType, WorkloadsInv
    <2> QED
      BY <2>1, <2>2
  <1>5. \A v \in DOMAIN profiles : Ready(v) => Ready(v)'
    <2>1. \A v \in DOMAIN profiles : /\ profiles'[v].dependencies = profiles[v].dependencies
                                     /\ profiles[v].outcome = "completed" => profiles'[v].outcome = "completed"
      BY <1>2
    <2> QED
      BY <1>2, <2>1, ReadyStays
  <1>6. \A v \in DOMAIN profiles : profiles'[v].state \in W!Working => profiles'[v].assigned # {} /\ Ready(v)'
    BY <1>2, <1>5 DEF WorkloadsInv
  <1>7. \A v \in Workloads : /\ advice'[v] = "place-now" => v \in DOMAIN profiles' /\ Ready(v)'
                             /\ v \notin DOMAIN profiles' => history'[v] = {}
    BY <1>2, <1>5 DEF WorkloadsInv
  <1> QED
    BY <1>2, <1>3, <1>4, <1>6, <1>7 DEF WorkloadsInv, W!Working


LEMMA MovedProfile ==
  ASSUME NEW p \in WorkloadProfile, NEW to \in States
  PROVE  /\ W!Moved(p, to) \in WorkloadProfile
         /\ W!Moved(p, to).state = to /\ W!Moved(p, to).assigned = p.assigned
         /\ W!Moved(p, to).dependencies = p.dependencies
         /\ W!Moved(p, to).completedRuns = p.completedRuns /\ W!Moved(p, to).failedRuns = p.failedRuns
         /\ W!Moved(p, to).outcome = IF to \in {"completed", "failed"} THEN to ELSE p.outcome
         /\ W!Moved(p, to).started => p.started \/ to = "running"
  <1> PICK o : o = IF to \in {"completed", "failed"} THEN to ELSE p.outcome
    OBVIOUS
  <1> PICK s \in BOOLEAN : s = (p.started \/ to = "running")
    OBVIOUS
  <1>1. W!Moved(p, to) = [p EXCEPT !.state = to, !.started = s, !.outcome = o]
    BY DEF W!Moved
  <1>2. o \in {"none", "completed", "failed", "cancelled"}
    BY DEF WorkloadProfile
  <1> QED
    BY <1>1, <1>2 DEF WorkloadProfile

LEMMA PerformedProfile ==
  ASSUME NEW p \in WorkloadProfile, NEW outcome \in {"completed", "failed"}
  PROVE  LET q == W!Performed(p, outcome)
         IN  /\ q \in WorkloadProfile
             /\ q.state = p.state /\ q.assigned = p.assigned /\ q.dependencies = p.dependencies
             /\ q.outcome = p.outcome /\ q.started = p.started
             /\ q.completedRuns > 0 <=> p.completedRuns > 0 \/ outcome = "completed"
             /\ q.failedRuns > 0 <=> p.failedRuns > 0 \/ outcome = "failed"
  <1>1. p.completedRuns \in Nat /\ p.failedRuns \in Nat
    BY DEF WorkloadProfile
  <1>2. CASE outcome = "completed"
    <2>1. W!Performed(p, outcome) = [p EXCEPT !.completedRuns = p.completedRuns + 1]
      BY <1>2 DEF W!Performed
    <2> QED
      BY <1>1, <1>2, <2>1 DEF WorkloadProfile
  <1>3. CASE outcome = "failed"
    <2>1. W!Performed(p, outcome) = [p EXCEPT !.failedRuns = p.failedRuns + 1]
      BY <1>3 DEF W!Performed
    <2> QED
      BY <1>1, <1>3, <2>1 DEF WorkloadProfile
  <1> QED
    BY <1>2, <1>3

LEMMA AllowedMoves ==
  ASSUME NEW from \in States, NEW to \in States, W!Allowed(from, to)
  PROVE  /\ to = "queued" => from \in {"validated", "queued"}
         /\ to = "assigned" => from \in {"queued", "assigned"}
         /\ to = "running" => from \in {"assigned", "paused", "running"}
         /\ to = "paused" => from \in {"running", "paused"}
         /\ to = "completed" => from \in {"running", "paused", "completed"}
         /\ to = "failed" => from \in {"running", "paused", "failed"}
         /\ to = "validated" => from \in {"created", "validated"}
  BY DEF W!Allowed, W!Transitions, States

\* Every operation that moves workload w on.
Moves(w, to) ==
  /\ w \in DOMAIN profiles /\ W!Allowed(profiles[w].state, to)
  /\ history' = [history EXCEPT ![w] = @ \cup {to}]

LEMMA MoveKeeps ==
  ASSUME WorkloadsInv, NEW w, NEW to \in States, Moves(w, to), advice' = advice, NEW q \in WorkloadProfile,
         profiles' = [profiles EXCEPT ![w] = q], q.state = to, q.dependencies = profiles[w].dependencies,
         q.outcome = (IF to \in {"completed", "failed"} THEN to ELSE profiles[w].outcome)
           \/ (to = "archived" /\ q.outcome = "cancelled" /\ profiles[w].state \notin {"completed", "failed", "archived"}),
         to = "archived" => profiles[w].state # "archived",
         q.completedRuns > 0 <=> profiles[w].completedRuns > 0 \/ to = "completed",
         q.failedRuns > 0 <=> profiles[w].failedRuns > 0 \/ to = "failed",
         q.started => profiles[w].started \/ to = "running",
         IF to = "assigned" THEN q.assigned # {} /\ Ready(w) ELSE q.assigned = profiles[w].assigned
  PROVE  WorkloadsInv'
  <1> PICK h : h = history[w] \cup {to}
    OBVIOUS
  <1> PICK p : p = profiles[w]
    OBVIOUS
  <1>1. /\ w \in DOMAIN profiles /\ w \in Workloads /\ p \in WorkloadProfile /\ h \in SUBSET States
        /\ history' = [history EXCEPT ![w] = h] /\ p.state \in States
    BY DEF WorkloadsInv, WorkloadsType, Moves, WorkloadProfile
  <1>2. Consistent(p, history[w])
    BY <1>1 DEF WorkloadsInv
  <1>3. /\ to = "queued" => p.state \in {"validated", "queued"}
        /\ to = "assigned" => p.state \in {"queued", "assigned"}
        /\ to = "running" => p.state \in {"assigned", "paused", "running"}
        /\ to = "paused" => p.state \in {"running", "paused"}
        /\ to = "completed" => p.state \in {"running", "paused", "completed"}
        /\ to = "failed" => p.state \in {"running", "paused", "failed"}
        /\ to = "validated" => p.state \in {"created", "validated"}
    BY <1>1, AllowedMoves DEF Moves
  <1>4. to # "created" \/ p.state = "created"
    BY <1>1 DEF Moves, W!Allowed, W!Transitions, States
  <1>5. Consistent(q, h)
    BY <1>2, <1>3, <1>4 DEF Consistent, W!Working, States
  <1>6. q.state \in W!Working => q.assigned # {} /\ (p.state \in W!Working \/ Ready(w))
    BY <1>1, <1>3 DEF WorkloadsInv, W!Working
  <1>7. p.outcome = "completed" => q.outcome = "completed"
    BY <1>2, <1>3, <1>4 DEF Consistent, States
  <1> QED
    BY <1>1, <1>5, <1>6, <1>7, ProfileStep


\* What leaves the profiles and the history: advice and telemetry.
LEMMA AdviceKeeps ==
  ASSUME WorkloadsInv, profiles' = profiles, history' = history,
         advice' \in [Workloads -> {"none", "defer", "queue", "place-now"}],
         \A w \in Workloads : advice'[w] = "place-now" => advice[w] = "place-now" \/ (w \in DOMAIN profiles /\ Ready(w))
  PROVE  WorkloadsInv'
  <1>1. \A w : Ready(w)' <=> Ready(w)
    BY DEF Ready
  <1> QED
    BY <1>1 DEF WorkloadsInv, WorkloadsType

LEMMA PlacementIsReady ==
  ASSUME NEW w, NEW candidates
  PROVE  /\ W!Placement(w, candidates) \in {"none", "defer", "queue", "place-now"}
         /\ W!Placement(w, candidates) = "place-now" => Ready(w)
  BY ReadyIsComplete DEF W!Placement

LEMMA CreateKeeps ==
  ASSUME WorkloadsInv, NEW w \in Workloads, NEW deps \in SUBSET Workloads, NEW priority \in Priorities,
         W!CreateWorkload(w, deps, priority)
  PROVE  WorkloadsInv'
  <1> PICK q : q = W!NewProfile(deps, priority)
    OBVIOUS
  <1>1. /\ WorkloadsType /\ w \notin DOMAIN profiles /\ advice' = advice /\ history[w] = {}
        /\ profiles' = [v \in DOMAIN profiles \cup {w} |-> IF v = w THEN q ELSE profiles[v]]
        /\ history' = [history EXCEPT ![w] = @ \cup {"created"}]
    BY DEF W!CreateWorkload, W!Registered, W!Entered, WorkloadsInv
  <1>2. /\ q \in WorkloadProfile /\ q.state = "created" /\ q.completedRuns = 0 /\ q.failedRuns = 0 /\ ~q.started
        /\ q.outcome = "none"
    BY DEF W!NewProfile, WorkloadProfile, States
  <1>3. /\ DOMAIN profiles' = DOMAIN profiles \cup {w} /\ profiles'[w] = q /\ history'[w] = {"created"}
        /\ \A v \in DOMAIN profiles : profiles'[v] = profiles[v]
        /\ \A v \in Workloads \ {w} : history'[v] = history[v]
    BY <1>1 DEF WorkloadsType
  <1>4. WorkloadsType'
    <2>1. profiles' \in [DOMAIN profiles' -> WorkloadProfile] /\ DOMAIN profiles' \subseteq Workloads
      BY <1>1, <1>2, <1>3 DEF WorkloadsType
    <2>2. history' \in [Workloads -> SUBSET States]
      BY <1>1 DEF WorkloadsType, States
    <2> QED
      BY <1>1, <2>1, <2>2 DEF WorkloadsType
  <1>5. Consistent(q, {"created"})
    BY <1>2 DEF Consistent, W!Working
  <1>6. \A v \in DOMAIN profiles' : Consistent(profiles[v], history[v])'
    <2>1. Consistent(profiles[w], history[w])'
      BY <1>3, <1>5
    <2>2. ASSUME NEW v \in DOMAIN profiles PROVE Consistent(profiles[v], history[v])'
      BY <1>1, <1>3 DEF WorkloadsType, WorkloadsInv
    <2> QED
      BY <1>3, <2>1, <2>2
  <1>7. \A v \in DOMAIN profiles : Ready(v) => Ready(v)'
    BY <1>3, ReadyStays
  <1>8. \A v \in DOMAIN profiles' : profiles'[v].state \in W!Working => profiles'[v].assigned # {} /\ Ready(v)'
    BY <1>2, <1>3, <1>7 DEF WorkloadsInv, W!Working
  <1>9. \A v \in Workloads : /\ advice'[v] = "place-now" => v \in DOMAIN profiles' /\ Ready(v)'
                             /\ v \notin DOMAIN profiles' => history'[v] = {}
    BY <1>1, <1>3, <1>7 DEF WorkloadsInv
  <1> QED
    BY <1>4, <1>6, <1>8, <1>9 DEF WorkloadsInv, W!Working

\* The operations that only move a workload.
LEMMA PlainMoveKeeps ==
  ASSUME WorkloadsInv, NEW w, NEW to \in {"validated", "queued", "running", "paused", "archived"}, W!Move(w, to),
         profiles' = [profiles EXCEPT ![w] = W!Moved(@, to)], advice' = advice,
         to = "archived" => profiles[w].state # "archived"
  PROVE  WorkloadsInv'
  <1>1. to \in States /\ Moves(w, to)
    BY DEF W!Move, W!Entered, W!Registered, Moves, States
  <1>2. profiles[w] \in WorkloadProfile
    BY <1>1 DEF WorkloadsInv, WorkloadsType, Moves
  <1> DEFINE q == W!Moved(profiles[w], to)
  <1>3. /\ q \in WorkloadProfile /\ q.state = to /\ q.assigned = profiles[w].assigned
        /\ q.dependencies = profiles[w].dependencies
        /\ q.completedRuns = profiles[w].completedRuns /\ q.failedRuns = profiles[w].failedRuns
        /\ q.outcome = profiles[w].outcome /\ (q.started => profiles[w].started \/ to = "running")
    BY <1>1, <1>2, MovedProfile
  <1>4. profiles' = [profiles EXCEPT ![w] = q]
    BY <1>1 DEF Moves
  <1> HIDE DEF q
  <1>5. /\ q.outcome = (IF to \in {"completed", "failed"} THEN to ELSE profiles[w].outcome)
             \/ (to = "archived" /\ q.outcome = "cancelled" /\ profiles[w].state \notin {"completed", "failed", "archived"})
        /\ q.completedRuns > 0 <=> profiles[w].completedRuns > 0 \/ to = "completed"
        /\ q.failedRuns > 0 <=> profiles[w].failedRuns > 0 \/ to = "failed"
        /\ IF to = "assigned" THEN q.assigned # {} /\ Ready(w) ELSE q.assigned = profiles[w].assigned
    BY <1>3
  <1> QED
    BY <1>1, <1>3, <1>4, <1>5, MoveKeeps


LEMMA CancelKeeps ==
  ASSUME WorkloadsInv, NEW w, W!Cancel(w)
  PROVE  WorkloadsInv'
  <1> DEFINE moved == W!Moved(profiles[w], "archived")
             q     == [moved EXCEPT !.outcome = "cancelled"]
  <1>1. /\ "archived" \in States /\ Moves(w, "archived") /\ advice' = advice
        /\ profiles[w].state \notin {"completed", "failed", "archived"}
        /\ profiles' = [profiles EXCEPT ![w] = q]
    BY DEF W!Cancel, W!Move, W!Entered, W!Registered, Moves, States
  <1>2. profiles[w] \in WorkloadProfile
    BY <1>1 DEF WorkloadsInv, WorkloadsType, Moves
  <1>3. /\ moved \in WorkloadProfile /\ moved.state = "archived" /\ moved.assigned = profiles[w].assigned
        /\ moved.dependencies = profiles[w].dependencies
        /\ moved.completedRuns = profiles[w].completedRuns /\ moved.failedRuns = profiles[w].failedRuns
        /\ (moved.started => profiles[w].started)
    BY <1>1, <1>2, MovedProfile
  <1> HIDE DEF moved
  <1>4. /\ q \in WorkloadProfile /\ q.state = "archived" /\ q.assigned = profiles[w].assigned
        /\ q.dependencies = profiles[w].dependencies /\ q.outcome = "cancelled"
        /\ q.completedRuns = profiles[w].completedRuns /\ q.failedRuns = profiles[w].failedRuns
        /\ (q.started => profiles[w].started)
    BY <1>3 DEF WorkloadProfile
  <1> PICK to : to = "archived"
    OBVIOUS
  <1> HIDE DEF q
  <1>5. /\ q.outcome = (IF to \in {"completed", "failed"} THEN to ELSE profiles[w].outcome)
             \/ (to = "archived" /\ q.outcome = "cancelled" /\ profiles[w].state \notin {"completed", "failed", "archived"})
        /\ q.completedRuns > 0 <=> profiles[w].completedRuns > 0 \/ to = "completed"
        /\ q.failedRuns > 0 <=> profiles[w].failedRuns > 0 \/ to = "failed"
        /\ IF to = "assigned" THEN q.assigned # {} /\ Ready(w) ELSE q.assigned = profiles[w].assigned
        /\ to \in States /\ Moves(w, to) /\ q.state = to
        /\ (q.started => profiles[w].started \/ to = "running")
        /\ (to = "archived" => profiles[w].state # "archived")
    BY <1>1, <1>4
  <1> QED
    BY <1>1, <1>4, <1>5, MoveKeeps

LEMMA FinishKeeps ==
  ASSUME WorkloadsInv, NEW w, NEW to \in {"completed", "failed"}, W!Finish(w, to)
  PROVE  WorkloadsInv'
  <1> DEFINE moved == W!Moved(profiles[w], to)
             q     == W!Performed(moved, to)
  <1>1. /\ to \in States /\ Moves(w, to) /\ advice' = advice /\ profiles' = [profiles EXCEPT ![w] = q]
    BY DEF W!Finish, W!Move, W!Entered, W!Registered, Moves, States
  <1>2. profiles[w] \in WorkloadProfile
    BY <1>1 DEF WorkloadsInv, WorkloadsType, Moves
  <1>3. /\ moved \in WorkloadProfile /\ moved.state = to /\ moved.assigned = profiles[w].assigned
        /\ moved.dependencies = profiles[w].dependencies /\ moved.outcome = to
        /\ moved.completedRuns = profiles[w].completedRuns /\ moved.failedRuns = profiles[w].failedRuns
        /\ (moved.started => profiles[w].started \/ to = "running")
    BY <1>1, <1>2, MovedProfile
  <1> HIDE DEF moved
  <1>4. /\ q \in WorkloadProfile /\ q.state = to /\ q.assigned = profiles[w].assigned
        /\ q.dependencies = profiles[w].dependencies /\ q.outcome = to
        /\ q.completedRuns > 0 <=> moved.completedRuns > 0 \/ to = "completed"
        /\ q.failedRuns > 0 <=> moved.failedRuns > 0 \/ to = "failed"
        /\ q.started = moved.started
    BY <1>3, PerformedProfile
  <1> HIDE DEF q
  <1>5. /\ q.outcome = (IF to \in {"completed", "failed"} THEN to ELSE profiles[w].outcome)
             \/ (to = "archived" /\ q.outcome = "cancelled" /\ profiles[w].state \notin {"completed", "failed", "archived"})
        /\ q.completedRuns > 0 <=> profiles[w].completedRuns > 0 \/ to = "completed"
        /\ q.failedRuns > 0 <=> profiles[w].failedRuns > 0 \/ to = "failed"
        /\ IF to = "assigned" THEN q.assigned # {} /\ Ready(w) ELSE q.assigned = profiles[w].assigned
        /\ (q.started => profiles[w].started \/ to = "running")
        /\ (to = "archived" => profiles[w].state # "archived")
    BY <1>3, <1>4
  <1> QED
    BY <1>1, <1>4, <1>5, MoveKeeps

LEMMA AssignKeeps ==
  ASSUME WorkloadsInv, NEW w, NEW resources \in SUBSET WorkResources,
         W!MarkAssigned(w, resources) \/ W!MarkAssignedThrows(w, resources)
  PROVE  WorkloadsInv'
  <1> DEFINE given == [profiles[w] EXCEPT !.assigned = resources]
  <1>1. w \in DOMAIN profiles /\ resources # {} /\ Ready(w) /\ advice' = advice
    BY ReadyIsComplete DEF W!MarkAssigned, W!MarkAssignedThrows, W!Assignable, W!Registered
  <1>2. profiles[w] \in WorkloadProfile /\ w \in Workloads /\ history[w] \in SUBSET States
        /\ Consistent(profiles[w], history[w])
    BY <1>1 DEF WorkloadsInv, WorkloadsType
  <1>3. /\ given \in WorkloadProfile /\ given.assigned = resources /\ given.state = profiles[w].state
        /\ given.dependencies = profiles[w].dependencies /\ given.outcome = profiles[w].outcome
        /\ given.completedRuns = profiles[w].completedRuns /\ given.failedRuns = profiles[w].failedRuns
        /\ given.started = profiles[w].started
    BY <1>2 DEF WorkloadProfile
  <1>4. CASE W!MarkAssigned(w, resources)
    <2> DEFINE q == W!Moved(given, "assigned")
    <2>1. profiles' = [profiles EXCEPT ![w] = q] /\ Moves(w, "assigned") /\ "assigned" \in States
      BY <1>1, <1>4 DEF W!MarkAssigned, W!Move, W!Entered, W!Registered, Moves, States
    <2> HIDE DEF given
    <2>2. /\ q \in WorkloadProfile /\ q.state = "assigned" /\ q.assigned = resources
          /\ q.dependencies = given.dependencies
          /\ q.completedRuns = given.completedRuns /\ q.failedRuns = given.failedRuns
          /\ q.outcome = given.outcome /\ (q.started => given.started)
      BY <1>3, <2>1, MovedProfile
    <2> HIDE DEF q
    <2> PICK to : to = "assigned"
      OBVIOUS
    <2>3. /\ q.outcome = (IF to \in {"completed", "failed"} THEN to ELSE profiles[w].outcome)
               \/ (to = "archived" /\ q.outcome = "cancelled" /\ profiles[w].state \notin {"completed", "failed", "archived"})
          /\ q.completedRuns > 0 <=> profiles[w].completedRuns > 0 \/ to = "completed"
          /\ q.failedRuns > 0 <=> profiles[w].failedRuns > 0 \/ to = "failed"
          /\ IF to = "assigned" THEN q.assigned # {} /\ Ready(w) ELSE q.assigned = profiles[w].assigned
          /\ to \in States /\ Moves(w, to) /\ q.state = to /\ q.dependencies = profiles[w].dependencies
          /\ (q.started => profiles[w].started \/ to = "running")
          /\ (to = "archived" => profiles[w].state # "archived")
      BY <1>1, <1>3, <2>1, <2>2
    <2> QED
      BY <1>1, <2>1, <2>2, <2>3, MoveKeeps
  <1>5. CASE W!MarkAssignedThrows(w, resources)
    <2>1. profiles' = [profiles EXCEPT ![w] = given] /\ history' = [history EXCEPT ![w] = history[w]]
      BY <1>1, <1>2, <1>5 DEF W!MarkAssignedThrows, WorkloadsInv, WorkloadsType
    <2>2. Consistent(given, history[w])
      BY <1>2, <1>3 DEF Consistent
    <2> HIDE DEF given
    <2> QED
      BY <1>1, <1>2, <1>3, <2>1, <2>2, ProfileStep
  <1> QED
    BY <1>4, <1>5


LEMMA PriorityKeeps ==
  ASSUME WorkloadsInv, NEW w, NEW priority \in Priorities, W!SetPriority(w, priority)
  PROVE  WorkloadsInv'
  <1> DEFINE q == [profiles[w] EXCEPT !.priority = priority]
  <1>1. w \in DOMAIN profiles /\ advice' = advice
    BY DEF W!SetPriority, W!Registered
  <1>2. profiles[w] \in WorkloadProfile /\ w \in Workloads /\ history[w] \in SUBSET States
        /\ Consistent(profiles[w], history[w])
    BY <1>1 DEF WorkloadsInv, WorkloadsType
  <1>3. /\ q \in WorkloadProfile /\ q.assigned = profiles[w].assigned /\ q.state = profiles[w].state
        /\ q.dependencies = profiles[w].dependencies /\ q.outcome = profiles[w].outcome
        /\ q.completedRuns = profiles[w].completedRuns /\ q.failedRuns = profiles[w].failedRuns
        /\ q.started = profiles[w].started
    BY <1>2 DEF WorkloadProfile
  <1>4. profiles' = [profiles EXCEPT ![w] = q] /\ history' = [history EXCEPT ![w] = history[w]]
    BY <1>1, <1>2 DEF W!SetPriority, WorkloadsInv, WorkloadsType
  <1> HIDE DEF q
  <1>5. Consistent(q, history[w])
    BY <1>2, <1>3 DEF Consistent
  <1>6. q.state \in W!Working => q.assigned # {} /\ (profiles[w].state \in W!Working \/ Ready(w))
    BY <1>1, <1>3 DEF WorkloadsInv
  <1> QED
    BY <1>1, <1>2, <1>3, <1>4, <1>5, <1>6, ProfileStep

LEMMA AdviseKeeps ==
  ASSUME WorkloadsInv,
         \/ \E w \in Workloads, r \in SUBSET WorkResources : W!RecommendPlacement(w, r)
         \/ \E candidates \in [Workloads -> SUBSET WorkResources] : W!GetBalanceRecommendations(candidates)
  PROVE  WorkloadsInv'
  <1>1. ASSUME NEW w \in Workloads, NEW r \in SUBSET WorkResources, W!RecommendPlacement(w, r)
        PROVE  WorkloadsInv'
    <2> PICK placement : placement = W!Placement(w, r)
      OBVIOUS
    <2>1. /\ placement \in {"none", "defer", "queue", "place-now"}
          /\ placement = "place-now" => Ready(w)
      BY PlacementIsReady
    <2>2. /\ profiles' = profiles /\ history' = history /\ w \in DOMAIN profiles
          /\ advice' = [advice EXCEPT ![w] = placement]
      BY <1>1 DEF W!RecommendPlacement, W!Registered
    <2>3. /\ advice' \in [Workloads -> {"none", "defer", "queue", "place-now"}]
          /\ \A v \in Workloads : advice'[v] = "place-now" => advice[v] = "place-now" \/ (v \in DOMAIN profiles /\ Ready(v))
      BY <2>1, <2>2 DEF WorkloadsInv, WorkloadsType
    <2> QED
      BY <2>2, <2>3, AdviceKeeps
  <1>2. ASSUME NEW candidates \in [Workloads -> SUBSET WorkResources], W!GetBalanceRecommendations(candidates)
        PROVE  WorkloadsInv'
    <2>1. \A w \in Workloads : /\ W!Placement(w, candidates[w]) \in {"none", "defer", "queue", "place-now"}
                               /\ W!Placement(w, candidates[w]) = "place-now" => Ready(w)
      BY PlacementIsReady
    <2>2. /\ profiles' = profiles /\ history' = history
          /\ advice' = [w \in Workloads |-> IF w \in DOMAIN profiles /\ profiles[w].state = "queued"
                                            THEN W!Placement(w, candidates[w]) ELSE advice[w]]
      BY <1>2 DEF W!GetBalanceRecommendations, W!Registered
    <2>3. /\ advice' \in [Workloads -> {"none", "defer", "queue", "place-now"}]
          /\ \A v \in Workloads : advice'[v] = "place-now" => advice[v] = "place-now" \/ (v \in DOMAIN profiles /\ Ready(v))
      BY <2>1, <2>2 DEF WorkloadsInv, WorkloadsType
    <2> QED
      BY <2>2, <2>3, AdviceKeeps
  <1> QED
    BY <1>1, <1>2

LEMMA WorkloadsStep == WorkloadsInv /\ (W!Next \/ UNCHANGED workloadVars) => WorkloadsInv'
  <1> SUFFICES ASSUME WorkloadsInv, W!Next \/ UNCHANGED workloadVars PROVE WorkloadsInv'
    OBVIOUS
  <1>1. ASSUME NEW w \in Workloads, W!Validate(w) \/ W!Queue(w) \/ W!Start(w) \/ W!Pause(w) \/ W!Archive(w)
        PROVE  WorkloadsInv'
    <2>1. \E to \in {"validated", "queued", "running", "paused", "archived"} :
            /\ W!Move(w, to) /\ profiles' = [profiles EXCEPT ![w] = W!Moved(@, to)] /\ advice' = advice
            /\ to = "archived" => profiles[w].state # "archived"
      BY <1>1 DEF W!Validate, W!Queue, W!Start, W!Pause, W!Archive
    <2> QED
      BY <2>1, PlainMoveKeeps
  <1>2. ASSUME NEW w \in Workloads, W!Complete(w) \/ W!Fail(w)
        PROVE  WorkloadsInv'
    BY <1>2, FinishKeeps DEF W!Complete, W!Fail
  <1>3. ASSUME NEW w \in Workloads, NEW r \in SUBSET WorkResources, W!MarkAssigned(w, r) \/ W!MarkAssignedThrows(w, r)
        PROVE  WorkloadsInv'
    BY <1>3, AssignKeeps
  <1>4. ASSUME NEW w \in Workloads, NEW s \in Samples, W!RecordTelemetry(w, s)
        PROVE  WorkloadsInv'
    <2>1. /\ profiles' = profiles /\ history' = history /\ advice' = advice
          /\ advice \in [Workloads -> {"none", "defer", "queue", "place-now"}]
      BY <1>4 DEF W!RecordTelemetry, WorkloadsInv, WorkloadsType
    <2> QED
      BY <2>1, AdviceKeeps
  <1>5. CASE UNCHANGED workloadVars
    <2>1. /\ profiles' = profiles /\ history' = history /\ advice' = advice
          /\ advice \in [Workloads -> {"none", "defer", "queue", "place-now"}]
      BY <1>5 DEF workloadVars, WorkloadsInv, WorkloadsType
    <2> QED
      BY <2>1, AdviceKeeps
  <1> QED
    BY <1>1, <1>2, <1>3, <1>4, <1>5, CreateKeeps, CancelKeeps, PriorityKeeps, AdviseKeeps DEF W!Next

(* WorkIsReady (core/workload_authority: assertDependenciesCompleted(), recordTerminalPerformance(),
   recommendPlacement() and the forecast): for any workloads and dependencies, cyclic ones too, work
   that left the queue has resources and every dependency of it has completed, it has one outcome,
   and the advice and the forecasts given for it hold. *)
THEOREM WorkStaysReady == OperationsSpec => []WorkIsReady
  <1>1. OperationsInit => WorkloadsInv
    BY WorkloadsStart DEF OperationsInit
  <1>2. WorkloadsInv /\ [OperationsNext]_operationsVars => WorkloadsInv'
    <2>1. [OperationsNext]_operationsVars => W!Next \/ UNCHANGED workloadVars
      BY DEF OperationsNext, operationsVars
    <2> QED
      BY <2>1, WorkloadsStep
  <1>3. WorkloadsInv => WorkIsReady
    BY WorkloadsTell DEF WorkIsReady
  <1> QED
    BY <1>1, <1>2, <1>3, PTL DEF OperationsSpec


----------------------------------------------------------------------------
(* Plugins.  Only a decision over seven tests makes a record trusted, and a    *)
(* record that is being tested changes by its pipeline alone.                  *)

Pipeline == [of : Certifications, record : G!PluginCertificationRecord, recertifies : BOOLEAN]
CertificationType ==
  /\ certifications \in [Certifications -> G!PluginCertificationRecord \cup {Nothing}]
  /\ pipelines \subseteq Pipeline
  /\ \A t \in pipelines : G!Testing(t) => t.record.tests \in 0..6 /\ certifications[t.of] # Nothing
CertificationInv == CertificationType /\ G!TrustIsEarned /\ G!PipelineOwned

LEMMA CertificationConstants ==
  /\ Nothing \notin G!PluginCertificationRecord
  /\ Observations \subseteq [passed : BOOLEAN, degraded : BOOLEAN, score : 0..100, blocked : BOOLEAN, critical : BOOLEAN]
  BY OperationsAssumption DEF G!MiningPluginCertificationAssumption

LEMMA SevenTests == Len(G!PipelineStages) = 7
  BY DEF G!PipelineStages

LEMMA CertificationStarts == G!CertificationInit => CertificationInv
  <1> SUFFICES ASSUME G!CertificationInit PROVE CertificationInv
    OBVIOUS
  <1>1. certifications = [c \in Certifications |-> Nothing] /\ pipelines = {}
    BY DEF G!CertificationInit
  <1>2. CertificationType /\ G!PipelineOwned
    BY <1>1 DEF CertificationType, G!PipelineOwned
  <1>3. G!TrustIsEarned
    BY <1>1 DEF G!TrustIsEarned, G!Exists
  <1> QED
    BY <1>2, <1>3 DEF CertificationInv

\* What a level that is assigned promises.
Earned(record) ==
  /\ record.tests = Len(G!PipelineStages)
  /\ \A o \in record.evidence : /\ o.passed /\ ~o.blocked /\ o.score >= G!Policies[record.level].minimum
                                /\ G!Policies[record.level].undegraded => ~o.degraded
  /\ G!Policies[record.level].critical => \E o \in record.evidence : o.critical

LEMMA LevelIsEarned ==
  ASSUME NEW record, record.evidence \in SUBSET Observations, record.level # Nothing,
         NEW tests, NEW evidence, tests = record.tests, evidence = record.evidence,
         record.level = G!AssignedLevel(tests, evidence)
  PROVE  record.level \in G!CertificationLevels /\ Earned(record)
  <1> PICK level : level = record.level
    OBVIOUS
  <1>1. /\ tests = Len(G!PipelineStages)
        /\ \A o \in evidence : o.passed /\ ~o.blocked /\ o.score \in 0..100
    BY CertificationConstants DEF G!AssignedLevel
  <1>2. /\ level \in {"InstitutionalCritical", "Production", "Qualified", "Development", "Experimental"}
        /\ level = "InstitutionalCritical" =>
             (\A o \in evidence : o.score >= 95 /\ ~o.degraded) /\ \E o \in evidence : o.critical
        /\ level = "Production" => \A o \in evidence : o.score >= 85 /\ ~o.degraded
        /\ level = "Qualified" => \A o \in evidence : o.score >= 75
        /\ level = "Development" => \A o \in evidence : o.score >= 60
    BY DEF G!AssignedLevel
  <1>3. level \in G!CertificationLevels
    BY <1>2 DEF G!CertificationLevels
  <1>4. /\ level = "InstitutionalCritical" => G!Policies[level].minimum = 95
        /\ level = "Production" => G!Policies[level].minimum = 85 /\ ~G!Policies[level].critical
        /\ level = "Qualified" => /\ G!Policies[level].minimum = 75 /\ ~G!Policies[level].critical
                                  /\ ~G!Policies[level].undegraded
        /\ level = "Development" => /\ G!Policies[level].minimum = 60 /\ ~G!Policies[level].critical
                                    /\ ~G!Policies[level].undegraded
        /\ level = "Experimental" => /\ G!Policies[level].minimum = 0 /\ ~G!Policies[level].critical
                                     /\ ~G!Policies[level].undegraded
    BY <1>3 DEF G!Policies
  <1>5. ASSUME NEW o \in evidence
        PROVE  o.score >= G!Policies[level].minimum /\ (G!Policies[level].undegraded => ~o.degraded)
    <2>0. o.score \in 0..100
      BY <1>1
    <2>1. /\ level = "InstitutionalCritical" => o.score >= 95 /\ ~o.degraded
          /\ level = "Production" => o.score >= 85 /\ ~o.degraded
          /\ level = "Qualified" => o.score >= 75
          /\ level = "Development" => o.score >= 60
      BY <1>2
    <2>3. o.score >= G!Policies[level].minimum
      BY <1>2, <1>4, <2>0, <2>1
    <2>4. G!Policies[level].undegraded => ~o.degraded
      BY <1>2, <1>4, <2>1
    <2> QED
      BY <2>3, <2>4
  <1>6. G!Policies[level].critical => \E o \in evidence : o.critical
    BY <1>2, <1>4
  <1> QED
    BY <1>1, <1>3, <1>5, <1>6 DEF Earned


\* One record is stored, whatever happens to its pipelines.
LEMMA UpsertKeeps ==
  ASSUME CertificationInv, NEW c \in Certifications, NEW q \in G!PluginCertificationRecord,
         certifications' = [certifications EXCEPT ![c] = q], pipelines' \subseteq Pipeline,
         G!Trusted(q) => Earned(q),
         \A t \in pipelines' : G!Testing(t) =>
           IF t.of = c THEN /\ q.stage = "Validated" /\ q.plugin = t.record.plugin /\ q.attempts = t.record.attempts
                            /\ t.record.tests \in 0..6
           ELSE t \in pipelines,
         \A t, u \in pipelines' : t.of = c /\ u.of = c /\ G!Testing(t) /\ G!Testing(u) => t = u
  PROVE  CertificationInv'
  <1>1. /\ CertificationType /\ certifications'[c] = q /\ q # Nothing
        /\ \A d \in Certifications \ {c} : certifications'[d] = certifications[d]
    BY CertificationConstants DEF CertificationInv, CertificationType
  <1>2. CertificationType'
    <2>1. certifications' \in [Certifications -> G!PluginCertificationRecord \cup {Nothing}]
      BY DEF CertificationInv, CertificationType
    <2>2. ASSUME NEW t \in pipelines', G!Testing(t) PROVE t.record.tests \in 0..6 /\ certifications'[t.of] # Nothing
      <3>1. t.of \in Certifications
        BY DEF Pipeline
      <3> QED
        BY <1>1, <2>2, <3>1 DEF CertificationType
    <2> QED
      BY <2>1, <2>2 DEF CertificationType
  <1>3. G!TrustIsEarned'
    <2>1. ASSUME NEW d \in Certifications, certifications'[d] # Nothing, G!Trusted(certifications[d])'
          PROVE  Earned(certifications[d])'
      <3>1. CASE d = c
        BY <1>1, <2>1, <3>1
      <3>2. CASE d # c
        <4>1. certifications[d] # Nothing /\ G!Trusted(certifications[d])
          BY <1>1, <2>1, <3>2
        <4>2. Earned(certifications[d])
          BY <4>1 DEF CertificationInv, G!TrustIsEarned, G!Exists, Earned
        <4> QED
          BY <1>1, <3>2, <4>2
      <3> QED
        BY <3>1, <3>2
    <2> QED
      BY <2>1 DEF G!TrustIsEarned, G!Exists, Earned
  <1>4. G!PipelineOwned'
    <2>1. ASSUME NEW t \in pipelines', NEW u \in pipelines', t.of = u.of, G!Testing(t), G!Testing(u) PROVE t = u
      <3>1. CASE t.of = c
        BY <2>1, <3>1
      <3>2. CASE t.of # c
        BY <2>1, <3>2 DEF CertificationInv, G!PipelineOwned
      <3> QED
        BY <3>1, <3>2
    <2>2. ASSUME NEW t \in pipelines', G!Testing(t)
          PROVE  /\ certifications'[t.of].stage = "Validated" /\ certifications'[t.of].plugin = t.record.plugin
                 /\ certifications'[t.of].attempts = t.record.attempts
      <3>1. CASE t.of = c
        BY <1>1, <2>2, <3>1
      <3>2. CASE t.of # c
        <4>1. t.of \in Certifications /\ t \in pipelines
          BY <2>2, <3>2 DEF Pipeline
        <4> QED
          BY <1>1, <2>2, <3>2, <4>1 DEF CertificationInv, G!PipelineOwned
      <3> QED
        BY <3>1, <3>2
    <2> QED
      BY <2>1, <2>2 DEF G!PipelineOwned
  <1> QED
    BY <1>2, <1>3, <1>4 DEF CertificationInv

\* A record that no pipeline tests is stored, and no pipeline begins.
LEMMA StoreKeeps ==
  ASSUME CertificationInv, NEW c \in Certifications, NEW q \in G!PluginCertificationRecord,
         certifications' = [certifications EXCEPT ![c] = q], pipelines' \subseteq pipelines,
         certifications[c] = Nothing \/ certifications[c].stage # "Validated", G!Trusted(q) => Earned(q)
  PROVE  CertificationInv'
  <1>1. \A t \in pipelines : G!Testing(t) => t.of # c
    BY DEF CertificationInv, CertificationType, G!PipelineOwned
  <1>2. /\ \A t \in pipelines' : G!Testing(t) =>
             IF t.of = c THEN /\ q.stage = "Validated" /\ q.plugin = t.record.plugin /\ q.attempts = t.record.attempts
                              /\ t.record.tests \in 0..6
             ELSE t \in pipelines
        /\ \A t, u \in pipelines' : t.of = c /\ u.of = c /\ G!Testing(t) /\ G!Testing(u) => t = u
    BY <1>1
  <1>3. pipelines' \subseteq Pipeline
    BY DEF CertificationInv, CertificationType
  <1> QED
    BY <1>2, <1>3, UpsertKeeps

\* Pipelines that end without a result.
LEMMA EndKeeps ==
  ASSUME CertificationInv, certifications' = certifications, pipelines' \subseteq pipelines
  PROVE  CertificationInv'
  <1>1. CertificationType'
    BY DEF CertificationInv, CertificationType
  <1>2. G!TrustIsEarned' /\ G!PipelineOwned'
    BY DEF CertificationInv, G!TrustIsEarned, G!PipelineOwned, G!Exists
  <1> QED
    BY <1>1, <1>2 DEF CertificationInv


LEMMA SubmitKeeps ==
  ASSUME CertificationInv, NEW c \in Certifications, NEW p \in Plugins, NEW shown, G!Submit(c, p, shown)
  PROVE  CertificationInv'
  <1> DEFINE q == [plugin |-> p, stage |-> "Submitted", level |-> Nothing, tests |-> 0, evidence |-> {}, attempts |-> 0]
  <1>1. q \in G!PluginCertificationRecord /\ ~G!Trusted(q)
    BY DEF G!PluginCertificationRecord, G!CertificationLifecycleStages, G!Trusted
  <1>2. /\ certifications[c] = Nothing /\ certifications' = [certifications EXCEPT ![c] = q]
        /\ pipelines' \subseteq pipelines
    BY DEF G!Submit, G!Exists, G!Upsert
  <1> HIDE DEF q
  <1> QED
    BY <1>1, <1>2, StoreKeeps

LEMMA WithdrawKeeps ==
  ASSUME CertificationInv, NEW c \in Certifications, NEW stage \in {"Suspended", "Revoked"}, G!Withdraw(c, stage)
  PROVE  CertificationInv'
  <1> DEFINE q == [certifications[c] EXCEPT !.stage = stage]
  <1>1. /\ certifications[c] \in G!PluginCertificationRecord /\ certifications[c].stage # "Validated"
        /\ certifications' = [certifications EXCEPT ![c] = q] /\ pipelines' \subseteq pipelines
    <2>1. <<"Validated", stage>> \notin G!CertificationLifecycle
      BY DEF G!CertificationLifecycle
    <2> QED
      BY <2>1 DEF G!Withdraw, G!Exists, G!Upsert, CertificationInv, CertificationType
  <1>2. q \in G!PluginCertificationRecord /\ q.stage = stage
    BY <1>1 DEF G!PluginCertificationRecord, G!CertificationLifecycleStages
  <1> HIDE DEF q
  <1>3. ~G!Trusted(q)
    BY <1>2 DEF G!Trusted
  <1> QED
    BY <1>1, <1>2, <1>3, StoreKeeps

LEMMA CertifiedKeeps ==
  ASSUME CertificationInv, NEW c \in Certifications, G!At(c, "EvidenceCollected"), G!Certified(c),
         pipelines' \subseteq pipelines
  PROVE  CertificationInv'
  <1> PICK record : record = certifications[c]
    OBVIOUS
  <1> PICK level : level = G!AssignedLevel(record.tests, record.evidence)
    OBVIOUS
  <1>1. /\ record \in G!PluginCertificationRecord /\ record.stage = "EvidenceCollected"
    BY DEF G!At, G!Exists, CertificationInv, CertificationType
  <1>2. CASE level = Nothing
    <2> DEFINE q == [record EXCEPT !.stage = "Failed"]
    <2>1. certifications' = [certifications EXCEPT ![c] = q]
      BY <1>2 DEF G!Certified, G!Upsert
    <2>2. q \in G!PluginCertificationRecord /\ ~G!Trusted(q)
      BY <1>1 DEF G!PluginCertificationRecord, G!CertificationLifecycleStages, G!Trusted
    <2> HIDE DEF q
    <2> QED
      BY <1>1, <2>1, <2>2, StoreKeeps
  <1>3. CASE level # Nothing
    <2> DEFINE q == [record EXCEPT !.stage = "Active", !.level = level]
    <2>1. certifications' = [certifications EXCEPT ![c] = q]
      BY <1>3 DEF G!Certified, G!Upsert
    <2>2. level \in G!CertificationLevels
      BY <1>3 DEF G!AssignedLevel, G!CertificationLevels
    <2>3. /\ q \in G!PluginCertificationRecord /\ q.level = level /\ q.tests = record.tests
          /\ q.evidence = record.evidence /\ q.evidence \in SUBSET Observations
      BY <1>1, <2>2 DEF G!PluginCertificationRecord, G!CertificationLifecycleStages
    <2> HIDE DEF q
    <2>4. Earned(q)
      BY <1>3, <2>3, LevelIsEarned
    <2> QED
      BY <1>1, <2>1, <2>3, <2>4, StoreKeeps
  <1> QED
    BY <1>2, <1>3

LEMMA TestsKeep ==
  ASSUME CertificationInv, NEW c \in Certifications, NEW record \in G!PluginCertificationRecord,
         NEW recertifies \in BOOLEAN, certifications[c].stage \in {"Submitted", "Revoked", "Suspended"},
         G!Tests(c, record, recertifies)
  PROVE  CertificationInv'
  <1> DEFINE q    == [record EXCEPT !.stage = "Validated"]
             copy == [record EXCEPT !.stage = "Validated", !.tests = 0, !.evidence = {}]
             new  == [of |-> c, record |-> copy, recertifies |-> recertifies]
  <1>1. /\ certifications' = [certifications EXCEPT ![c] = q] /\ pipelines' = pipelines \cup {new}
    BY DEF G!Tests, G!Upsert
  <1>2. /\ q \in G!PluginCertificationRecord /\ q.stage = "Validated" /\ q.plugin = record.plugin
        /\ q.attempts = record.attempts
    BY DEF G!PluginCertificationRecord, G!CertificationLifecycleStages
  <1>3. /\ copy \in G!PluginCertificationRecord /\ copy.stage = "Validated" /\ copy.plugin = record.plugin
        /\ copy.attempts = record.attempts /\ copy.tests = 0
    <2>1. 0 \in 0..7 /\ {} \in SUBSET Observations /\ "Validated" \in G!CertificationLifecycleStages
      BY DEF G!CertificationLifecycleStages
    <2> QED
      BY <2>1 DEF G!PluginCertificationRecord
  <1> HIDE DEF q, copy
  <1>4. new \in Pipeline /\ new.of = c /\ new.record = copy
    BY <1>3 DEF Pipeline
  <1>5. \A t \in pipelines : G!Testing(t) => t.of # c
    BY DEF CertificationInv, CertificationType, G!PipelineOwned
  <1> HIDE DEF new
  <1>6. \A t \in pipelines' : G!Testing(t) =>
           IF t.of = c THEN /\ q.stage = "Validated" /\ q.plugin = t.record.plugin /\ q.attempts = t.record.attempts
                            /\ t.record.tests \in 0..6
           ELSE t \in pipelines
    BY <1>1, <1>2, <1>3, <1>4, <1>5
  <1>7. \A t, u \in pipelines' : t.of = c /\ u.of = c /\ G!Testing(t) /\ G!Testing(u) => t = u
    BY <1>1, <1>5
  <1>8. pipelines' \subseteq Pipeline /\ ~G!Trusted(q)
    BY <1>1, <1>2, <1>4 DEF CertificationInv, CertificationType, G!Trusted
  <1> QED
    BY <1>1, <1>2, <1>6, <1>7, <1>8, UpsertKeeps


\* A test is observed: the copy moves on, or is stored.
LEMMA ObservedKeeps ==
  ASSUME CertificationInv, NEW t \in pipelines, G!Testing(t), NEW observation \in Observations,
         G!Observed(t, observation)
  PROVE  CertificationInv'
  <1> PICK stage : stage = IF ~observation.passed THEN IF t.record.tests = 0 THEN "Rejected" ELSE "Failed"
                           ELSE IF t.record.tests + 1 = Len(G!PipelineStages) THEN "EvidenceCollected" ELSE "Testing"
    OBVIOUS
  <1> PICK tests : tests = t.record.tests + 1
    OBVIOUS
  <1> PICK evidence : evidence = t.record.evidence \cup {observation}
    OBVIOUS
  <1> DEFINE q == [t.record EXCEPT !.tests = tests, !.evidence = evidence, !.stage = stage]
  <1>1. /\ t \in Pipeline /\ t.of \in Certifications /\ t.record \in G!PluginCertificationRecord
        /\ t.record.tests \in 0..6
    BY DEF CertificationInv, CertificationType, Pipeline
  <1>2. /\ tests \in 1..7 /\ evidence \in SUBSET Observations
        /\ stage \in {"Rejected", "Failed", "EvidenceCollected", "Testing"}
        /\ stage = "Testing" => tests # 7
    BY <1>1, SevenTests DEF G!PluginCertificationRecord
  <1>3. /\ q \in G!PluginCertificationRecord /\ q.stage = stage /\ q.tests = tests /\ q.plugin = t.record.plugin
        /\ q.attempts = t.record.attempts
    <2>1. tests \in 0..7 /\ stage \in G!CertificationLifecycleStages
      BY <1>2 DEF G!CertificationLifecycleStages
    <2> QED
      BY <1>1, <1>2, <2>1 DEF G!PluginCertificationRecord
  <1>4. IF stage = "Testing"
        THEN pipelines' = (pipelines \ {t}) \cup {[t EXCEPT !.record = q]} /\ certifications' = certifications
        ELSE /\ certifications' = [certifications EXCEPT ![t.of] = q]
             /\ pipelines' = (pipelines \ {t}) \cup
                  (IF t.recertifies /\ stage = "EvidenceCollected" THEN {[t EXCEPT !.record = q]} ELSE {})
    <2>1. q = [t.record EXCEPT !.tests = @ + 1, !.evidence = @ \cup {observation},
                               !.stage = IF ~observation.passed THEN IF t.record.tests = 0 THEN "Rejected" ELSE "Failed"
                                         ELSE IF t.record.tests + 1 = Len(G!PipelineStages) THEN "EvidenceCollected"
                                         ELSE "Testing"]
      OBVIOUS
    <2> QED
      BY <1>3, <2>1 DEF G!Observed, G!Upsert
  <1> HIDE DEF q
  <1> DEFINE u == [t EXCEPT !.record = q]
  <1>5. u \in Pipeline /\ u.of = t.of /\ u.record = q
    BY <1>1, <1>3 DEF Pipeline
  <1> HIDE DEF u
  <1>6. /\ \A v \in pipelines \ {t} : G!Testing(v) => v.of # t.of
        /\ certifications[t.of].stage = "Validated" /\ certifications[t.of].plugin = t.record.plugin
        /\ certifications[t.of].attempts = t.record.attempts /\ certifications[t.of] # Nothing
    BY DEF CertificationInv, CertificationType, G!PipelineOwned
  <1>7. CASE stage = "Testing"
    <2>1. pipelines' = (pipelines \ {t}) \cup {u} /\ certifications' = certifications
      BY <1>4, <1>7 DEF u
    <2>2. q.tests \in 0..6 /\ G!Testing(u)
      BY <1>2, <1>3, <1>5, <1>7 DEF G!Testing
    <2>3. CertificationType'
      BY <1>5, <1>6, <2>1, <2>2 DEF CertificationInv, CertificationType
    <2>4. G!TrustIsEarned'
      BY <2>1 DEF CertificationInv, G!TrustIsEarned, G!Exists
    <2>5. G!PipelineOwned'
      <3>1. \A v, w \in pipelines' : v.of = w.of /\ G!Testing(v) /\ G!Testing(w) => v = w
        BY <1>5, <1>6, <2>1 DEF CertificationInv, G!PipelineOwned
      <3>2. \A v \in pipelines' : G!Testing(v) =>
              /\ certifications'[v.of].stage = "Validated" /\ certifications'[v.of].plugin = v.record.plugin
              /\ certifications'[v.of].attempts = v.record.attempts
        BY <1>3, <1>5, <1>6, <2>1 DEF CertificationInv, G!PipelineOwned
      <3> QED
        BY <3>1, <3>2 DEF G!PipelineOwned
    <2> QED
      BY <2>3, <2>4, <2>5 DEF CertificationInv
  <1>8. CASE stage # "Testing"
    <2>1. /\ certifications' = [certifications EXCEPT ![t.of] = q]
          /\ pipelines' \subseteq (pipelines \ {t}) \cup (IF stage = "EvidenceCollected" THEN {u} ELSE {})
      BY <1>4, <1>8 DEF u
    <2>2. ~G!Trusted(q) /\ (stage = "EvidenceCollected" => ~G!Testing(u))
      BY <1>2, <1>3, <1>5 DEF G!Trusted, G!Testing
    <2>3. \A v \in pipelines' : G!Testing(v) => v.of # t.of /\ v \in pipelines
      BY <1>6, <2>1, <2>2
    <2>4. /\ \A v \in pipelines' : G!Testing(v) =>
               IF v.of = t.of THEN /\ q.stage = "Validated" /\ q.plugin = v.record.plugin
                                   /\ q.attempts = v.record.attempts /\ v.record.tests \in 0..6
               ELSE v \in pipelines
          /\ \A v, w \in pipelines' : v.of = t.of /\ w.of = t.of /\ G!Testing(v) /\ G!Testing(w) => v = w
      BY <2>3
    <2>5. pipelines' \subseteq Pipeline
      BY <1>5, <2>1 DEF CertificationInv, CertificationType
    <2> QED
      BY <1>1, <1>3, <2>1, <2>2, <2>4, <2>5, UpsertKeeps
  <1> QED
    BY <1>7, <1>8

LEMMA CertificationStep == CertificationInv /\ (G!CertificationNext \/ UNCHANGED G!certificationVars) => CertificationInv'
  <1> SUFFICES ASSUME CertificationInv, G!CertificationNext \/ UNCHANGED G!certificationVars PROVE CertificationInv'
    OBVIOUS
  <1>1. ASSUME NEW c \in Certifications, G!Certify(c)
        PROVE  CertificationInv'
    BY <1>1, CertifiedKeeps DEF G!Certify
  <1>2. ASSUME NEW c \in Certifications, NEW shown \in BOOLEAN, G!RunPipeline(c, shown)
        PROVE  CertificationInv'
    <2>1. /\ certifications[c] \in G!PluginCertificationRecord /\ certifications[c].stage = "Submitted"
          /\ G!Tests(c, certifications[c], FALSE)
      BY <1>2 DEF G!RunPipeline, G!At, G!Exists, CertificationInv, CertificationType
    <2> QED
      BY <2>1, TestsKeep
  <1>3. ASSUME NEW c \in Certifications, NEW shown \in BOOLEAN, G!Recertify(c, shown)
        PROVE  CertificationInv'
    <2> DEFINE record == [certifications[c] EXCEPT !.attempts = @ + 1]
    <2>1. /\ certifications[c] \in G!PluginCertificationRecord /\ certifications[c].stage \in {"Revoked", "Suspended"}
          /\ G!Tests(c, record, TRUE)
      BY <1>3 DEF G!Recertify, G!At, G!Exists, CertificationInv, CertificationType
    <2>2. record \in G!PluginCertificationRecord
      BY <2>1 DEF G!PluginCertificationRecord
    <2> HIDE DEF record
    <2> QED
      BY <2>1, <2>2, TestsKeep
  <1>4. ASSUME NEW t \in pipelines, G!ProviderThrows(t)
        PROVE  CertificationInv'
    BY <1>4, EndKeeps DEF G!ProviderThrows
  <1>5. ASSUME NEW t \in pipelines, G!CertifyAgain(t)
        PROVE  CertificationInv'
    <2>1. pipelines' \subseteq pipelines /\ t.of \in Certifications
      BY <1>5 DEF G!CertifyAgain, CertificationInv, CertificationType, Pipeline
    <2>2. \/ G!At(t.of, "EvidenceCollected") /\ G!Certified(t.of)
          \/ certifications' = certifications
      BY <1>5 DEF G!CertifyAgain
    <2> QED
      BY <2>1, <2>2, CertifiedKeeps, EndKeeps
  <1>6. CASE UNCHANGED G!certificationVars
    <2>1. certifications' = certifications /\ pipelines' \subseteq pipelines
      BY <1>6 DEF G!certificationVars
    <2> QED
      BY <2>1, EndKeeps
  <1> QED
    BY <1>1, <1>2, <1>3, <1>4, <1>5, <1>6, SubmitKeeps, WithdrawKeeps, ObservedKeeps
    DEF G!CertificationNext, G!Suspend, G!Revoke


LEMMA PluginsCertify == G!Next \/ UNCHANGED pluginVars => G!CertificationNext \/ UNCHANGED G!certificationVars
  <1>1. G!RuntimeNext => UNCHANGED G!certificationVars
    BY DEF G!RuntimeNext, G!Uncertified, G!Load, G!Invoke, G!Initialize, G!Start, G!Pause, G!Resume, G!Unload,
           G!Stop, G!Fail, G!Gated, G!GateThrows, G!Invoked, G!Readied, G!EntrypointThrows
  <1>2. UNCHANGED pluginVars => UNCHANGED G!certificationVars
    BY DEF pluginVars, G!certificationVars
  <1> QED
    BY <1>1, <1>2 DEF G!Next

(* TrustIsEarned (core/mining_plugin_certification_authority: runPipeline(), certify() and recertify()):
   for any plugins, certifications and observations, and any interleaving of pipelines with
   suspensions, revocations and repetitions, what is trusted passed all seven tests and meets the
   published policy of its level, and a pipeline that tests has its record to itself. *)
THEOREM PluginTrustIsEarned == OperationsSpec => []TrustIsEarned
  <1>1. OperationsInit => CertificationInv
    BY CertificationStarts DEF OperationsInit, G!Init
  <1>2. CertificationInv /\ [OperationsNext]_operationsVars => CertificationInv'
    <2>1. [OperationsNext]_operationsVars => G!Next \/ UNCHANGED pluginVars
      BY DEF OperationsNext, operationsVars
    <2> QED
      BY <2>1, PluginsCertify, CertificationStep
  <1>3. CertificationInv => TrustIsEarned
    BY DEF CertificationInv, TrustIsEarned
  <1> QED
    BY <1>1, <1>2, <1>3, PTL DEF OperationsSpec


----------------------------------------------------------------------------
(* Processes.  A record is validated, prepared or stopping only while a call   *)
(* is where it moves the record on, and every way out of a call moves it.      *)

IsProcess(r) ==
  /\ r = [stage |-> r.stage, pid |-> r.pid, reservation |-> r.reservation, restarts |-> r.restarts]
  /\ r.stage \in P!ProcessLifecycleStages
IsCall(c) ==
  /\ c = [id |-> c.id, of |-> c.of, at |-> c.at, reservation |-> c.reservation, pid |-> c.pid]
  /\ c.of \in Processes
IsLive(o) == o = [pid |-> o.pid, of |-> o.of, watched |-> o.watched] /\ o.of \in Processes

\* Where the calls are that a stage on the way waits for.
Ats(stage) ==
  IF stage = "validated" THEN {"reserving", "permitting"}
  ELSE IF stage = "prepared" THEN {"spawning"}
  ELSE IF stage = "stopping" THEN {"killing to restart", "killing to stop", "killing to terminate"} ELSE {}
Accounted(r, p) ==
  \/ r.stage \notin {"validated", "prepared", "stopping"}
  \/ r.stage = "stopping" /\ p \in unkilled
  \/ \E c \in processCalls : c.of = p /\ c.at \in Ats(r.stage)

ProcessesType ==
  /\ procs = [p \in Processes |-> procs[p]]
  /\ \A p \in Processes : procs[p] # Nothing => IsProcess(procs[p])
  /\ \A c \in processCalls : IsCall(c) /\ IsProcess(procs[c.of])
  /\ \A o \in processes : IsLive(o) /\ IsProcess(procs[o.of])
ProcessesInv == ProcessesType /\ \A p \in Processes : procs[p] # Nothing => Accounted(procs[p], p)

LEMMA ProcessesStart == P!Init => ProcessesInv
  BY DEF P!Init, ProcessesInv, ProcessesType

LEMMA ProcessesTell == ASSUME ProcessesInv PROVE P!NoneLeftBehind
  BY DEF ProcessesInv, Accounted, Ats, P!NoneLeftBehind, P!Stage

LEMMA FailedProcess ==
  ASSUME NEW r, IsProcess(r)
  PROVE  IsProcess(P!Failed(r)) /\ P!Failed(r).stage \notin {"validated", "prepared", "stopping"}
  <1>1. CASE <<r.stage, "failed">> \in P!ProcessLifecycleTransitions
    <2> DEFINE f == [r EXCEPT !.stage = "failed"]
    <2>1. P!Failed(r) = f
      BY <1>1 DEF P!Failed
    <2>2. f = [stage |-> "failed", pid |-> r.pid, reservation |-> r.reservation, restarts |-> r.restarts]
      BY DEF IsProcess
    <2>3. IsProcess(f) /\ f.stage = "failed"
      BY <2>2 DEF IsProcess, P!ProcessLifecycleStages
    <2> QED
      BY <2>1, <2>3
  <1>2. CASE <<r.stage, "failed">> \notin P!ProcessLifecycleTransitions
    <2>1. P!Failed(r) = r
      BY <1>2 DEF P!Failed
    <2>2. r.stage \notin {"validated", "prepared", "stopping"}
      BY <1>2 DEF P!ProcessLifecycleTransitions, P!ProcessLifecycleStages
    <2> QED
      BY <2>1, <2>2
  <1> QED
    BY <1>1, <1>2

\* The record of one process and its calls change.
LEMMA ProcessChanges ==
  ASSUME ProcessesInv, NEW p \in Processes, NEW r, IsProcess(r), procs' = [procs EXCEPT ![p] = r],
         \A c \in processCalls : c.of # p => c \in processCalls',
         \A c \in processCalls' : c \in processCalls \/ (IsCall(c) /\ c.of = p),
         unkilled \subseteq unkilled',
         \A o \in processes' : IsLive(o) /\ (o.of = p \/ \E q \in processes : q.of = o.of),
         r # Nothing => Accounted(r, p)'
  PROVE  ProcessesInv'
  <1>1. /\ procs'[p] = r /\ \A q \in Processes \ {p} : procs'[q] = procs[q]
        /\ procs' = [q \in Processes |-> procs'[q]]
    BY DEF ProcessesInv, ProcessesType
  <1>2. ASSUME NEW q \in Processes, IsProcess(procs[q]) PROVE IsProcess(procs'[q])
    BY <1>1, <1>2
  <1>3. ASSUME NEW q \in Processes, procs'[q] # Nothing PROVE IsProcess(procs'[q])
    BY <1>1, <1>3 DEF ProcessesInv, ProcessesType
  <1>4. ASSUME NEW c \in processCalls' PROVE IsCall(c) /\ IsProcess(procs'[c.of])
    <2>1. CASE c \in processCalls
      <3>1. IsCall(c) /\ IsProcess(procs[c.of])
        BY <2>1 DEF ProcessesInv, ProcessesType
      <3> QED
        BY <1>2, <3>1 DEF IsCall
    <2>2. CASE IsCall(c) /\ c.of = p
      BY <1>1, <2>2
    <2> QED
      BY <2>1, <2>2
  <1>5. ASSUME NEW o \in processes' PROVE IsLive(o) /\ IsProcess(procs'[o.of])
    <2>1. IsProcess(procs[o.of]) \/ o.of = p
      BY DEF ProcessesInv, ProcessesType
    <2> QED
      BY <1>1, <1>2, <2>1 DEF IsLive
  <1>6. ProcessesType'
    BY <1>1, <1>3, <1>4, <1>5 DEF ProcessesType
  <1>7. ASSUME NEW q \in Processes, procs'[q] # Nothing PROVE Accounted(procs[q], q)'
    <2>1. CASE q = p
      BY <1>1, <1>7, <2>1 DEF Accounted
    <2>2. CASE q # p
      BY <1>1, <1>7, <2>2 DEF ProcessesInv, Accounted
    <2> QED
      BY <2>1, <2>2
  <1> QED
    BY <1>6, <1>7 DEF ProcessesInv


\* Calls of the process go or come with the change, and its stage has what it waits for.
CallsOf(p, gone, news) ==
  /\ processCalls' = (processCalls \ gone) \cup news
  /\ \A c \in gone : c.of = p
  /\ \A c \in news : IsCall(c) /\ c.of = p
OthersLive(p) == \A o \in processes' : IsLive(o) /\ (o.of = p \/ \E q \in processes : q.of = o.of)
Awaited(p, r, gone, news) ==
  \/ r.stage \notin {"validated", "prepared", "stopping"}
  \/ \E c \in news : c.at \in Ats(r.stage)
  \/ r.stage = "stopping" /\ p \in unkilled'
  \/ /\ procs[p] # Nothing \/ r = procs[p]
     /\ r.stage = procs[p].stage /\ \A c \in gone : c.at \notin Ats(r.stage)

LEMMA CallsMove ==
  ASSUME ProcessesInv, NEW p \in Processes, NEW r, IsProcess(r), procs' = [procs EXCEPT ![p] = r],
         NEW gone, NEW news, CallsOf(p, gone, news), OthersLive(p), Awaited(p, r, gone, news),
         unkilled \subseteq unkilled'
  PROVE  ProcessesInv'
  <1> USE DEF CallsOf, OthersLive, Awaited
  <1>1. /\ \A c \in processCalls : c.of # p => c \in processCalls'
        /\ \A c \in processCalls' : c \in processCalls \/ (IsCall(c) /\ c.of = p)
    OBVIOUS
  <1>2. ASSUME r # Nothing PROVE Accounted(r, p)'
    <2>1. CASE r.stage \notin {"validated", "prepared", "stopping"}
      BY <2>1 DEF Accounted
    <2>2. ASSUME NEW c \in news, c.at \in Ats(r.stage) PROVE Accounted(r, p)'
      <3>1. c \in processCalls' /\ c.of = p
        BY <2>2
      <3> QED
        BY <2>2, <3>1 DEF Accounted
    <2>3. CASE r.stage = "stopping" /\ p \in unkilled'
      BY <2>3 DEF Accounted
    <2>4. CASE /\ procs[p] # Nothing \/ r = procs[p]
               /\ r.stage = procs[p].stage /\ \A c \in gone : c.at \notin Ats(r.stage)
      <3>1. Accounted(procs[p], p)
        BY <1>2, <2>4 DEF ProcessesInv
      <3>2. ASSUME NEW c \in processCalls, c.of = p, c.at \in Ats(r.stage) PROVE c \in processCalls'
        BY <2>4, <3>2
      <3> QED
        BY <2>4, <3>1, <3>2 DEF Accounted
    <2> QED
      BY <2>1, <2>2, <2>3, <2>4
  <1> QED
    BY <1>1, <1>2, ProcessChanges

LEMMA LiveStays ==
  ASSUME ProcessesInv, processes' \subseteq processes, NEW p
  PROVE  OthersLive(p)
  BY DEF ProcessesInv, ProcessesType, OthersLive

\* A call begins, goes on or ends.
LEMMA BeginsCall ==
  ASSUME NEW p \in Processes, NEW at, P!Begins(p, at)
  PROVE  \E new : new.at = at /\ CallsOf(p, {}, {new})
  <1> PICK id : id = P!Min((1..MaxCalls) \ {c.id : c \in processCalls})
    OBVIOUS
  <1> DEFINE new == [id |-> id, of |-> p, at |-> at, reservation |-> 0, pid |-> 0]
  <1>1. IsCall(new) /\ new.of = p /\ new.at = at
    BY DEF IsCall
  <1>2. processCalls' = (processCalls \ {}) \cup {new}
    BY DEF P!Begins
  <1> HIDE DEF new
  <1> QED
    BY <1>1, <1>2 DEF CallsOf

\* What is left of the record when a process is in stage s.
IsIn(r, s) == IsProcess(r) /\ r.stage = s
LEMMA StagedProcess ==
  ASSUME NEW r, IsProcess(r), NEW s \in P!ProcessLifecycleStages
  PROVE  IsIn([r EXCEPT !.stage = s], s)
  <1> DEFINE f == [r EXCEPT !.stage = s]
  <1>1. f = [stage |-> s, pid |-> r.pid, reservation |-> r.reservation, restarts |-> r.restarts]
    BY DEF IsProcess
  <1> HIDE DEF f
  <1>2. IsIn(f, s)
    BY <1>1 DEF IsProcess, IsIn
  <1> QED
    BY <1>2 DEF f

LEMMA GivenProcess ==
  ASSUME NEW r, IsProcess(r), NEW v
  PROVE  /\ IsIn([r EXCEPT !.reservation = v], r.stage) /\ IsIn([r EXCEPT !.pid = v], r.stage)
         /\ IsIn([r EXCEPT !.restarts = v], r.stage)
  <1> DEFINE a == [r EXCEPT !.reservation = v]
             b == [r EXCEPT !.pid = v]
             c == [r EXCEPT !.restarts = v]
  <1>1. /\ a = [stage |-> r.stage, pid |-> r.pid, reservation |-> v, restarts |-> r.restarts]
        /\ b = [stage |-> r.stage, pid |-> v, reservation |-> r.reservation, restarts |-> r.restarts]
        /\ c = [stage |-> r.stage, pid |-> r.pid, reservation |-> r.reservation, restarts |-> v]
    BY DEF IsProcess
  <1> HIDE DEF a, b, c
  <1>2. IsIn(a, r.stage) /\ IsIn(b, r.stage) /\ IsIn(c, r.stage)
    BY <1>1 DEF IsProcess, IsIn
  <1> QED
    BY <1>2 DEF a, b, c


IsNext(n, c, at) == IsCall(n) /\ n.of = c.of /\ n.at = at
LEMMA NextCall ==
  ASSUME NEW c, IsCall(c), NEW at, NEW v
  PROVE  /\ IsNext([c EXCEPT !.at = at], c, at)
         /\ IsNext([c EXCEPT !.at = at, !.reservation = v], c, at)
         /\ IsNext([c EXCEPT !.at = at, !.pid = v], c, at)
  <1> DEFINE k == [c EXCEPT !.at = at]
  <1>1. k = [id |-> c.id, of |-> c.of, at |-> at, reservation |-> c.reservation, pid |-> c.pid]
    BY DEF IsCall
  <1>2. /\ [c EXCEPT !.at = at, !.reservation = v] = [k EXCEPT !.reservation = v]
        /\ [c EXCEPT !.at = at, !.pid = v] = [k EXCEPT !.pid = v]
    OBVIOUS
  <1> HIDE DEF k
  <1>3. IsNext(k, c, at)
    BY <1>1 DEF IsCall, IsNext
  <1> DEFINE m == [k EXCEPT !.reservation = v]
             n == [k EXCEPT !.pid = v]
  <1>4. m = [id |-> k.id, of |-> k.of, at |-> k.at, reservation |-> v, pid |-> k.pid]
    BY <1>3 DEF IsCall, IsNext
  <1>5. n = [id |-> k.id, of |-> k.of, at |-> k.at, reservation |-> k.reservation, pid |-> v]
    BY <1>3 DEF IsCall, IsNext
  <1> HIDE DEF m, n
  <1>6. IsNext(m, c, at) /\ IsNext(n, c, at)
    BY <1>3, <1>4, <1>5 DEF IsCall, IsNext
  <1> QED
    BY <1>2, <1>3, <1>6 DEF k, m, n

LEMMA RestartedProcess ==
  ASSUME NEW r, IsProcess(r), NEW v
  PROVE  IsIn([r EXCEPT !.stage = "stopped", !.restarts = v], "stopped")
  <1> DEFINE k == [r EXCEPT !.stage = "stopped"]
  <1>1. "stopped" \in P!ProcessLifecycleStages
    BY DEF P!ProcessLifecycleStages
  <1>2. IsIn(k, "stopped")
    BY <1>1, StagedProcess
  <1>3. [r EXCEPT !.stage = "stopped", !.restarts = v] = [k EXCEPT !.restarts = v]
    OBVIOUS
  <1> HIDE DEF k
  <1>4. IsIn([k EXCEPT !.restarts = v], k.stage)
    BY <1>2, GivenProcess DEF IsIn
  <1> QED
    BY <1>2, <1>3, <1>4 DEF IsIn

LEMMA WatchedLive ==
  ASSUME NEW o, IsLive(o), NEW v
  PROVE  IsLive([o EXCEPT !.watched = v]) /\ [o EXCEPT !.watched = v].of = o.of
  <1> DEFINE a == [o EXCEPT !.watched = v]
  <1>1. a = [pid |-> o.pid, of |-> o.of, watched |-> v]
    BY DEF IsLive
  <1> HIDE DEF a
  <1>2. IsLive(a) /\ a.of = o.of
    BY <1>1 DEF IsLive
  <1> QED
    BY <1>2 DEF a

\* A call of a process fails it, and ends.
LEMMA FailedKeeps ==
  ASSUME ProcessesInv, NEW c \in processCalls, NEW r, IsIn(r, procs[c.of].stage),
         P!Records(c.of, P!Failed(r)), processCalls' = processCalls \ {c}, processes' \subseteq processes,
         unkilled' = unkilled
  PROVE  ProcessesInv'
  <1> DEFINE f == P!Failed(r)
  <1>1. IsProcess(f) /\ f.stage \notin {"validated", "prepared", "stopping"}
    BY FailedProcess DEF IsIn
  <1>2. c.of \in Processes /\ procs' = [procs EXCEPT ![c.of] = f]
    BY DEF P!Records, ProcessesInv, ProcessesType, IsCall
  <1> HIDE DEF f
  <1>3. CallsOf(c.of, {c}, {}) /\ OthersLive(c.of) /\ Awaited(c.of, f, {c}, {})
    BY <1>1, LiveStays DEF CallsOf, Awaited
  <1>4. unkilled \subseteq unkilled'
    OBVIOUS
  <1> QED
    BY <1>1, <1>2, <1>3, <1>4, CallsMove

\* A call goes on and puts the process in a stage; what the stage waits for is the call itself.
LEMMA StageFollows ==
  ASSUME ProcessesInv, NEW c \in processCalls, NEW r, NEW stage, IsIn(r, stage),
         procs' = [procs EXCEPT ![c.of] = r], NEW next, NEW at, IsNext(next, c, at),
         processCalls' = (processCalls \ {c}) \cup {next}, OthersLive(c.of), unkilled' = unkilled,
         stage \notin {"validated", "prepared", "stopping"} \/ at \in Ats(stage)
  PROVE  ProcessesInv'
  <1>1. c.of \in Processes /\ IsProcess(r) /\ r.stage = stage
    BY DEF ProcessesInv, ProcessesType, IsCall, IsIn
  <1>2. CallsOf(c.of, {c}, {next}) /\ Awaited(c.of, r, {c}, {next})
    BY <1>1 DEF CallsOf, Awaited, IsNext
  <1>3. unkilled \subseteq unkilled'
    OBVIOUS
  <1> QED
    BY <1>1, <1>2, <1>3, CallsMove

\* The record is left as it is, and no call that its stage waits for goes.
LEMMA CallsPass ==
  ASSUME ProcessesInv, NEW c \in processCalls, procs' = procs, NEW news, CallsOf(c.of, {c}, news),
         processes' \subseteq processes, unkilled \subseteq unkilled',
         \/ c.at \notin Ats(procs[c.of].stage)
         \/ \E n \in news : n.at \in Ats(procs[c.of].stage)
         \/ c.of \in unkilled' /\ c.at \notin {"reserving", "permitting", "spawning"}
  PROVE  ProcessesInv'
  <1>1. c.of \in Processes /\ IsProcess(procs[c.of])
    BY DEF ProcessesInv, ProcessesType, IsCall
  <1> PICK r : r = procs[c.of]
    OBVIOUS
  <1>2. procs' = [procs EXCEPT ![c.of] = r]
    BY DEF ProcessesInv, ProcessesType
  <1>3. OthersLive(c.of)
    BY LiveStays
  <1>4. Awaited(c.of, r, {c}, news)
    BY DEF Ats, Awaited
  <1> QED
    BY <1>1, <1>2, <1>3, <1>4, CallsMove


\* A call of the process may begin as its record changes.
LEMMA RecordMoves ==
  ASSUME ProcessesInv, NEW p \in Processes, NEW stage, NEW r, IsIn(r, stage), procs' = [procs EXCEPT ![p] = r],
         NEW news, CallsOf(p, {}, news), processes' \subseteq processes, unkilled' = unkilled,
         \/ stage \notin {"validated", "prepared", "stopping"}
         \/ \E c \in news : c.at \in Ats(stage)
         \/ stage = procs[p].stage /\ procs[p] # Nothing
  PROVE  ProcessesInv'
  <1>1. IsProcess(r) /\ r.stage = stage
    BY DEF IsIn
  <1>2. Awaited(p, r, {}, news)
    BY <1>1 DEF Awaited
  <1>3. OthersLive(p) /\ unkilled \subseteq unkilled'
    BY LiveStays
  <1> QED
    BY <1>1, <1>2, <1>3, CallsMove

LEMMA RecordStays ==
  ASSUME ProcessesInv, UNCHANGED <<procs, processCalls, unkilled>>, processes' \subseteq processes
  PROVE  ProcessesInv'
  BY DEF ProcessesInv, ProcessesType, Accounted

LEMMA NoCalls == ASSUME NEW p, UNCHANGED processCalls PROVE CallsOf(p, {}, {})
  BY DEF CallsOf

LEMMA RequestKeeps ==
  ASSUME ProcessesInv, NEW p \in Processes, P!Request(p) \/ P!Launch(p)
  PROVE  ProcessesInv'
  <1> DEFINE r == [stage |-> "requested", pid |-> Nothing, reservation |-> 0, restarts |-> 0]
  <1>1. IsIn(r, "requested")
    BY DEF IsIn, IsProcess, P!ProcessLifecycleStages
  <1> PICK stage : stage = "requested"
    OBVIOUS
  <1>5. IsIn(r, stage) /\ stage \notin {"validated", "prepared", "stopping"}
    BY <1>1
  <1>2. /\ procs' = [procs EXCEPT ![p] = r]
        /\ processes' \subseteq processes /\ unkilled' = unkilled
    BY DEF P!Request, P!Launch, P!Requested, P!Records
  <1> HIDE DEF r
  <1>3. CASE P!Request(p)
    <2>1. CallsOf(p, {}, {})
      BY <1>3, NoCalls DEF P!Request
    <2> QED
      BY <1>2, <1>5, <2>1, RecordMoves
  <1>4. CASE P!Launch(p)
    <2>1. P!Begins(p, "securing")
      BY <1>4 DEF P!Launch
    <2>2. PICK new : CallsOf(p, {}, {new})
      BY <2>1, BeginsCall
    <2> QED
      BY <1>2, <1>5, <2>2, RecordMoves
  <1> QED
    BY <1>3, <1>4

\* A process that runs is told to stop: a call begins that kills it.
LEMMA StoppingKeeps ==
  ASSUME ProcessesInv, NEW p \in Processes, procs[p] # Nothing,
         NEW at \in {"killing to restart", "killing to stop", "killing to terminate"}, P!Begins(p, at),
         P!Records(p, [procs[p] EXCEPT !.stage = "stopping"]), processes' = processes, unkilled' = unkilled
  PROVE  ProcessesInv'
  <1>1. IsProcess(procs[p])
    BY DEF ProcessesInv, ProcessesType
  <1>2. "stopping" \in P!ProcessLifecycleStages
    BY DEF P!ProcessLifecycleStages
  <1> DEFINE r == [procs[p] EXCEPT !.stage = "stopping"]
  <1>3. IsIn(r, "stopping") /\ procs' = [procs EXCEPT ![p] = r]
    BY <1>1, <1>2, StagedProcess DEF P!Records
  <1> HIDE DEF r
  <1>4. PICK new : new.at = at /\ CallsOf(p, {}, {new})
    BY BeginsCall
  <1>5. \E c \in {new} : c.at \in Ats("stopping")
    BY <1>4 DEF Ats
  <1>6. processes' \subseteq processes
    OBVIOUS
  <1> QED
    BY <1>3, <1>4, <1>5, <1>6, RecordMoves

\* The record enters a stage where nothing is awaited.
LEMMA EntersKeeps ==
  ASSUME ProcessesInv, NEW p \in Processes, IsProcess(procs[p]),
         NEW stage \in P!ProcessLifecycleStages \ {"validated", "prepared", "stopping"},
         P!Records(p, [procs[p] EXCEPT !.stage = stage]), NEW news, CallsOf(p, {}, news),
         processes' \subseteq processes, unkilled' = unkilled
  PROVE  ProcessesInv'
  <1> DEFINE r == [procs[p] EXCEPT !.stage = stage]
  <1>1. IsIn(r, stage) /\ procs' = [procs EXCEPT ![p] = r]
    BY StagedProcess DEF P!Records
  <1> HIDE DEF r
  <1>2. stage \notin {"validated", "prepared", "stopping"}
    OBVIOUS
  <1> QED
    BY <1>1, <1>2, RecordMoves

LEMMA StopKeeps ==
  ASSUME ProcessesInv, NEW p \in Processes, P!Stop(p)
  PROVE  ProcessesInv'
  <1>1. procs[p] # Nothing /\ IsProcess(procs[p]) /\ processes' = processes /\ unkilled' = unkilled
    BY DEF P!Stop, ProcessesInv, ProcessesType
  <1>2. CASE procs[p].pid # Nothing
    <2>1. P!Records(p, [procs[p] EXCEPT !.stage = "stopping"]) /\ P!Begins(p, "killing to stop")
      BY <1>2 DEF P!Stop
    <2> QED
      BY <1>1, <2>1, StoppingKeeps
  <1>3. CASE procs[p].pid = Nothing
    <2>1. P!Records(p, [procs[p] EXCEPT !.stage = "stopped"]) /\ P!Begins(p, "releasing")
      BY <1>3 DEF P!Stop
    <2>2. PICK new : CallsOf(p, {}, {new})
      BY <2>1, BeginsCall
    <2>3. "stopped" \in P!ProcessLifecycleStages \ {"validated", "prepared", "stopping"}
      BY DEF P!ProcessLifecycleStages
    <2> QED
      BY <1>1, <2>1, <2>2, <2>3, EntersKeeps
  <1> QED
    BY <1>2, <1>3

LEMMA TerminateKeeps ==
  ASSUME ProcessesInv, NEW p \in Processes, P!Terminate(p)
  PROVE  ProcessesInv'
  <1>1. procs[p] # Nothing /\ IsProcess(procs[p]) /\ processes' = processes /\ unkilled' = unkilled
    BY DEF P!Terminate, ProcessesInv, ProcessesType
  <1>2. CASE P!Stage(p) \in {"running", "degraded"} /\ procs[p].pid # Nothing
    <2>1. P!Records(p, [procs[p] EXCEPT !.stage = "stopping"]) /\ P!Begins(p, "killing to terminate")
      BY <1>2 DEF P!Terminate
    <2> QED
      BY <1>1, <2>1, StoppingKeeps
  <1>3. CASE ~(P!Stage(p) \in {"running", "degraded"} /\ procs[p].pid # Nothing)
    <2>1. /\ P!Begins(p, "releasing")
          /\ IF P!Stage(p) = "degraded" THEN P!Records(p, [procs[p] EXCEPT !.stage = "stopped"]) ELSE UNCHANGED procs
      BY <1>3 DEF P!Terminate
    <2>2. PICK new : CallsOf(p, {}, {new})
      BY <2>1, BeginsCall
    <2>3. CASE P!Stage(p) = "degraded"
      <3>1. "stopped" \in P!ProcessLifecycleStages \ {"validated", "prepared", "stopping"}
        BY DEF P!ProcessLifecycleStages
      <3> QED
        BY <1>1, <2>1, <2>2, <2>3, <3>1, EntersKeeps
    <2>4. CASE P!Stage(p) # "degraded"
      <3> PICK r : r = procs[p]
        OBVIOUS
      <3> PICK stage : stage = procs[p].stage
        OBVIOUS
      <3>1. procs' = [procs EXCEPT ![p] = r] /\ IsIn(r, stage)
        BY <1>1, <2>1, <2>4 DEF IsIn, ProcessesInv, ProcessesType
      <3>2. stage = procs[p].stage /\ procs[p] # Nothing
        BY <1>1
      <3> QED
        BY <1>1, <2>2, <3>1, <3>2, RecordMoves
    <2> QED
      BY <2>3, <2>4
  <1> QED
    BY <1>2, <1>3

LEMMA RestartKeeps ==
  ASSUME ProcessesInv, NEW p \in Processes, NEW automatic \in BOOLEAN, P!Restart(p, automatic)
  PROVE  ProcessesInv'
  <1>1. procs[p] # Nothing /\ IsProcess(procs[p]) /\ processes' = processes /\ unkilled' = unkilled
    BY DEF P!Restart, P!Quietly, ProcessesInv, ProcessesType
  <1>2. CASE procs[p].pid # Nothing /\ P!Stage(p) \in {"running", "degraded"}
    <2>1. P!Records(p, [procs[p] EXCEPT !.stage = "stopping"]) /\ P!Begins(p, "killing to restart")
      BY <1>2 DEF P!Restart
    <2> QED
      BY <1>1, <2>1, StoppingKeeps
  <1>3. CASE ~(procs[p].pid # Nothing /\ P!Stage(p) \in {"running", "degraded"})
    <2>1. procs' = [procs EXCEPT ![p] = [procs[p] EXCEPT !.restarts = @ + 1]] /\ P!Begins(p, "securing")
      BY <1>3 DEF P!Restart, P!Records
    <2> DEFINE r == [procs[p] EXCEPT !.restarts = @ + 1]
    <2>2. r = [procs[p] EXCEPT !.restarts = procs[p].restarts + 1]
      BY <1>1 DEF IsProcess
    <2>3. IsIn(r, procs[p].stage)
      BY <1>1, <2>2, GivenProcess
    <2> HIDE DEF r
    <2>4. PICK new : CallsOf(p, {}, {new})
      BY <2>1, BeginsCall
    <2>5. procs' = [procs EXCEPT ![p] = r]
      BY <2>1 DEF r
    <2> PICK stage : stage = procs[p].stage
      OBVIOUS
    <2>6. stage = procs[p].stage /\ procs[p] # Nothing
      BY <1>1
    <2>7. IsIn(r, stage) /\ processes' \subseteq processes
      BY <1>1, <2>3
    <2> QED
      BY <1>1, <2>4, <2>5, <2>6, <2>7, RecordMoves
  <1> QED
    BY <1>2, <1>3

LEMMA AsideKeeps ==
  ASSUME ProcessesInv, NEW p \in Processes, P!RestartRefused(p) \/ P!Archive(p)
  PROVE  ProcessesInv'
  <1>1. /\ IsProcess(procs[p]) /\ processes' \subseteq processes /\ unkilled' = unkilled /\ CallsOf(p, {}, {})
    BY NoCalls DEF P!RestartRefused, P!Archive, P!Quietly, ProcessesInv, ProcessesType
  <1>2. /\ "degraded" \in P!ProcessLifecycleStages \ {"validated", "prepared", "stopping"}
        /\ "archived" \in P!ProcessLifecycleStages \ {"validated", "prepared", "stopping"}
    BY DEF P!ProcessLifecycleStages
  <1>3. \/ P!Records(p, [procs[p] EXCEPT !.stage = "degraded"])
        \/ P!Records(p, [procs[p] EXCEPT !.stage = "archived"])
    BY DEF P!RestartRefused, P!Archive
  <1> QED
    BY <1>1, <1>2, <1>3, EntersKeeps

LEMMA ExitKeeps ==
  ASSUME ProcessesInv, NEW o \in processes, NEW clean \in BOOLEAN, P!Exit(o, clean)
  PROVE  ProcessesInv'
  <1>1. /\ o.of \in Processes /\ IsProcess(procs[o.of])
        /\ processes' \subseteq processes /\ unkilled' = unkilled /\ processCalls' = processCalls
    BY DEF P!Exit, ProcessesInv, ProcessesType, IsLive
  <1>2. CallsOf(o.of, {}, {})
    BY <1>1, NoCalls
  <1>3. CASE UNCHANGED procs
    BY <1>1, <1>3, RecordStays
  <1>4. CASE P!Records(o.of, P!Failed(procs[o.of]))
    <2> DEFINE f == P!Failed(procs[o.of])
    <2>1. IsProcess(f) /\ f.stage \notin {"validated", "prepared", "stopping"}
      BY <1>1, FailedProcess
    <2>2. procs' = [procs EXCEPT ![o.of] = f]
      BY <1>4 DEF P!Records
    <2> HIDE DEF f
    <2>3. IsIn(f, f.stage)
      BY <2>1 DEF IsIn
    <2> QED
      BY <1>1, <1>2, <2>1, <2>2, <2>3, RecordMoves
  <1>5. CASE P!Records(o.of, [procs[o.of] EXCEPT !.stage = "stopped"])
    <2>1. "stopped" \in P!ProcessLifecycleStages \ {"validated", "prepared", "stopping"}
      BY DEF P!ProcessLifecycleStages
    <2> QED
      BY <1>1, <1>2, <1>5, <2>1, EntersKeeps
  <1> QED
    BY <1>3, <1>4, <1>5 DEF P!Exit


\* What the calls do.
LEMMA ACallIs ==
  ASSUME ProcessesInv, NEW c \in processCalls
  PROVE  IsCall(c) /\ c.of \in Processes /\ IsProcess(procs[c.of]) /\ IsIn(procs[c.of], procs[c.of].stage)
  BY DEF ProcessesInv, ProcessesType, IsCall, IsIn

LEMMA RefusedKeeps ==
  ASSUME ProcessesInv, NEW c \in processCalls, P!Records(c.of, P!Failed(procs[c.of])), P!Ends(c),
         processes' = processes, unkilled' = unkilled
  PROVE  ProcessesInv'
  <1>1. IsIn(procs[c.of], procs[c.of].stage)
    BY ACallIs
  <1>2. processCalls' = processCalls \ {c} /\ processes' \subseteq processes
    BY DEF P!Ends
  <1> PICK r : r = procs[c.of]
    OBVIOUS
  <1>3. IsIn(r, procs[c.of].stage) /\ P!Records(c.of, P!Failed(r))
    BY <1>1
  <1> QED
    BY <1>2, <1>3, FailedKeeps

LEMMA SecuredKeeps ==
  ASSUME ProcessesInv, NEW c \in processCalls, P!Secured(c)
  PROVE  ProcessesInv'
  <1>1. IsCall(c) /\ c.of \in Processes /\ IsProcess(procs[c.of]) /\ processes' = processes /\ unkilled' = unkilled
    BY ACallIs DEF P!Secured, P!Quietly
  <1>2. CASE P!Allowed(c.of, "validated")
    <2>1. P!Records(c.of, [procs[c.of] EXCEPT !.stage = "validated"]) /\ P!Goes(c, [c EXCEPT !.at = "reserving"])
      BY <1>2 DEF P!Secured
    <2> DEFINE r == [procs[c.of] EXCEPT !.stage = "validated"]
               next == [c EXCEPT !.at = "reserving"]
    <2>2. IsIn(r, "validated") /\ procs' = [procs EXCEPT ![c.of] = r]
      BY <1>1, <2>1, StagedProcess DEF P!Records, P!ProcessLifecycleStages
    <2> PICK at : at = "reserving"
      OBVIOUS
    <2>3. IsNext(next, c, at)
      BY <1>1, NextCall
    <2>4. processCalls' = (processCalls \ {c}) \cup {next}
      BY <2>1 DEF P!Goes
    <2> HIDE DEF r, next
    <2> PICK stage : stage = "validated"
      OBVIOUS
    <2>5. IsIn(r, stage) /\ (stage \notin {"validated", "prepared", "stopping"} \/ at \in Ats(stage))
      BY <2>2 DEF Ats
    <2>6. OthersLive(c.of)
      BY <1>1, LiveStays
    <2> QED
      BY <1>1, <2>2, <2>3, <2>4, <2>5, <2>6, StageFollows
  <1>3. CASE ~P!Allowed(c.of, "validated")
    <2>1. P!Records(c.of, P!Failed(procs[c.of])) /\ P!Ends(c)
      BY <1>3 DEF P!Secured
    <2> QED
      BY <1>1, <2>1, RefusedKeeps
  <1> QED
    BY <1>2, <1>3

LEMMA ReservedKeeps ==
  ASSUME ProcessesInv, NEW c \in processCalls, P!Reserved(c)
  PROVE  ProcessesInv'
  <1> DEFINE next == [c EXCEPT !.at = "permitting", !.reservation = reserved + 1]
  <1>1. IsCall(c) /\ c.at = "reserving" /\ procs' = procs /\ processes' \subseteq processes /\ unkilled \subseteq unkilled'
    BY ACallIs DEF P!Reserved
  <1>2. IsNext(next, c, "permitting")
    BY <1>1, NextCall
  <1>3. processCalls' = (processCalls \ {c}) \cup {next}
    BY DEF P!Reserved, P!Goes
  <1> HIDE DEF next
  <1> PICK news : news = {next}
    OBVIOUS
  <1>4. CallsOf(c.of, {c}, news)
    BY <1>2, <1>3 DEF CallsOf, IsNext
  <1>5. \/ c.at \notin Ats(procs[c.of].stage)
        \/ \E n \in news : n.at \in Ats(procs[c.of].stage)
        \/ c.of \in unkilled' /\ c.at \notin {"reserving", "permitting", "spawning"}
    BY <1>1, <1>2 DEF Ats, IsNext
  <1> QED
    BY <1>1, <1>4, <1>5, CallsPass

LEMMA PermittedKeeps ==
  ASSUME ProcessesInv, NEW c \in processCalls, P!Permitted(c)
  PROVE  ProcessesInv'
  <1> DEFINE record == [procs[c.of] EXCEPT !.reservation = c.reservation]
  <1>1. IsCall(c) /\ c.of \in Processes /\ IsIn(record, procs[c.of].stage) /\ unkilled' = unkilled
    BY ACallIs, GivenProcess DEF P!Permitted
  <1>2. CASE P!Allowed(c.of, "prepared")
    <2> DEFINE r == [record EXCEPT !.stage = "prepared"]
               next == [c EXCEPT !.at = "spawning", !.pid = spawned + 1]
               made == [pid |-> spawned + 1, of |-> c.of, watched |-> FALSE]
    <2>1. /\ procs' = [procs EXCEPT ![c.of] = r] /\ processes' = processes \cup {made}
          /\ processCalls' = (processCalls \ {c}) \cup {next}
      BY <1>2 DEF P!Permitted, P!Records, P!Goes
    <2> HIDE DEF record
    <2>2. IsIn(r, "prepared")
      BY <1>1, StagedProcess DEF P!ProcessLifecycleStages, IsIn
    <2> PICK at : at = "spawning"
      OBVIOUS
    <2>3. IsNext(next, c, at)
      BY <1>1, NextCall
    <2>4. IsLive(made) /\ made.of = c.of
      BY <1>1 DEF IsLive
    <2> HIDE DEF r, next, made
    <2> PICK stage : stage = "prepared"
      OBVIOUS
    <2>5. IsIn(r, stage) /\ (stage \notin {"validated", "prepared", "stopping"} \/ at \in Ats(stage))
      BY <2>2 DEF Ats
    <2>6. OthersLive(c.of)
      BY <2>1, <2>4 DEF OthersLive, ProcessesInv, ProcessesType
    <2> QED
      BY <1>1, <2>1, <2>3, <2>5, <2>6, StageFollows
  <1>3. CASE ~P!Allowed(c.of, "prepared")
    <2>1. /\ P!Records(c.of, P!Failed(record)) /\ processCalls' = processCalls \ {c}
          /\ processes' \subseteq processes
      BY <1>3 DEF P!Permitted, P!Ends
    <2> HIDE DEF record
    <2> QED
      BY <1>1, <2>1, FailedKeeps
  <1> QED
    BY <1>2, <1>3

LEMMA SpawnedKeeps ==
  ASSUME ProcessesInv, NEW c \in processCalls, P!Spawned(c)
  PROVE  ProcessesInv'
  <1> DEFINE record == [procs[c.of] EXCEPT !.pid = c.pid]
  <1>1. /\ IsCall(c) /\ c.of \in Processes /\ IsIn(record, procs[c.of].stage)
        /\ unkilled' = unkilled /\ processCalls' = processCalls \ {c}
    BY ACallIs, GivenProcess DEF P!Spawned, P!Ends
  <1>2. CASE P!Allowed(c.of, "spawned")
    <2> DEFINE r == [record EXCEPT !.stage = "running"]
    <2>1. /\ procs' = [procs EXCEPT ![c.of] = r]
          /\ processes' = {IF o.pid = c.pid THEN [o EXCEPT !.watched = TRUE] ELSE o : o \in processes}
      BY <1>2 DEF P!Spawned, P!Records
    <2> HIDE DEF record
    <2>2. IsIn(r, "running")
      BY <1>1, StagedProcess DEF P!ProcessLifecycleStages, IsIn
    <2> HIDE DEF r
    <2>3. ASSUME NEW o \in processes
          PROVE  /\ IsLive([o EXCEPT !.watched = TRUE]) /\ [o EXCEPT !.watched = TRUE].of = o.of
                 /\ IsLive(o)
      <3>1. IsLive(o)
        BY DEF ProcessesInv, ProcessesType
      <3> QED
        BY <3>1, WatchedLive
    <2>4. OthersLive(c.of)
      BY <2>1, <2>3 DEF OthersLive
    <2>5. CallsOf(c.of, {c}, {})
      BY <1>1 DEF CallsOf
    <2>6. Awaited(c.of, r, {c}, {}) /\ IsProcess(r) /\ unkilled \subseteq unkilled'
      BY <1>1, <2>2 DEF Awaited, IsIn
    <2> QED
      BY <1>1, <2>1, <2>4, <2>5, <2>6, CallsMove
  <1>3. CASE ~P!Allowed(c.of, "spawned")
    <2>1. P!Records(c.of, P!Failed(record)) /\ processes' \subseteq processes
      BY <1>3 DEF P!Spawned
    <2> HIDE DEF record
    <2> QED
      BY <1>1, <2>1, FailedKeeps
  <1> QED
    BY <1>2, <1>3

\* A call that nothing waits for ends.
LEMMA EndsKeeps ==
  ASSUME ProcessesInv, NEW c \in processCalls, procs' = procs, P!Ends(c), processes' \subseteq processes,
         unkilled \subseteq unkilled',
         \/ c.at \notin Ats(procs[c.of].stage)
         \/ c.of \in unkilled' /\ c.at \notin {"reserving", "permitting", "spawning"}
  PROVE  ProcessesInv'
  <1> PICK news : news = {}
    OBVIOUS
  <1>1. CallsOf(c.of, {c}, news)
    BY DEF CallsOf, P!Ends
  <1>2. \/ c.at \notin Ats(procs[c.of].stage)
        \/ \E n \in news : n.at \in Ats(procs[c.of].stage)
        \/ c.of \in unkilled' /\ c.at \notin {"reserving", "permitting", "spawning"}
    OBVIOUS
  <1> QED
    BY <1>1, <1>2, CallsPass

\* The process is stopped, and the call goes on.
LEMMA StoppedKeeps ==
  ASSUME ProcessesInv, NEW c \in processCalls, NEW r, IsIn(r, "stopped"), procs' = [procs EXCEPT ![c.of] = r],
         NEW at, P!Goes(c, [c EXCEPT !.at = at]), processes' = processes, unkilled' = unkilled
  PROVE  ProcessesInv'
  <1> DEFINE next == [c EXCEPT !.at = at]
  <1>1. IsCall(c) /\ OthersLive(c.of)
    BY ACallIs, LiveStays
  <1>2. IsNext(next, c, at)
    BY <1>1, NextCall
  <1>3. processCalls' = (processCalls \ {c}) \cup {next}
    BY DEF P!Goes
  <1> HIDE DEF next
  <1> PICK stage : stage = "stopped"
    OBVIOUS
  <1>4. IsIn(r, stage) /\ (stage \notin {"validated", "prepared", "stopping"} \/ at \in Ats(stage))
    OBVIOUS
  <1> QED
    BY <1>1, <1>2, <1>3, <1>4, StageFollows

LEMMA KilledKeeps ==
  ASSUME ProcessesInv, NEW c \in processCalls, P!Killed(c) \/ P!KilledToRestart(c)
  PROVE  ProcessesInv'
  <1>1. /\ IsCall(c) /\ IsProcess(procs[c.of])
        /\ processes' = processes /\ unkilled' = unkilled
        /\ c.at \in {"killing to restart", "killing to stop", "killing to terminate"}
    BY ACallIs DEF P!Killed, P!KilledToRestart, P!Quietly
  <1>2. CASE P!Allowed(c.of, "stopped") /\ P!Killed(c)
    <2>1. P!Records(c.of, [procs[c.of] EXCEPT !.stage = "stopped"]) /\ P!Goes(c, [c EXCEPT !.at = "releasing"])
      BY <1>2 DEF P!Killed
    <2> DEFINE r == [procs[c.of] EXCEPT !.stage = "stopped"]
    <2>2. IsIn(r, "stopped") /\ procs' = [procs EXCEPT ![c.of] = r]
      BY <1>1, <2>1, StagedProcess DEF P!Records, P!ProcessLifecycleStages
    <2> HIDE DEF r
    <2> QED
      BY <1>1, <2>1, <2>2, StoppedKeeps
  <1>3. CASE P!Allowed(c.of, "stopped") /\ P!KilledToRestart(c)
    <2> DEFINE r == [procs[c.of] EXCEPT !.stage = "stopped", !.restarts = @ + 1]
    <2>1. procs' = [procs EXCEPT ![c.of] = r] /\ P!Goes(c, [c EXCEPT !.at = "securing"])
      BY <1>3 DEF P!KilledToRestart, P!Records
    <2>2. r = [procs[c.of] EXCEPT !.stage = "stopped", !.restarts = procs[c.of].restarts + 1]
      BY <1>1 DEF IsProcess
    <2>3. IsIn(r, "stopped")
      BY <1>1, <2>2, RestartedProcess
    <2> HIDE DEF r
    <2> QED
      BY <1>1, <2>1, <2>3, StoppedKeeps
  <1>4. CASE ~P!Allowed(c.of, "stopped")
    <2>1. procs' = procs /\ P!Ends(c)
      BY <1>4 DEF P!Killed, P!KilledToRestart
    <2>2. procs[c.of].stage # "stopping"
      BY <1>4 DEF P!Allowed, P!Stage, P!ProcessLifecycleTransitions
    <2>3. c.at \notin Ats(procs[c.of].stage)
      BY <1>1, <2>2 DEF Ats
    <2>4. processes' \subseteq processes /\ unkilled \subseteq unkilled'
      BY <1>1
    <2> QED
      BY <2>1, <2>3, <2>4, EndsKeeps
  <1> QED
    BY <1>2, <1>3, <1>4

LEMMA QuietKeeps ==
  ASSUME ProcessesInv, NEW c \in processCalls, P!KillRejected(c) \/ P!Released(c)
  PROVE  ProcessesInv'
  <1>1. procs' = procs /\ P!Ends(c) /\ processes' \subseteq processes /\ unkilled \subseteq unkilled'
    BY DEF P!KillRejected, P!Released
  <1>2. \/ c.at \notin Ats(procs[c.of].stage)
        \/ c.of \in unkilled' /\ c.at \notin {"reserving", "permitting", "spawning"}
    BY DEF P!KillRejected, P!Released, Ats
  <1> QED
    BY <1>1, <1>2, EndsKeeps

LEMMA ProcessesStep == ProcessesInv /\ (P!Next \/ UNCHANGED processVars) => ProcessesInv'
  <1> SUFFICES ASSUME ProcessesInv, P!Next \/ UNCHANGED processVars
               PROVE  ProcessesInv'
    OBVIOUS
  <1>1. CASE UNCHANGED processVars
    BY <1>1, RecordStays DEF processVars
  <1>2. ASSUME NEW p \in Processes,
               \/ P!Request(p) \/ P!Launch(p) \/ P!RestartRefused(p) \/ P!Stop(p) \/ P!Terminate(p) \/ P!Archive(p)
               \/ \E automatic \in BOOLEAN : P!Restart(p, automatic)
        PROVE  ProcessesInv'
    BY <1>2, RequestKeeps, AsideKeeps, StopKeeps, TerminateKeeps, RestartKeeps
  <1>3. ASSUME NEW c \in processCalls, P!Refused(c) \/ P!Denied(c)
        PROVE  ProcessesInv'
    <2>1. P!Records(c.of, P!Failed(procs[c.of])) /\ P!Ends(c) /\ processes' = processes /\ unkilled' = unkilled
      BY <1>3 DEF P!Refused, P!Denied, P!Quietly
    <2> QED
      BY <2>1, RefusedKeeps
  <1>4. ASSUME NEW c \in processCalls,
               \/ P!Secured(c) \/ P!Reserved(c) \/ P!Permitted(c) \/ P!Spawned(c)
               \/ P!KilledToRestart(c) \/ P!Killed(c) \/ P!KillRejected(c) \/ P!Released(c)
        PROVE  ProcessesInv'
    BY <1>4, SecuredKeeps, ReservedKeeps, PermittedKeeps, SpawnedKeeps, KilledKeeps, QuietKeeps
  <1>5. ASSUME NEW o \in processes, NEW clean \in BOOLEAN, P!Exit(o, clean)
        PROVE  ProcessesInv'
    BY <1>5, ExitKeeps
  <1> QED
    BY <1>1, <1>2, <1>3, <1>4, <1>5 DEF P!Next



----------------------------------------------------------------------------
(* Adapters.  A registration is described once for a name; a registered name   *)
(* keeps its adapter, is in a stage of its own accord, or in one that a call of *)
(* the adapter ends.                                                           *)

IsAdapterCall(c) == c = [id |-> c.id, adapter |-> c.adapter, at |-> c.at] /\ c.adapter \in Adapters
\* What a registered name may be in without a call of its adapter.
Settled == A!LifecycleStages \ {"discovered", "started", "stopping"}

Told(i) ==
  /\ adapterStages[i] = "stopping" => \E c \in adapterCalls : Id[c.adapter] = i /\ c.at = "stopping"
  /\ adapterStages[i] = "discovered" => i \in incapable \/ \E c \in adapterCalls : Id[c.adapter] = i /\ c.at = "describing"
  /\ adapterStages[i] \in (A!LifecycleStages \ {"started"}) \cup {Nothing}
  /\ registry[i] # Nothing => registry[i] \in Adapters /\ Id[registry[i]] = i
  /\ registry[i] # Nothing <=> adapterStages[i] \notin {Nothing, "discovered"}
  /\ registry[i] # Nothing <=> certification[i] # Nothing
CallsTold(i) ==
  \A c \in adapterCalls : Id[c.adapter] = i =>
    /\ c.at = "describing" => adapterStages[i] = "discovered"
    /\ c.at \notin {"identifying", "describing"} => registry[i] # Nothing
    /\ \A d \in adapterCalls : Id[d.adapter] = i /\ c.at = "describing" /\ d.at = "describing" => c = d
AdaptersType ==
  /\ registry = [i \in Ids |-> registry[i]] /\ adapterStages = [i \in Ids |-> adapterStages[i]]
  /\ certification = [i \in Ids |-> certification[i]]
  /\ \A c \in adapterCalls : IsAdapterCall(c)
AdaptersInv == AdaptersType /\ \A i \in Ids : Told(i) /\ CallsTold(i)

LEMMA AdapterConstants ==
  /\ Id \in [Adapters -> Ids] /\ Nothing \notin Adapters
  /\ Nothing \notin A!LifecycleStages /\ Nothing \notin A!CertificationStatuses
  BY OperationsAssumption DEF OperationsAssumption, A!MiningAdapterAssumption

LEMMA AdaptersStart == A!Init => AdaptersInv
  BY AdapterConstants DEF A!Init, AdaptersInv, AdaptersType, Told, CallsTold, A!LifecycleStages

LEMMA AdapterSizes == \A X : A!Cardinality(X) = Cardinality(X)
  BY Zenon DEF A!Cardinality, Cardinality

LEMMA AdaptersTell == ASSUME AdaptersInv PROVE A!NoneLeftBehind
  <1> SUFFICES ASSUME NEW i \in Ids
               PROVE  /\ adapterStages[i] = "stopping" => \E c \in adapterCalls : Id[c.adapter] = i /\ c.at = "stopping"
                      /\ adapterStages[i] = "discovered" =>
                           (\E c \in adapterCalls : Id[c.adapter] = i /\ c.at = "describing") \/ i \in incapable
                      /\ adapterStages[i] # "started"
                      /\ registry[i] # Nothing <=> adapterStages[i] \notin {Nothing, "discovered"}
                      /\ registry[i] # Nothing <=> certification[i] # Nothing
                      /\ A!Cardinality({c \in adapterCalls : Id[c.adapter] = i /\ c.at = "describing"}) <= 1
    BY Zenon DEF A!NoneLeftBehind, A!Registered
  <1>1. Told(i) /\ CallsTold(i)
    BY DEF AdaptersInv
  <1> DEFINE describing == {c \in adapterCalls : Id[c.adapter] = i /\ c.at = "describing"}
  <1>2. A!Cardinality(describing) <= 1
    <2>1. CASE describing = {}
      BY <2>1, FS_EmptySet, AdapterSizes
    <2>2. ASSUME NEW c \in describing PROVE A!Cardinality(describing) <= 1
      <3>1. describing = {c}
        BY <1>1 DEF CallsTold
      <3>2. Cardinality({c}) = 1
        BY FS_Singleton
      <3> HIDE DEF describing
      <3> QED
        BY <3>1, <3>2, AdapterSizes
    <2> QED
      BY <2>1, <2>2
  <1>3. adapterStages[i] # "started"
    BY <1>1, AdapterConstants DEF Told, A!LifecycleStages
  <1> QED
    BY <1>1, <1>2, <1>3 DEF Told

\* Calls of one name go or come.
NamedCalls(i, gone, news) ==
  /\ adapterCalls' = (adapterCalls \ gone) \cup news
  /\ \A c \in gone : Id[c.adapter] = i
  /\ \A c \in news : IsAdapterCall(c) /\ Id[c.adapter] = i
\* Nothing changes for any other name.
NamedChange(i) ==
  /\ \E r : registry' = [registry EXCEPT ![i] = r]
  /\ \E s : adapterStages' = [adapterStages EXCEPT ![i] = s]
  /\ \E s : certification' = [certification EXCEPT ![i] = s]
  /\ incapable \subseteq incapable'

LEMMA NothingNamed ==
  ASSUME AdaptersInv, NEW i \in Ids
  PROVE  /\ registry = [registry EXCEPT ![i] = registry[i]]
         /\ adapterStages = [adapterStages EXCEPT ![i] = adapterStages[i]]
         /\ certification = [certification EXCEPT ![i] = certification[i]]
  BY DEF AdaptersInv, AdaptersType

LEMMA AdapterChanges ==
  ASSUME AdaptersInv, NEW i \in Ids, NEW gone, NEW news, NamedCalls(i, gone, news), NamedChange(i),
         Told(i)', CallsTold(i)'
  PROVE  AdaptersInv'
  <1>1. AdaptersType'
    BY DEF AdaptersInv, AdaptersType, NamedCalls, NamedChange
  <1>2. ASSUME NEW j \in Ids, j # i PROVE Told(j)' /\ CallsTold(j)'
    <2>1. /\ registry'[j] = registry[j] /\ adapterStages'[j] = adapterStages[j]
          /\ certification'[j] = certification[j] /\ incapable \subseteq incapable'
      BY <1>2 DEF AdaptersInv, AdaptersType, NamedChange
    <2>2. /\ \A c \in adapterCalls' : Id[c.adapter] = j => c \in adapterCalls
          /\ \A c \in adapterCalls : Id[c.adapter] = j => c \in adapterCalls'
      BY <1>2 DEF NamedCalls
    <2>3. Told(j) /\ CallsTold(j)
      BY DEF AdaptersInv
    <2>4. Told(j)'
      BY <2>1, <2>2, <2>3 DEF Told
    <2>5. CallsTold(j)'
      BY <2>1, <2>2, <2>3 DEF CallsTold
    <2> QED
      BY <2>4, <2>5
  <1>3. \A j \in Ids : Told(j)' /\ CallsTold(j)'
    BY <1>2
  <1> QED
    BY <1>1, <1>3 DEF AdaptersInv


\* A name that is registered settles in a stage, and its calls come and go.
LEMMA SettlesKeeps ==
  ASSUME AdaptersInv, NEW i \in Ids, registry[i] # Nothing, NEW stage \in Settled,
         adapterStages' = [adapterStages EXCEPT ![i] = stage], UNCHANGED <<registry, certification, incapable>>,
         NEW gone, NEW news, NamedCalls(i, gone, news), \A n \in news : n.at # "describing"
  PROVE  AdaptersInv'
  <1>1. Told(i) /\ CallsTold(i) /\ adapterStages'[i] = stage
    BY DEF AdaptersInv, AdaptersType
  <1>2. NamedChange(i)
    <2>1. /\ registry' = [registry EXCEPT ![i] = registry[i]]
          /\ certification' = [certification EXCEPT ![i] = certification[i]]
      BY NothingNamed
    <2> QED
      BY <2>1, Zenon DEF NamedChange
  <1>3. stage # Nothing /\ stage \notin {"discovered", "started", "stopping"} /\ stage \in A!LifecycleStages
    BY AdapterConstants DEF Settled
  <1>4. Told(i)'
    BY <1>1, <1>3 DEF Told
  <1>5. ASSUME NEW c \in adapterCalls', Id[c.adapter] = i PROVE c.at # "describing"
    BY <1>1, <1>5 DEF NamedCalls, Told, CallsTold
  <1>6. CallsTold(i)'
    BY <1>5 DEF CallsTold
  <1> QED
    BY <1>2, <1>4, <1>6, AdapterChanges

\* The name stays as it is: its calls come and go, but none that its stage waits for.
LEMMA IdlesKeeps ==
  ASSUME AdaptersInv, NEW i \in Ids, UNCHANGED <<registry, adapterStages, certification>>, incapable \subseteq incapable',
         NEW gone, NEW news, NamedCalls(i, gone, news),
         \A n \in news : n.at # "describing" /\ (n.at # "identifying" => registry[i] # Nothing),
         \A c \in gone : c.at # "stopping" /\ (c.at = "describing" => i \in incapable')
  PROVE  AdaptersInv'
  <1>1. Told(i) /\ CallsTold(i)
    BY DEF AdaptersInv
  <1>2. NamedChange(i)
    <2>1. /\ registry' = [registry EXCEPT ![i] = registry[i]]
          /\ adapterStages' = [adapterStages EXCEPT ![i] = adapterStages[i]]
          /\ certification' = [certification EXCEPT ![i] = certification[i]]
      BY NothingNamed
    <2> QED
      BY <2>1, Zenon DEF NamedChange
  <1>3. Told(i)'
    <2>1. adapterStages[i] = "stopping" => \E c \in adapterCalls' : Id[c.adapter] = i /\ c.at = "stopping"
      BY <1>1 DEF Told, NamedCalls
    <2>2. adapterStages[i] = "discovered" => i \in incapable' \/ \E c \in adapterCalls' : Id[c.adapter] = i /\ c.at = "describing"
      BY <1>1 DEF Told, NamedCalls
    <2> QED
      BY <1>1, <2>1, <2>2 DEF Told
  <1>4. CallsTold(i)'
    <2>1. ASSUME NEW c \in adapterCalls', Id[c.adapter] = i, c \notin adapterCalls PROVE c.at # "describing" /\ c \in news
      BY <2>1 DEF NamedCalls
    <2> QED
      BY <1>1, <2>1 DEF CallsTold
  <1> QED
    BY <1>2, <1>3, <1>4, AdapterChanges

LEMMA AdapterBegins ==
  ASSUME NEW a \in Adapters, NEW at, NEW doing, A!Begins(a, at, doing)
  PROVE  \E new : new.at = at /\ NamedCalls(Id[a], {}, {new})
  <1> PICK id : id = A!Min((1..MaxCalls) \ {c.id : c \in adapterCalls})
    OBVIOUS
  <1> DEFINE new == [id |-> id, adapter |-> a, at |-> at]
  <1>1. IsAdapterCall(new) /\ new.adapter = a /\ new.at = at
    BY DEF IsAdapterCall
  <1>2. adapterCalls' = (adapterCalls \ {}) \cup {new}
    BY DEF A!Begins
  <1> HIDE DEF new
  <1> QED
    BY <1>1, <1>2 DEF NamedCalls

LEMMA AdapterEnds ==
  ASSUME AdaptersInv, NEW c \in adapterCalls
  PROVE  /\ IsAdapterCall(c) /\ c.adapter \in Adapters /\ Id[c.adapter] \in Ids
         /\ c.at \notin {"identifying", "describing"} => registry[Id[c.adapter]] # Nothing
         /\ A!Ends(c) => NamedCalls(Id[c.adapter], {c}, {})
  <1>1. IsAdapterCall(c) /\ c.adapter \in Adapters /\ Id[c.adapter] \in Ids
    BY AdapterConstants DEF AdaptersInv, AdaptersType, IsAdapterCall
  <1>2. CallsTold(Id[c.adapter])
    BY <1>1 DEF AdaptersInv
  <1> QED
    BY <1>1, <1>2 DEF CallsTold, NamedCalls, A!Ends

\* Where a registered name goes that fails.
LEMMA FailedSettles ==
  ASSUME AdaptersInv, NEW i \in Ids, registry[i] # Nothing
  PROVE  /\ A!FailedStage(i) \in Settled /\ registry[i] \in Adapters /\ Id[registry[i]] = i
         /\ adapterStages[i] \in A!LifecycleStages \ {"discovered", "started"}
  <1>1. Told(i)
    BY DEF AdaptersInv
  <1>2. adapterStages[i] \in A!LifecycleStages \ {"discovered", "started"}
    BY <1>1 DEF Told
  <1>3. CASE A!Allowed(i, "failed")
    BY <1>1, <1>2, <1>3 DEF Told, A!FailedStage, Settled, A!LifecycleStages
  <1>4. CASE ~A!Allowed(i, "failed")
    <2>1. adapterStages[i] # "stopping"
      BY <1>4 DEF A!Allowed, A!LifecycleTransitions, A!LifecycleStages
    <2> QED
      BY <1>1, <1>2, <1>4, <2>1 DEF Told, A!FailedStage, Settled
  <1> QED
    BY <1>3, <1>4

LEMMA NoAdapterCalls == ASSUME NEW i, UNCHANGED adapterCalls PROVE NamedCalls(i, {}, {})
  BY DEF NamedCalls

\* A registered name is driven: a call of its adapter begins.
LEMMA DrivesKeeps ==
  ASSUME AdaptersInv, NEW i \in Ids, NEW at, at \notin {"identifying", "describing"}, NEW doing, A!Drives(i, at, doing)
  PROVE  AdaptersInv'
  <1>1. registry[i] # Nothing /\ A!Begins(registry[i], at, doing)
    BY DEF A!Drives, A!Registered
  <1> PICK a : a = registry[i]
    OBVIOUS
  <1>2. a \in Adapters /\ Id[a] = i
    BY <1>1, FailedSettles
  <1>6. A!Begins(a, at, doing)
    BY <1>1
  <1>7. \E new : new.at = at /\ NamedCalls(Id[a], {}, {new})
    BY <1>2, <1>6, AdapterBegins
  <1>3. PICK new : new.at = at /\ NamedCalls(i, {}, {new})
    BY <1>2, <1>7
  <1> PICK gone : gone = {}
    OBVIOUS
  <1> PICK news : news = {new}
    OBVIOUS
  <1>4. /\ \A n \in news : n.at # "describing" /\ (n.at # "identifying" => registry[i] # Nothing)
        /\ \A c \in gone : c.at # "stopping" /\ (c.at = "describing" => i \in incapable')
        /\ NamedCalls(i, gone, news)
    BY <1>1, <1>3
  <1>5. UNCHANGED <<registry, adapterStages, certification>> /\ incapable \subseteq incapable'
    BY DEF A!Drives, A!Quietly
  <1> QED
    BY <1>4, <1>5, IdlesKeeps

\* A registered name enters a stage where it settles, and no call begins.
LEMMA EnteredKeeps ==
  ASSUME AdaptersInv, NEW i \in Ids, registry[i] # Nothing, NEW stage \in Settled, A!Enters(i, stage),
         UNCHANGED <<registry, certification, incapable>>, NEW gone, NamedCalls(i, gone, {})
  PROVE  AdaptersInv'
  <1> PICK news : news = {}
    OBVIOUS
  <1>1. adapterStages' = [adapterStages EXCEPT ![i] = stage] /\ NamedCalls(i, gone, news) /\ \A n \in news : n.at # "describing"
    BY DEF A!Enters
  <1> QED
    BY <1>1, SettlesKeeps

LEMMA AdapterFails ==
  ASSUME AdaptersInv, NEW i \in Ids, registry[i] # Nothing, A!Fails(i)
  PROVE  AdaptersInv'
  <1> PICK gone : gone = {}
    OBVIOUS
  <1>1. NamedCalls(i, gone, {}) /\ UNCHANGED <<registry, certification, incapable>>
    BY NoAdapterCalls DEF A!Fails, A!Quietly
  <1>2. A!FailedStage(i) \in Settled /\ A!Enters(i, A!FailedStage(i))
    BY FailedSettles DEF A!Fails
  <1>3. PICK stage \in Settled : adapterStages' = [adapterStages EXCEPT ![i] = stage]
    BY <1>2 DEF A!Enters
  <1>4. \E news : NamedCalls(i, gone, news) /\ \A n \in news : n.at # "describing"
    BY <1>1
  <1> QED
    BY <1>1, <1>3, <1>4, SettlesKeeps


LEMMA RegisterKeeps ==
  ASSUME AdaptersInv, NEW a \in Adapters, A!Register(a)
  PROVE  AdaptersInv'
  <1> PICK doing : doing = backend[a]
    OBVIOUS
  <1>1. A!Begins(a, "identifying", doing)
    BY DEF A!Register
  <1>2. PICK new : new.at = "identifying" /\ NamedCalls(Id[a], {}, {new})
    BY <1>1, AdapterBegins
  <1> PICK gone : gone = {}
    OBVIOUS
  <1> PICK news : news = {new}
    OBVIOUS
  <1> PICK i : i = Id[a]
    OBVIOUS
  <1>3. /\ \A n \in news : n.at # "describing" /\ (n.at # "identifying" => registry[i] # Nothing)
        /\ \A c \in gone : c.at # "stopping" /\ (c.at = "describing" => i \in incapable')
        /\ NamedCalls(i, gone, news)
    BY <1>2
  <1>4. i \in Ids /\ UNCHANGED <<registry, adapterStages, certification>> /\ incapable \subseteq incapable'
    BY AdapterConstants DEF A!Register, A!Quietly
  <1> QED
    BY <1>3, <1>4, IdlesKeeps

\* A call ends, and leaves the name as it is.
LEMMA AnswerKeeps ==
  ASSUME AdaptersInv, NEW c \in adapterCalls, A!Ends(c), UNCHANGED <<registry, adapterStages, certification>>,
         incapable \subseteq incapable', c.at # "stopping", c.at = "describing" => Id[c.adapter] \in incapable'
  PROVE  AdaptersInv'
  <1> PICK gone : gone = {c}
    OBVIOUS
  <1> PICK news : news = {}
    OBVIOUS
  <1> PICK i : i = Id[c.adapter]
    OBVIOUS
  <1>1. i \in Ids /\ NamedCalls(i, gone, news)
    BY AdapterEnds
  <1>2. /\ \A n \in news : n.at # "describing" /\ (n.at # "identifying" => registry[i] # Nothing)
        /\ \A d \in gone : d.at # "stopping" /\ (d.at = "describing" => i \in incapable')
    OBVIOUS
  <1> QED
    BY <1>1, <1>2, IdlesKeeps

\* A call of a registered name ends, and the name enters a stage where it settles.
LEMMA AnsweredKeeps ==
  ASSUME AdaptersInv, NEW c \in adapterCalls, c.at \notin {"identifying", "describing"}, A!Ends(c), NEW stage \in Settled,
         A!Enters(Id[c.adapter], stage), UNCHANGED <<registry, certification, incapable>>
  PROVE  AdaptersInv'
  <1> PICK i : i = Id[c.adapter]
    OBVIOUS
  <1> PICK gone : gone = {c}
    OBVIOUS
  <1>1. i \in Ids /\ registry[i] # Nothing /\ NamedCalls(i, gone, {}) /\ A!Enters(i, stage)
    BY AdapterEnds
  <1> QED
    BY <1>1, EnteredKeeps

LEMMA IdentifiedKeeps ==
  ASSUME AdaptersInv, NEW c \in adapterCalls, A!Identified(c)
  PROVE  AdaptersInv'
  <1> DEFINE i == Id[c.adapter]
  <1>1. c.at = "identifying" /\ IsAdapterCall(c) /\ c.adapter \in Adapters /\ i \in Ids
    BY AdapterEnds DEF A!Identified
  <1>2. UNCHANGED <<registry, certification, incapable>>
    BY DEF A!Identified, A!Quietly
  <1>3. CASE A!Registered(i) \/ adapterStages[i] # Nothing
    <2>1. A!Ends(c) /\ UNCHANGED adapterStages
      BY <1>3 DEF A!Identified
    <2> QED
      BY <1>1, <1>2, <2>1, AnswerKeeps
  <1>4. CASE ~(A!Registered(i) \/ adapterStages[i] # Nothing)
    <2> DEFINE new == [c EXCEPT !.at = "describing"]
    <2>1. adapterStages' = [adapterStages EXCEPT ![i] = "discovered"] /\ adapterCalls' = (adapterCalls \ {c}) \cup {new}
      BY <1>4 DEF A!Identified, A!Goes, A!Enters
    <2>2. new = [id |-> c.id, adapter |-> c.adapter, at |-> "describing"]
      BY <1>1 DEF IsAdapterCall
    <2> HIDE DEF new
    <2>3. IsAdapterCall(new) /\ new.adapter = c.adapter /\ new.at = "describing"
      BY <1>1, <2>2 DEF IsAdapterCall
    <2> PICK j : j = i
      OBVIOUS
    <2>a. NamedCalls(j, {c}, {new})
      BY <2>1, <2>3 DEF NamedCalls
    <2>b. NamedChange(j)
      <3>1. registry' = [registry EXCEPT ![j] = registry[j]] /\ certification' = [certification EXCEPT ![j] = certification[j]]
        BY <1>2 DEF AdaptersInv, AdaptersType
      <3>2. adapterStages' = [adapterStages EXCEPT ![j] = "discovered"]
        BY <2>1
      <3>3. \E r : registry' = [registry EXCEPT ![j] = r]
        BY <3>1
      <3>4. \E v : certification' = [certification EXCEPT ![j] = v]
        BY <3>1
      <3>5. \E v : adapterStages' = [adapterStages EXCEPT ![j] = v]
        BY <3>2
      <3> QED
        BY <1>2, <3>3, <3>4, <3>5 DEF NamedChange
    <2>4. NamedCalls(j, {c}, {new}) /\ NamedChange(j)
      BY <2>a, <2>b
    <2>5. /\ adapterStages'[j] = "discovered" /\ adapterStages[j] = Nothing
          /\ registry[j] = Nothing /\ Told(j) /\ CallsTold(j)
      BY <1>1, <1>4, <2>1 DEF AdaptersInv, AdaptersType, A!Registered
    <2>6. "discovered" \in A!LifecycleStages \ {"started", "stopping"} /\ "discovered" # Nothing
      BY AdapterConstants DEF A!LifecycleStages
    <2>7. Told(j)'
      BY <1>2, <2>1, <2>3, <2>5, <2>6 DEF Told
    <2>8. ASSUME NEW d \in adapterCalls', Id[d.adapter] = j PROVE d = new \/ d.at = "identifying"
      <3>1. d = new \/ d \in adapterCalls
        BY <2>1
      <3>2. CASE d \in adapterCalls
        BY <2>5, <2>6, <2>8, <3>2 DEF CallsTold
      <3> QED
        BY <3>1, <3>2
    <2>9. CallsTold(j)'
      BY <2>3, <2>5, <2>8 DEF CallsTold
    <2> QED
      BY <1>1, <2>4, <2>7, <2>9, AdapterChanges
  <1> QED
    BY <1>3, <1>4

LEMMA DescribedKeeps ==
  ASSUME AdaptersInv, NEW c \in adapterCalls, A!Described(c)
  PROVE  AdaptersInv'
  <1> PICK i : i = Id[c.adapter]
    OBVIOUS
  <1>1. c.at = "describing" /\ IsAdapterCall(c) /\ c.adapter \in Adapters /\ i \in Ids /\ NamedCalls(i, {c}, {})
    BY AdapterEnds DEF A!Described
  <1>2. PICK status \in A!CertificationStatuses : certification' = [certification EXCEPT ![i] = status]
    BY DEF A!Described
  <1>3. /\ registry' = [registry EXCEPT ![i] = c.adapter] /\ adapterStages' = [adapterStages EXCEPT ![i] = "registered"]
        /\ incapable' = incapable
    BY DEF A!Described, A!Enters
  <1>4. NamedChange(i)
    BY <1>2, <1>3 DEF NamedChange
  <1>5. /\ registry'[i] = c.adapter /\ adapterStages'[i] = "registered" /\ certification'[i] = status
        /\ CallsTold(i)
    BY <1>1, <1>2, <1>3 DEF AdaptersInv, AdaptersType
  <1>6. Told(i)'
    BY <1>1, <1>5, AdapterConstants DEF Told, A!LifecycleStages
  <1>7. ASSUME NEW d \in adapterCalls', Id[d.adapter] = i PROVE d.at # "describing"
    BY <1>1, <1>5, <1>7 DEF CallsTold, NamedCalls
  <1>8. CallsTold(i)'
    BY <1>1, <1>5, <1>7, AdapterConstants DEF CallsTold
  <1> QED
    BY <1>1, <1>4, <1>6, <1>8, AdapterChanges

LEMMA CertifiedAdapter ==
  ASSUME AdaptersInv, NEW i \in Ids, NEW status \in A!CertificationStatuses, A!CertifyAdapter(i, status)
  PROVE  AdaptersInv'
  <1>1. /\ registry[i] # Nothing /\ certification' = [certification EXCEPT ![i] = status]
        /\ UNCHANGED <<registry, adapterStages, adapterCalls, incapable>>
    BY DEF A!CertifyAdapter, A!Registered
  <1>2. NamedCalls(i, {}, {}) /\ NamedChange(i)
    <2>1. /\ registry' = [registry EXCEPT ![i] = registry[i]]
          /\ adapterStages' = [adapterStages EXCEPT ![i] = adapterStages[i]]
      BY <1>1, NothingNamed
    <2>2. NamedChange(i)
      BY <1>1, <2>1, Zenon DEF NamedChange
    <2> QED
      BY <1>1, <2>2, NoAdapterCalls
  <1>3. certification'[i] = status /\ status # Nothing /\ Told(i) /\ CallsTold(i)
    BY <1>1, AdapterConstants DEF AdaptersInv, AdaptersType
  <1>4. Told(i)' /\ CallsTold(i)'
    BY <1>1, <1>3 DEF Told, CallsTold
  <1> QED
    BY <1>2, <1>4, AdapterChanges


\* The stage a call enters when the adapter has answered.
LEMMA EnteredSettles ==
  ASSUME NEW at \in DOMAIN A!Entered
  PROVE  /\ at \notin {"identifying", "describing"}
         /\ A!Entered[at] = "started" \/ A!Entered[at] \in Settled
  BY DEF A!Entered, Settled, A!LifecycleStages

LEMMA EndingKeeps ==
  ASSUME AdaptersInv, NEW c \in adapterCalls, A!Answered(c) \/ A!Invalid(c) \/ A!Throws(c)
  PROVE  AdaptersInv'
  <1> DEFINE i == Id[c.adapter]
  <1>1. c.at \notin {"identifying", "describing"}
    BY EnteredSettles DEF A!Answered, A!Invalid, A!Throws
  <1>2. A!Ends(c) /\ UNCHANGED <<registry, certification, incapable>>
    BY DEF A!Answered, A!Invalid, A!Throws, A!Quietly
  <1>3. i \in Ids /\ registry[i] # Nothing
    BY <1>1, AdapterEnds
  <1>4. A!FailedStage(i) \in Settled
    BY <1>3, FailedSettles
  <1>5. PICK stage \in Settled : A!Enters(i, stage)
    <2>1. "running" \in Settled /\ "rejected" \in Settled
      BY DEF Settled, A!LifecycleStages
    <2>2. CASE A!Answered(c)
      <3>1. A!Entered[c.at] = "started" \/ A!Entered[c.at] \in Settled
        BY <2>2, EnteredSettles DEF A!Answered
      <3>2. A!Enters(i, IF ~A!Allowed(i, A!Entered[c.at]) THEN A!FailedStage(i)
                        ELSE IF A!Entered[c.at] = "started" THEN "running" ELSE A!Entered[c.at])
        BY <2>2 DEF A!Answered
      <3> QED
        BY <1>4, <2>1, <3>1, <3>2
    <2>3. CASE A!Invalid(c)
      <3>1. A!Enters(i, IF A!Allowed(i, "rejected") THEN "rejected" ELSE A!FailedStage(i))
        BY <2>3 DEF A!Invalid
      <3> QED
        BY <1>4, <2>1, <3>1
    <2>4. CASE A!Throws(c)
      BY <1>4, <2>4 DEF A!Throws
    <2> QED
      BY <2>2, <2>3, <2>4
  <1> QED
    BY <1>1, <1>2, <1>5, AnsweredKeeps

LEMMA UnansweredKeeps ==
  ASSUME AdaptersInv, NEW c \in adapterCalls, A!Unanswered(c) \/ A!Measured(c)
  PROVE  AdaptersInv'
  <1>1. /\ A!Ends(c) /\ UNCHANGED <<registry, adapterStages, certification>>
        /\ incapable \subseteq incapable' /\ c.at # "stopping"
    BY DEF A!Unanswered, A!Measured, A!Quietly
  <1>2. c.at = "describing" => Id[c.adapter] \in incapable'
    BY DEF A!Unanswered, A!Measured
  <1> QED
    BY <1>1, <1>2, AnswerKeeps

LEMMA AdapterValidates ==
  ASSUME AdaptersInv, NEW i \in Ids, NEW r, A!Validate(i, r)
  PROVE  AdaptersInv'
  <1>1. registry[i] # Nothing /\ UNCHANGED <<registry, certification, incapable>>
    BY DEF A!Validate, A!Registered, A!Quietly
  <1>2. CASE A!Negotiated(registry[i], r)
    <2> PICK at : at = "validating"
      OBVIOUS
    <2> PICK doing : doing = backend[registry[i]]
      OBVIOUS
    <2>1. at \notin {"identifying", "describing"} /\ A!Drives(i, at, doing)
      BY <1>2 DEF A!Validate, A!Drives
    <2> QED
      BY <2>1, DrivesKeeps
  <1>3. CASE ~A!Negotiated(registry[i], r)
    <2>1. A!Enters(i, "rejected") /\ UNCHANGED adapterCalls
      BY <1>3 DEF A!Validate
    <2>2. PICK stage \in Settled : A!Enters(i, stage)
      BY <2>1 DEF Settled, A!LifecycleStages
    <2> PICK gone : gone = {}
      OBVIOUS
    <2>3. NamedCalls(i, gone, {})
      BY <2>1, NoAdapterCalls
    <2> QED
      BY <1>1, <2>2, <2>3, EnteredKeeps
  <1> QED
    BY <1>2, <1>3

\* stop() and restart() leave the running stage before they call the adapter.
LEMMA AdapterStops ==
  ASSUME AdaptersInv, NEW i \in Ids, A!Stop(i)
  PROVE  AdaptersInv'
  <1>1. registry[i] # Nothing /\ Told(i) /\ CallsTold(i)
    BY DEF A!Stop, A!Registered, AdaptersInv
  <1>2. CASE ~A!Allowed(i, "stopping")
    <2>1. A!Fails(i)
      BY <1>2 DEF A!Stop
    <2> QED
      BY <1>1, <2>1, AdapterFails
  <1>3. CASE A!Allowed(i, "stopping")
    <2> PICK a : a = registry[i]
      OBVIOUS
    <2>1. A!Begins(a, "stopping", "idle") /\ a \in Adapters /\ Id[a] = i
      BY <1>1, <1>3 DEF A!Stop, Told
    <2>2. \E new : new.at = "stopping" /\ NamedCalls(Id[a], {}, {new})
      BY <2>1, AdapterBegins
    <2>3. PICK new : new.at = "stopping" /\ NamedCalls(i, {}, {new})
      BY <2>1, <2>2
    <2>4. /\ adapterStages' = [adapterStages EXCEPT ![i] = "stopping"]
          /\ UNCHANGED <<registry, certification, incapable>>
      BY <1>3 DEF A!Stop, A!Enters, A!Quietly
    <2>5. NamedChange(i) /\ adapterStages'[i] = "stopping"
      <3>1. /\ registry' = [registry EXCEPT ![i] = registry[i]]
            /\ certification' = [certification EXCEPT ![i] = certification[i]]
        BY <2>4, NothingNamed
      <3>2. NamedChange(i)
        BY <2>4, <3>1, Zenon DEF NamedChange
      <3> QED
        BY <2>4, <3>2 DEF AdaptersInv, AdaptersType
    <2>6. new \in adapterCalls' /\ Id[new.adapter] = i
      BY <2>3 DEF NamedCalls
    <2>7. "stopping" \in A!LifecycleStages \ {"started", "discovered"} /\ "stopping" # Nothing
      BY AdapterConstants DEF A!LifecycleStages
    <2>8. Told(i)'
      BY <1>1, <2>3, <2>4, <2>5, <2>6, <2>7 DEF Told
    <2>9. ASSUME NEW c \in adapterCalls', Id[c.adapter] = i PROVE c.at # "describing"
      BY <1>1, <2>3, <2>9 DEF NamedCalls, Told, CallsTold
    <2>10. CallsTold(i)'
      BY <1>1, <2>4, <2>9 DEF CallsTold
    <2> QED
      BY <2>3, <2>5, <2>8, <2>10, AdapterChanges
  <1> QED
    BY <1>2, <1>3

LEMMA AdapterRestarts ==
  ASSUME AdaptersInv, NEW i \in Ids, A!Restart(i)
  PROVE  AdaptersInv'
  <1>1. registry[i] # Nothing /\ UNCHANGED <<registry, certification, incapable>>
    BY DEF A!Restart, A!Registered, A!Quietly
  <1>2. adapterStages[i] \in A!LifecycleStages \ {"discovered", "started"}
    BY <1>1, FailedSettles
  <1>3. PICK stage \in Settled : adapterStages' = [adapterStages EXCEPT ![i] = stage]
    <2>1. A!Enters(i, IF adapterStages[i] \in {"running", "started", "stopping"} THEN "stopped" ELSE adapterStages[i])
      BY DEF A!Restart
    <2>2. "stopped" \in Settled
      BY DEF Settled, A!LifecycleStages
    <2> QED
      BY <1>2, <2>1, <2>2 DEF Settled, A!Enters
  <1> PICK a : a = registry[i]
    OBVIOUS
  <1>4. A!Begins(a, "restarting", "running") /\ a \in Adapters /\ Id[a] = i
    BY <1>1, FailedSettles DEF A!Restart
  <1>5. \E new : new.at = "restarting" /\ NamedCalls(Id[a], {}, {new})
    BY <1>4, AdapterBegins
  <1> PICK gone : gone = {}
    OBVIOUS
  <1>6. \E news : NamedCalls(i, gone, news) /\ \A n \in news : n.at # "describing"
    BY <1>4, <1>5
  <1> QED
    BY <1>1, <1>3, <1>6, SettlesKeeps

LEMMA OperatedKeeps ==
  ASSUME AdaptersInv, NEW i \in Ids,
         \/ A!Configure(i) \/ A!Prepare(i) \/ A!Start(i) \/ A!Cleanup(i) \/ A!CollectStatistics(i)
  PROVE  AdaptersInv'
  <1>1. \/ registry[i] # Nothing /\ A!Fails(i)
        \/ \E at, doing : at \notin {"identifying", "describing"} /\ A!Drives(i, at, doing)
    BY DEF A!Configure, A!Prepare, A!Start, A!Cleanup, A!CollectStatistics, A!Registered
  <1>2. CASE registry[i] # Nothing /\ A!Fails(i)
    BY <1>2, AdapterFails
  <1>3. ASSUME NEW at, NEW doing, at \notin {"identifying", "describing"}, A!Drives(i, at, doing) PROVE AdaptersInv'
    BY <1>3, DrivesKeeps
  <1> QED
    BY <1>1, <1>2, <1>3

LEMMA AdaptersStay ==
  ASSUME AdaptersInv, UNCHANGED <<registry, adapterStages, certification, adapterCalls, incapable>>
  PROVE  AdaptersInv'
  BY DEF AdaptersInv, AdaptersType, Told, CallsTold

LEMMA AdaptersStep == AdaptersInv /\ (A!Next \/ UNCHANGED adapterVars) => AdaptersInv'
  <1> SUFFICES ASSUME AdaptersInv, A!Next \/ UNCHANGED adapterVars
               PROVE  AdaptersInv'
    OBVIOUS
  <1>1. CASE UNCHANGED adapterVars
    BY <1>1, AdaptersStay DEF adapterVars
  <1>2. ASSUME NEW a \in Adapters, A!Register(a) PROVE AdaptersInv'
    BY <1>2, RegisterKeeps
  <1>3. ASSUME NEW i \in Ids,
               \/ A!Configure(i) \/ A!Prepare(i) \/ A!Start(i) \/ A!Cleanup(i) \/ A!CollectStatistics(i)
               \/ A!PauseOrResume(i) \/ A!Stop(i) \/ A!Restart(i) \/ A!Recover(i)
        PROVE  AdaptersInv'
    <2>1. CASE A!PauseOrResume(i)
      BY <2>1, AdaptersStay DEF A!PauseOrResume, A!Quietly
    <2>2. CASE A!Recover(i)
      BY <2>2, AdapterRestarts DEF A!Recover
    <2> QED
      BY <1>3, <2>1, <2>2, OperatedKeeps, AdapterStops, AdapterRestarts
  <1>4. ASSUME NEW i \in Ids, NEW status \in A!CertificationStatuses, A!CertifyAdapter(i, status) PROVE AdaptersInv'
    BY <1>4, CertifiedAdapter
  <1>5. ASSUME NEW i \in Ids, NEW r \in Negotiations, A!Validate(i, r) PROVE AdaptersInv'
    BY <1>5, AdapterValidates
  <1>6. ASSUME NEW c \in adapterCalls,
               \/ A!Identified(c) \/ A!Described(c) \/ A!Unanswered(c) \/ A!Answered(c) \/ A!Invalid(c) \/ A!Measured(c)
               \/ A!Throws(c)
        PROVE  AdaptersInv'
    BY <1>6, IdentifiedKeeps, DescribedKeeps, UnansweredKeeps, EndingKeeps
  <1> QED
    BY <1>1, <1>2, <1>3, <1>4, <1>5, <1>6 DEF A!Next



----------------------------------------------------------------------------
(* Instances of plugins.  What a call moves on has that call, and the name of  *)
(* what is not unloaded is taken.                                              *)

IsPluginCall(c) == c = [id |-> c.id, of |-> c.of, at |-> c.at] /\ c.of \in Instances
\* What an instance may be in without a call.
AtRest == (G!RuntimeStages \ {"discovered", "validated", "initialized", "stopping"}) \cup {Nothing}

Kept(i) ==
  /\ stages[i] \in (G!RuntimeStages \ {"validated"}) \cup {Nothing}
  /\ stages[i] = "discovered" => \E c \in pluginCalls : c.of = i /\ c.at = "gate"
  /\ stages[i] = "initialized" => \E c \in pluginCalls : c.of = i /\ c.at = "readying"
  /\ stages[i] = "stopping" => \E c \in pluginCalls : c.of = i /\ c.at = "stop"
  /\ stages[i] \in G!RuntimeStages \ {"unloaded"} => filed[Name[i]] = i
InstancesType ==
  /\ filed = [n \in {Name[i] : i \in Instances} |-> filed[n]] /\ stages = [i \in Instances |-> stages[i]]
  /\ \A c \in pluginCalls : IsPluginCall(c)
InstancesInv == InstancesType /\ \A i \in Instances : Kept(i)

LEMMA InstanceConstants == Nothing \notin Instances /\ Nothing \notin G!RuntimeStages
  BY OperationsAssumption DEF OperationsAssumption, G!MiningPluginRuntimeAssumption

LEMMA InstancesStart == G!Init => InstancesInv
  BY InstanceConstants DEF G!Init, InstancesInv, InstancesType, Kept, G!RuntimeStages

LEMMA InstancesTell == ASSUME InstancesInv PROVE G!NoneLeftBehind
  BY InstanceConstants DEF InstancesInv, Kept, G!NoneLeftBehind, G!Control, G!RuntimeStages

InstanceCalls(i, gone, news) ==
  /\ pluginCalls' = (pluginCalls \ gone) \cup news
  /\ \A c \in gone : c.of = i
  /\ \A c \in news : IsPluginCall(c) /\ c.of = i
\* What becomes of the names takes none from another instance.
NamesKeep(i) ==
  /\ filed' = [n \in {Name[j] : j \in Instances} |-> filed'[n]]
  /\ \A j \in Instances \ {i} : filed[Name[j]] = j => filed'[Name[j]] = j

LEMMA InstanceChanges ==
  ASSUME InstancesInv, NEW i \in Instances, NEW stage, stages' = [stages EXCEPT ![i] = stage],
         NEW gone, NEW news, InstanceCalls(i, gone, news), NamesKeep(i), Kept(i)'
  PROVE  InstancesInv'
  <1>1. InstancesType'
    BY DEF InstancesInv, InstancesType, InstanceCalls, NamesKeep
  <1>2. ASSUME NEW j \in Instances, j # i PROVE Kept(j)'
    <2>1. stages'[j] = stages[j] /\ (filed[Name[j]] = j => filed'[Name[j]] = j)
      BY <1>2 DEF InstancesInv, InstancesType, NamesKeep
    <2>2. \A c \in pluginCalls : c.of = j => c \in pluginCalls'
      BY <1>2 DEF InstanceCalls
    <2>3. Kept(j)
      BY DEF InstancesInv
    <2> QED
      BY <2>1, <2>2, <2>3 DEF Kept
  <1>3. \A j \in Instances : Kept(j)'
    BY <1>2
  <1> QED
    BY <1>1, <1>3 DEF InstancesInv

\* The instance comes to rest.
LEMMA RestsKeeps ==
  ASSUME InstancesInv, NEW i \in Instances, NEW stage \in AtRest, G!Enters(i, stage),
         stage \in {Nothing, "unloaded"} \/ filed'[Name[i]] = i,
         NEW gone, NEW news, InstanceCalls(i, gone, news), NamesKeep(i)
  PROVE  InstancesInv'
  <1>1. stages' = [stages EXCEPT ![i] = stage] /\ stages'[i] = stage
    BY DEF G!Enters, InstancesInv, InstancesType
  <1>2. Kept(i)'
    BY <1>1, InstanceConstants DEF Kept, AtRest, G!RuntimeStages
  <1> QED
    BY <1>1, <1>2, InstanceChanges

\* Calls come and go, but none that the stage waits for goes.
LEMMA InstancePasses ==
  ASSUME InstancesInv, NEW i \in Instances, UNCHANGED <<filed, stages>>, NEW gone, NEW news, InstanceCalls(i, gone, news),
         gone = {} \/ stages[i] \in AtRest
  PROVE  InstancesInv'
  <1> PICK stage : stages' = [stages EXCEPT ![i] = stage]
    BY DEF InstancesInv, InstancesType
  <1>1. NamesKeep(i)
    BY DEF NamesKeep, InstancesInv, InstancesType
  <1>2. Kept(i)
    BY DEF InstancesInv
  <1>3. CASE gone = {}
    <2>1. \A c \in pluginCalls : c \in pluginCalls'
      BY <1>3 DEF InstanceCalls
    <2>2. Kept(i)'
      BY <1>2, <2>1 DEF Kept
    <2> QED
      BY <1>1, <2>2, InstanceChanges
  <1>4. CASE stages[i] \in AtRest
    <2>1. Kept(i)'
      BY <1>2, <1>4, InstanceConstants DEF Kept, AtRest, G!RuntimeStages
    <2> QED
      BY <1>1, <2>1, InstanceChanges
  <1> QED
    BY <1>3, <1>4

LEMMA FailedRests ==
  ASSUME InstancesInv, NEW i \in Instances
  PROVE  G!FailedStage(i) \in AtRest /\ (G!FailedStage(i) \in {Nothing, "unloaded"} \/ filed[Name[i]] = i)
  <1>1. Kept(i)
    BY DEF InstancesInv
  <1>2. CASE G!Allowed(i, "failed")
    <2>1. stages[i] \in G!RuntimeStages \ {"unloaded"}
      BY <1>2 DEF G!Allowed, G!RuntimeTransitions, G!RuntimeStages
    <2> QED
      BY <1>1, <1>2, <2>1 DEF Kept, G!FailedStage, AtRest, G!RuntimeStages
  <1>3. CASE ~G!Allowed(i, "failed")
    <2>1. stages[i] \notin G!RuntimeStages \ {"unloaded", "failed"}
      BY <1>3 DEF G!Allowed, G!RuntimeTransitions, G!RuntimeStages
    <2> QED
      BY <1>1, <1>3, <2>1 DEF Kept, G!FailedStage, AtRest, G!RuntimeStages
  <1> QED
    BY <1>2, <1>3

LEMMA InstanceBegins ==
  ASSUME NEW i \in Instances, NEW at, G!Begins(i, at)
  PROVE  \E new : new.at = at /\ InstanceCalls(i, {}, {new})
  <1> PICK id : id = G!Min((1..MaxPluginCalls) \ {c.id : c \in pluginCalls})
    OBVIOUS
  <1> DEFINE new == [id |-> id, of |-> i, at |-> at]
  <1>1. IsPluginCall(new) /\ new.of = i /\ new.at = at
    BY DEF IsPluginCall
  <1>2. pluginCalls' = (pluginCalls \ {}) \cup {new}
    BY DEF G!Begins
  <1> HIDE DEF new
  <1> QED
    BY <1>1, <1>2 DEF InstanceCalls

LEMMA NamesStay == ASSUME InstancesInv, NEW i, UNCHANGED filed PROVE NamesKeep(i)
  BY DEF NamesKeep, InstancesInv, InstancesType

LEMMA NoInstanceCalls == ASSUME NEW i, UNCHANGED pluginCalls PROVE InstanceCalls(i, {}, {})
  BY DEF InstanceCalls


LEMMA LoadKeeps ==
  ASSUME InstancesInv, NEW i \in Instances, G!Load(i)
  PROVE  InstancesInv'
  <1>1. filed[Name[i]] = Nothing /\ filed' = [filed EXCEPT ![Name[i]] = i]
    BY DEF G!Load
  <1>2. filed'[Name[i]] = i /\ NamesKeep(i)
    BY <1>1, InstanceConstants DEF NamesKeep, InstancesInv, InstancesType
  <1>3. CASE G!Enters(i, "failed") /\ UNCHANGED pluginCalls
    <2>1. PICK stage \in AtRest : stage = "failed" /\ G!Enters(i, stage)
      BY <1>3 DEF AtRest, G!RuntimeStages
    <2> PICK gone : gone = {}
      OBVIOUS
    <2>2. InstanceCalls(i, gone, gone) /\ (stage \in {Nothing, "unloaded"} \/ filed'[Name[i]] = i)
      BY <1>2, <1>3, NoInstanceCalls
    <2>3. G!Enters(i, stage)
      BY <2>1
    <2> QED
      BY <1>2, <2>2, <2>3, RestsKeeps
  <1>4. CASE G!Enters(i, "discovered") /\ G!Begins(i, "gate")
    <2>1. PICK new : new.at = "gate" /\ InstanceCalls(i, {}, {new})
      BY <1>4, InstanceBegins
    <2>2. stages' = [stages EXCEPT ![i] = "discovered"] /\ stages'[i] = "discovered"
      BY <1>4 DEF G!Enters, InstancesInv, InstancesType
    <2>3. new \in pluginCalls' /\ new.of = i
      BY <2>1 DEF InstanceCalls
    <2>4. Kept(i)'
      BY <1>2, <2>1, <2>2, <2>3 DEF Kept, G!RuntimeStages
    <2> QED
      BY <1>2, <2>1, <2>2, <2>4, InstanceChanges
  <1> QED
    BY <1>3, <1>4 DEF G!Load

\* An instance fails, with the end of a call or without.
LEMMA InstanceFails ==
  ASSUME InstancesInv, NEW i \in Instances, G!Enters(i, G!FailedStage(i)), UNCHANGED filed,
         NEW gone, NEW news, InstanceCalls(i, gone, news)
  PROVE  InstancesInv'
  <1>1. PICK stage \in AtRest : G!Enters(i, stage) /\ (stage \in {Nothing, "unloaded"} \/ filed'[Name[i]] = i)
    BY FailedRests
  <1>2. NamesKeep(i)
    BY NamesStay
  <1> QED
    BY <1>1, <1>2, RestsKeeps

LEMMA AnInstanceCall ==
  ASSUME InstancesInv, NEW c \in pluginCalls
  PROVE  IsPluginCall(c) /\ c.of \in Instances /\ Kept(c.of) /\ (G!Ends(c) => InstanceCalls(c.of, {c}, {}))
  BY DEF InstancesInv, InstancesType, IsPluginCall, InstanceCalls, G!Ends

LEMMA ThrowsKeeps ==
  ASSUME InstancesInv, NEW c \in pluginCalls, G!Ends(c), G!Enters(c.of, G!FailedStage(c.of)), UNCHANGED filed
  PROVE  InstancesInv'
  <1> PICK i : i = c.of
    OBVIOUS
  <1> PICK gone : gone = {c}
    OBVIOUS
  <1> PICK news : news = {}
    OBVIOUS
  <1>1. i \in Instances /\ InstanceCalls(i, gone, news) /\ G!Enters(i, G!FailedStage(i))
    BY AnInstanceCall
  <1> QED
    BY <1>1, InstanceFails

LEMMA FailKeeps ==
  ASSUME InstancesInv, NEW i \in Instances, G!Enters(i, G!FailedStage(i)), UNCHANGED <<filed, pluginCalls>>
  PROVE  InstancesInv'
  <1> PICK gone : gone = {}
    OBVIOUS
  <1>1. InstanceCalls(i, gone, gone) /\ UNCHANGED filed
    BY NoInstanceCalls
  <1> QED
    BY <1>1, InstanceFails

LEMMA GatedKeeps ==
  ASSUME InstancesInv, NEW c \in pluginCalls, G!Gated(c)
  PROVE  InstancesInv'
  <1>1. G!Ends(c) /\ UNCHANGED filed
    BY DEF G!Gated
  <1>2. CASE G!Enters(c.of, G!FailedStage(c.of))
    BY <1>1, <1>2, ThrowsKeeps
  <1>3. CASE G!Enters(c.of, "loaded") /\ G!Allowed(c.of, "validated")
    <2> PICK i : i = c.of
      OBVIOUS
    <2>1. i \in Instances /\ Kept(i) /\ NamesKeep(i)
      BY <1>1, AnInstanceCall, NamesStay
    <2>2. stages[i] = "discovered"
      BY <1>3 DEF G!Allowed, G!RuntimeTransitions, G!RuntimeStages
    <2>3. filed'[Name[i]] = i
      BY <1>1, <2>1, <2>2 DEF Kept, G!RuntimeStages
    <2>4. PICK stage \in AtRest : stage = "loaded"
      BY DEF AtRest, G!RuntimeStages
    <2>5. G!Enters(i, stage) /\ (stage \in {Nothing, "unloaded"} \/ filed'[Name[i]] = i)
      BY <1>3, <2>3, <2>4
    <2> PICK gone : gone = {c}
      OBVIOUS
    <2> PICK news : news = {}
      OBVIOUS
    <2>6. InstanceCalls(i, gone, news)
      BY <1>1, AnInstanceCall
    <2> QED
      BY <2>1, <2>5, <2>6, RestsKeeps
  <1> QED
    BY <1>2, <1>3 DEF G!Gated

LEMMA InvokeKeeps ==
  ASSUME InstancesInv, NEW i \in Instances, NEW at, G!Invoke(i, at)
  PROVE  InstancesInv'
  <1>1. CASE i \in hosted
    <2>1. G!Begins(i, at) /\ UNCHANGED <<filed, stages>>
      BY <1>1 DEF G!Invoke
    <2> PICK gone : gone = {}
      OBVIOUS
    <2>2. PICK news : InstanceCalls(i, gone, news)
      BY <2>1, InstanceBegins
    <2>3. gone = {} \/ stages[i] \in AtRest
      OBVIOUS
    <2> QED
      BY <2>1, <2>2, <2>3, InstancePasses
  <1>2. CASE i \notin hosted
    <2>1. G!Enters(i, G!FailedStage(i)) /\ UNCHANGED <<filed, pluginCalls>>
      BY <1>2 DEF G!Invoke
    <2> QED
      BY <2>1, FailKeeps
  <1> QED
    BY <1>1, <1>2

LEMMA InstanceStops ==
  ASSUME InstancesInv, NEW i \in Instances, G!Stop(i)
  PROVE  InstancesInv'
  <1>1. filed[Name[i]] = i /\ UNCHANGED filed /\ G!Begins(i, "stop")
    BY DEF G!Stop, G!Control
  <1>2. PICK new : new.at = "stop" /\ InstanceCalls(i, {}, {new})
    BY <1>1, InstanceBegins
  <1>3. stages' = [stages EXCEPT ![i] = "stopping"] /\ stages'[i] = "stopping"
    BY DEF G!Stop, G!Enters, InstancesInv, InstancesType
  <1>4. new \in pluginCalls' /\ new.of = i /\ NamesKeep(i)
    BY <1>1, <1>2, NamesStay DEF InstanceCalls
  <1>5. Kept(i)'
    BY <1>1, <1>2, <1>3, <1>4 DEF Kept, G!RuntimeStages
  <1> QED
    BY <1>2, <1>3, <1>4, <1>5, InstanceChanges

LEMMA ReadiedKeeps ==
  ASSUME InstancesInv, NEW c \in pluginCalls, G!Readied(c)
  PROVE  InstancesInv'
  <1> PICK i : i = c.of
    OBVIOUS
  <1> PICK gone : gone = {c}
    OBVIOUS
  <1> PICK news : news = {}
    OBVIOUS
  <1>1. i \in Instances /\ Kept(i) /\ NamesKeep(i) /\ InstanceCalls(i, gone, news) /\ UNCHANGED filed
    BY AnInstanceCall, NamesStay DEF G!Readied
  <1>2. CASE G!Allowed(i, "ready")
    <2>1. stages[i] = "initialized"
      BY <1>2 DEF G!Allowed, G!RuntimeTransitions, G!RuntimeStages
    <2>2. filed'[Name[i]] = i
      BY <1>1, <2>1 DEF Kept, G!RuntimeStages
    <2>3. PICK stage \in AtRest : stage = "ready"
      BY DEF AtRest, G!RuntimeStages
    <2>4. G!Enters(i, stage) /\ (stage \in {Nothing, "unloaded"} \/ filed'[Name[i]] = i)
      BY <1>2, <2>2, <2>3 DEF G!Readied
    <2> QED
      BY <1>1, <2>4, RestsKeeps
  <1>3. CASE ~G!Allowed(i, "ready")
    <2>1. UNCHANGED <<filed, stages>>
      BY <1>1, <1>3 DEF G!Readied
    <2>2. stages[i] # "initialized"
      BY <1>3 DEF G!Allowed, G!RuntimeTransitions
    <2>3. ASSUME NEW at \in {"gate", "stop"} PROVE \A d \in pluginCalls : d.of = i /\ d.at = at => d \in pluginCalls'
      BY <1>1, <2>3 DEF InstanceCalls, G!Readied
    <2>4. Kept(i)'
      BY <1>1, <2>1, <2>2, <2>3 DEF Kept
    <2> PICK stage : stages' = [stages EXCEPT ![i] = stage]
      BY <2>1 DEF InstancesInv, InstancesType
    <2> QED
      BY <1>1, <2>4, InstanceChanges
  <1> QED
    BY <1>2, <1>3

LEMMA InvokedKeeps ==
  ASSUME InstancesInv, NEW c \in pluginCalls, G!Invoked(c)
  PROVE  InstancesInv'
  <1> PICK i : i = c.of
    OBVIOUS
  <1>1. i \in Instances /\ Kept(i) /\ IsPluginCall(c)
    BY AnInstanceCall
  <1>2. /\ G!Enters(i, IF G!Allowed(i, G!Target[c.at]) THEN G!Target[c.at] ELSE G!FailedStage(i))
        /\ c.at \in {"initialize", "start", "pause", "resume", "stop", "unload"}
    BY DEF G!Invoked, G!Target
  <1> PICK gone : gone = {c}
    OBVIOUS
  <1>3. PICK news : /\ InstanceCalls(i, gone, news)
                    /\ c.at = "initialize" /\ G!Allowed(i, "initialized") => \E n \in news : n.at = "readying"
    <2> DEFINE new == [c EXCEPT !.at = "readying"]
    <2>1. pluginCalls' = (pluginCalls \ {c}) \cup (IF c.at = "initialize" /\ G!Allowed(i, "initialized") THEN {new} ELSE {})
      BY DEF G!Invoked
    <2>2. new = [id |-> c.id, of |-> c.of, at |-> "readying"]
      BY <1>1 DEF IsPluginCall
    <2> HIDE DEF new
    <2>3. IsPluginCall(new) /\ new.of = i /\ new.at = "readying"
      BY <1>1, <2>2 DEF IsPluginCall
    <2>4. CASE c.at = "initialize" /\ G!Allowed(i, "initialized")
      <3>1. InstanceCalls(i, gone, {new})
        BY <2>1, <2>3, <2>4 DEF InstanceCalls
      <3> QED
        BY <2>3, <3>1
    <2>5. CASE ~(c.at = "initialize" /\ G!Allowed(i, "initialized"))
      <3>1. InstanceCalls(i, gone, {})
        BY <2>1, <2>5 DEF InstanceCalls
      <3> QED
        BY <2>5, <3>1
    <2> QED
      BY <2>4, <2>5
  <1>4. CASE c.at = "unload" /\ G!Allowed(i, "unloaded")
    <2>1. filed' = [filed EXCEPT ![Name[i]] = Nothing]
      BY <1>4 DEF G!Invoked, G!Unfiles
    <2>2. filed[Name[i]] = i
      BY <1>1, <1>4 DEF Kept, G!Allowed, G!RuntimeTransitions, G!RuntimeStages
    <2>3. NamesKeep(i)
      BY <2>1, <2>2 DEF NamesKeep, InstancesInv, InstancesType
    <2>4. G!Enters(i, "unloaded")
      BY <1>2, <1>4 DEF G!Target
    <2>5. PICK stage \in AtRest : stage = "unloaded"
      BY DEF AtRest, G!RuntimeStages
    <2>6. G!Enters(i, stage) /\ (stage \in {Nothing, "unloaded"} \/ filed'[Name[i]] = i)
      BY <2>4, <2>5
    <2> QED
      BY <1>1, <1>3, <2>3, <2>6, RestsKeeps
  <1>5. CASE ~(c.at = "unload" /\ G!Allowed(i, "unloaded"))
    <2>1. UNCHANGED filed
      BY <1>5 DEF G!Invoked, G!Unfiles
    <2>2. CASE ~G!Allowed(i, G!Target[c.at])
      <3>1. G!Enters(i, G!FailedStage(i))
        BY <1>2, <2>2
      <3> QED
        BY <1>1, <1>3, <2>1, <3>1, InstanceFails
    <2>3. CASE G!Allowed(i, G!Target[c.at])
      <3>1. filed'[Name[i]] = i /\ NamesKeep(i)
        <4>1. stages[i] \in G!RuntimeStages \ {"unloaded"}
          BY <2>3 DEF G!Allowed, G!RuntimeTransitions, G!RuntimeStages
        <4> QED
          BY <1>1, <2>1, <4>1, NamesStay DEF Kept
      <3>2. CASE c.at = "initialize"
        <4>1. stages' = [stages EXCEPT ![i] = "initialized"] /\ stages'[i] = "initialized" /\ G!Allowed(i, "initialized")
          BY <1>1, <1>2, <2>3, <3>2 DEF G!Target, G!Enters, InstancesInv, InstancesType
        <4>2. \E n \in pluginCalls' : n.of = i /\ n.at = "readying"
          BY <1>3, <3>2, <4>1 DEF InstanceCalls
        <4>3. Kept(i)'
          BY <3>1, <4>1, <4>2 DEF Kept, G!RuntimeStages
        <4> QED
          BY <1>1, <1>3, <3>1, <4>1, <4>3, InstanceChanges
      <3>3. CASE c.at # "initialize"
        <4>1. G!Target[c.at] \in AtRest
          <5>1. c.at \in {"start", "pause", "resume", "stop", "unload"}
            BY <1>2, <3>3
          <5> QED
            BY <5>1 DEF G!Target, AtRest, G!RuntimeStages
        <4>2. PICK stage \in AtRest : G!Enters(i, stage)
          BY <1>2, <2>3, <4>1
        <4> QED
          BY <1>1, <1>3, <3>1, <4>2, RestsKeeps
      <3> QED
        BY <3>2, <3>3
    <2> QED
      BY <2>2, <2>3
  <1> QED
    BY <1>4, <1>5

LEMMA InstancesStep == InstancesInv /\ (G!Next \/ UNCHANGED pluginVars) => InstancesInv'
  <1> SUFFICES ASSUME InstancesInv, G!Next \/ UNCHANGED pluginVars
               PROVE  InstancesInv'
    OBVIOUS
  <1>1. CASE UNCHANGED <<filed, stages, pluginCalls>>
    BY <1>1 DEF InstancesInv, InstancesType, Kept
  <1>2. ASSUME NEW i \in Instances,
               \/ G!Load(i) \/ G!Initialize(i) \/ G!Start(i) \/ G!Pause(i) \/ G!Resume(i) \/ G!Stop(i) \/ G!Unload(i)
               \/ G!Fail(i)
        PROVE  InstancesInv'
    <2>1. CASE G!Initialize(i) \/ G!Start(i) \/ G!Pause(i) \/ G!Resume(i) \/ G!Unload(i)
      BY <2>1, InvokeKeeps DEF G!Initialize, G!Start, G!Pause, G!Resume, G!Unload
    <2>2. CASE G!Fail(i)
      <3>1. G!Enters(i, G!FailedStage(i)) /\ UNCHANGED <<filed, pluginCalls>>
        BY <2>2 DEF G!Fail
      <3> QED
        BY <3>1, FailKeeps
    <2> QED
      BY <1>2, <2>1, <2>2, LoadKeeps, InstanceStops
  <1>3. ASSUME NEW c \in pluginCalls, G!GateThrows(c) \/ G!EntrypointThrows(c) PROVE InstancesInv'
    <2>1. G!Ends(c) /\ G!Enters(c.of, G!FailedStage(c.of)) /\ UNCHANGED filed
      BY <1>3 DEF G!GateThrows, G!EntrypointThrows
    <2> QED
      BY <2>1, ThrowsKeeps
  <1>4. ASSUME NEW c \in pluginCalls, G!Gated(c) \/ G!Invoked(c) \/ G!Readied(c) PROVE InstancesInv'
    BY <1>4, GatedKeeps, InvokedKeeps, ReadiedKeeps
  <1> QED
    BY <1>1, <1>2, <1>3, <1>4 DEF G!Next, G!RuntimeNext, G!runtimeVars, pluginVars

(* NoneLeftBehind (core/miner_process_manager: launch(), stop(), terminate() and restart(); core/
   mining_adapter_framework: registerAdapter(), stop() and restart(); core/mining_plugin_runtime: load(),
   initialize() and stop()): however the calls of a process, an adapter or an instance overlap, what is on
   the way has a call, or a kill that was rejected, that accounts for it. *)
THEOREM NobodyIsLeftBehind == OperationsSpec => []NoneLeftBehind
  <1> DEFINE Inv == ProcessesInv /\ AdaptersInv /\ InstancesInv
  <1>1. OperationsInit => Inv
    BY ProcessesStart, AdaptersStart, InstancesStart DEF OperationsInit
  <1>2. Inv /\ [OperationsNext]_operationsVars => Inv'
    <2>1. [OperationsNext]_operationsVars => /\ P!Next \/ UNCHANGED processVars
                                             /\ A!Next \/ UNCHANGED adapterVars
                                             /\ G!Next \/ UNCHANGED pluginVars
      BY DEF OperationsNext, operationsVars
    <2> QED
      BY <2>1, ProcessesStep, AdaptersStep, InstancesStep
  <1>3. Inv => NoneLeftBehind
    BY ProcessesTell, AdaptersTell, InstancesTell DEF NoneLeftBehind
  <1> QED
    BY <1>1, <1>2, <1>3, PTL DEF OperationsSpec



----------------------------------------------------------------------------
(* Arbitration.  A request has been seen since it asks, so that the scores tell *)
(* who asked first; the winner of a round has the best of the scores.           *)

LEMMA Least ==
  ASSUME NEW X \in SUBSET Nat, X # {}
  PROVE  \E m \in X : \A n \in X : m <= n
  <1>1. PICK m \in X : \A n \in X : ~(<<n, m>> \in OpToRel(<, Nat))
    BY NatLessThanWellFounded, WFMin
  <1>2. \A n \in X : ~(n < m)
    BY <1>1 DEF OpToRel
  <1> QED
    BY <1>2

\* Of finitely many numbered requests with their scores one is the best.
IsBest(E, f, x) == x \in E /\ \A y \in E \ {x} : f[x] > f[y] \/ (f[x] = f[y] /\ x < y)
LEMMA BestExists ==
  ASSUME NEW E \in SUBSET Nat, IsFiniteSet(E), E # {}, NEW f \in [E -> Int]
  PROVE  \E x : IsBest(E, f, x)
  <1> DEFINE bad == {F \in SUBSET E : F # {} /\ ~\E x : IsBest(F, f, x)}
             sizes == {Cardinality(F) : F \in bad}
  <1> SUFFICES ASSUME E \in bad PROVE FALSE
    OBVIOUS
  <1>1. \A F \in bad : IsFiniteSet(F) /\ Cardinality(F) \in Nat
    BY FS_Subset, FS_CardinalityType
  <1>2. PICK m \in sizes : \A n \in sizes : m <= n
    <2>1. sizes \in SUBSET Nat /\ sizes # {}
      BY <1>1
    <2> HIDE DEF sizes
    <2> QED
      BY <2>1, Least
  <1>3. PICK F \in bad : m = Cardinality(F)
    OBVIOUS
  <1>4. F \in SUBSET E /\ F # {} /\ ~\E x : IsBest(F, f, x)
    OBVIOUS
  <1>5. PICK x \in F : TRUE
    BY <1>4
  <1>6. Cardinality(F \ {x}) = Cardinality(F) - 1
    BY <1>1, <1>5, FS_RemoveElement
  <1>7. F \ {x} \notin bad
    <2> SUFFICES ASSUME F \ {x} \in bad PROVE FALSE
      OBVIOUS
    <2>1. Cardinality(F \ {x}) \in sizes /\ Cardinality(F) \in Nat
      BY <1>1
    <2> HIDE DEF sizes
    <2> QED
      BY <1>2, <1>3, <1>6, <2>1
  <1>8. F \ {x} = {} \/ \E y : IsBest(F \ {x}, f, y)
    BY <1>4, <1>7
  <1> HIDE DEF bad, sizes
  <1>9. CASE F \ {x} = {}
    BY <1>4, <1>5, <1>9 DEF IsBest
  <1>10. ASSUME NEW y, IsBest(F \ {x}, f, y) PROVE FALSE
    <2>1. y \in F /\ y # x /\ \A z \in F \ {x, y} : f[y] > f[z] \/ (f[y] = f[z] /\ y < z)
      BY <1>10 DEF IsBest
    <2>2. \A z \in F : f[z] \in Int /\ z \in Nat
      BY <1>4
    <2>3. CASE f[x] > f[y] \/ (f[x] = f[y] /\ x < y)
      <3>1. \A z \in F \ {x} : f[x] > f[z] \/ (f[x] = f[z] /\ x < z)
        BY <1>5, <2>1, <2>2, <2>3
      <3> QED
        BY <1>4, <1>5, <3>1 DEF IsBest
    <2>4. CASE ~(f[x] > f[y] \/ (f[x] = f[y] /\ x < y))
      <3>1. f[y] > f[x] \/ (f[y] = f[x] /\ y < x)
        BY <1>5, <2>1, <2>2, <2>4
      <3>2. \A z \in F \ {y} : f[y] > f[z] \/ (f[y] = f[z] /\ y < z)
        BY <2>1, <3>1
      <3> QED
        BY <1>4, <2>1, <3>2 DEF IsBest
    <2> QED
      BY <2>3, <2>4
  <1> QED
    BY <1>8, <1>9, <1>10

TurnsInv ==
  /\ now \in Nat
  /\ firstSeen \in [Requests -> Nat \cup {Nothing}]
  /\ \A r \in Requests : firstSeen[r] # Nothing => firstSeen[r] <= now
  /\ asking = firstSeen
  /\ grants \in [R!Resources \X R!Owners -> Nat] /\ \A k \in DOMAIN grants : grants[k] <= MaxGrants

LEMMA ArbitrationConstants ==
  /\ Requests \subseteq Nat /\ IsFiniteSet(Requests) /\ Nothing \notin Nat
  /\ Tick \in Nat \ {0} /\ Threshold \in Nat /\ MaxNow \in Nat /\ MaxGrants \in Nat
  /\ \A r \in Requests : /\ Claim[r].priority \in Int
                         /\ {Claim[r].exclusive, Claim[r].reserved, Claim[r].emergency} \subseteq BOOLEAN
  BY OperationsAssumption, SMT DEF OperationsAssumption, R!ArbitrationAssumption, R!IsFiniteSet, IsFiniteSet

LEMMA TurnsStart == R!Init => TurnsInv
  BY ArbitrationConstants DEF R!Init, TurnsInv

\* Since when the requests of a round are seen is since when they ask.
LEMMA SeenIsAsked ==
  ASSUME TurnsInv, NEW competing \in SUBSET Requests
  PROVE  /\ R!Observed(competing) \in [Requests -> Nat \cup {Nothing}]
         /\ \A r \in Requests : R!Observed(competing)[r] # Nothing => R!Observed(competing)[r] <= now
         /\ \A r \in competing : R!Observed(competing)[r] \in Nat
         /\ \A r \in Requests : R!Since(competing, r) = R!Observed(competing)[r]
  BY ArbitrationConstants DEF TurnsInv, R!Observed, R!Since

LEMMA TurnsStep == TurnsInv /\ (R!Next \/ UNCHANGED arbitrationVars) => TurnsInv'
  <1> SUFFICES ASSUME TurnsInv, R!Next \/ UNCHANGED arbitrationVars
               PROVE  TurnsInv'
    OBVIOUS
  <1> USE ArbitrationConstants
  <1>1. CASE UNCHANGED arbitrationVars
    BY <1>1 DEF TurnsInv, arbitrationVars
  <1>2. CASE R!TimePasses
    BY <1>2 DEF TurnsInv, R!TimePasses
  <1>3. ASSUME NEW competing \in SUBSET Requests, UNCHANGED <<now, grants>>, firstSeen' = R!Observed(competing),
               asking' = [r \in Requests |-> R!Since(competing, r)]
        PROVE  TurnsInv'
    <2> PICK seen : seen = R!Observed(competing)
      OBVIOUS
    <2>1. /\ seen \in [Requests -> Nat \cup {Nothing}] /\ \A r \in Requests : seen[r] # Nothing => seen[r] <= now
          /\ \A r \in Requests : R!Since(competing, r) = seen[r]
      BY SeenIsAsked
    <2>2. asking' = seen /\ firstSeen' = seen
      BY <1>3, <2>1
    <2> QED
      BY <1>3, <2>1, <2>2 DEF TurnsInv
  <1>4. ASSUME NEW competing \in SUBSET Requests, NEW eligible \in SUBSET competing, R!ArbitrateGroup(competing, eligible)
        PROVE  TurnsInv'
    <2> PICK seen : seen = R!Observed(competing)
      OBVIOUS
    <2> PICK winner : winner = R!SelectWinner(seen, eligible)
      OBVIOUS
    <2>1. /\ seen \in [Requests -> Nat \cup {Nothing}] /\ \A r \in Requests : seen[r] # Nothing => seen[r] <= now
          /\ \A r \in Requests : R!Since(competing, r) = seen[r]
      BY SeenIsAsked
    <2>2. /\ R!Recorded(seen, competing, winner) /\ UNCHANGED now /\ \A k \in DOMAIN grants : grants[k] < MaxGrants
          /\ asking' = [r \in Requests |-> IF r = winner THEN Nothing ELSE R!Since(competing, r)]
      BY <1>4 DEF R!ArbitrateGroup
    <2>3. firstSeen' = [r \in Requests |-> IF r = winner THEN Nothing ELSE seen[r]] /\ asking' = firstSeen'
      BY <2>1, <2>2 DEF R!Recorded
    <2>4. /\ firstSeen' \in [Requests -> Nat \cup {Nothing}]
          /\ \A r \in Requests : firstSeen'[r] # Nothing => firstSeen'[r] <= now
      BY <2>1, <2>3
    <2>5. grants' \in [R!Resources \X R!Owners -> Nat] /\ \A k \in DOMAIN grants' : grants'[k] <= MaxGrants
      <3> PICK key : grants' = grants \/ grants' = [grants EXCEPT ![key] = @ + 1]
        BY <2>2 DEF R!Recorded
      <3> PICK keys : keys = R!Resources \X R!Owners
        OBVIOUS
      <3>1. grants \in [keys -> Nat] /\ (\A k \in keys : grants[k] < MaxGrants)
        BY <2>2 DEF TurnsInv
      <3>2. grants' \in [keys -> Nat] /\ (\A k \in keys : grants'[k] <= MaxGrants)
        BY <3>1
      <3> QED
        BY <3>2
    <2> QED
      BY <2>2, <2>3, <2>4, <2>5 DEF TurnsInv
  <1>5. ASSUME NEW competing \in SUBSET Requests,
               \/ \E stage \in {"request-received", "contention-detected", "policy-evaluation"} : R!FailsEarly(competing, stage)
               \/ \E eligible \in SUBSET competing : R!FailsLate(competing, eligible)
        PROVE  TurnsInv'
    <2>1. /\ UNCHANGED <<now, grants>> /\ firstSeen' = R!Observed(competing)
          /\ asking' = [r \in Requests |-> R!Since(competing, r)]
      BY <1>5 DEF R!FailsEarly, R!FailsLate
    <2> QED
      BY <1>3, <2>1
  <1> QED
    BY <1>1, <1>2, <1>4, <1>5 DEF R!Next

----------------------------------------------------------------------------
(* The scores.                                                                 *)

LEMMA Longer ==
  ASSUME NEW a \in Int, NEW b \in Int
  PROVE  Tick * a \in Int /\ Tick * b \in Int /\ (a < b => Tick * a < Tick * b) /\ (a <= b => Tick * a <= Tick * b)
  <1>1. Tick \in Int /\ Tick >= 1
    BY ArbitrationConstants
  <1> QED
    BY <1>1

\* A score, without what its request claims.
Waited(seen, r) == R!FirstComeFirstServed(seen, r) + R!FairShare(seen, r)
Claimed(r) == R!PriorityBased(r) + R!ReservationFirst(r) + R!ExclusiveAccess(r) + R!SharedAllocation(r) + R!EmergencyOverride(r)

LEMMA GrantsAre ==
  ASSUME TurnsInv, NEW r \in Requests
  PROVE  R!Granted(r) \in Nat /\ R!Granted(r) <= MaxGrants
  <1>1. <<ResourceOf[r], OwnerOf[r]>> \in R!Resources \X R!Owners
    BY DEF R!Resources, R!Owners
  <1> QED
    BY <1>1 DEF TurnsInv, R!Granted

LEMMA ScoresAre ==
  ASSUME TurnsInv, NEW seen, NEW r \in Requests, seen[r] \in Nat
  PROVE  /\ R!Wait(seen, r) \in Int /\ Waited(seen, r) \in Int /\ Claimed(r) \in Int
         /\ R!Total(seen, r) = Waited(seen, r) + Claimed(r) /\ R!Total(seen, r) \in Int
         /\ Waited(seen, r) = 2 * (Tick * R!Wait(seen, r)) + (IF R!Starved(seen, r) THEN 100000 ELSE 0) - 100 * R!Granted(r)
         /\ R!Granted(r) \in Nat /\ R!Granted(r) <= MaxGrants
         /\ 100 * Claim[r].priority + 10 <= Claimed(r)
         /\ ~Claim[r].emergency => Claimed(r) <= 100 * Claim[r].priority + 10020
  <1>1. R!Wait(seen, r) \in Int
    BY DEF TurnsInv, R!Wait
  <1>2. Tick * R!Wait(seen, r) \in Int
    BY <1>1, Longer
  <1>3. R!Granted(r) \in Nat /\ R!Granted(r) <= MaxGrants
    BY GrantsAre
  <1> PICK waits \in Int : waits = Tick * R!Wait(seen, r)
    BY <1>2
  <1>4. /\ R!FirstComeFirstServed(seen, r) = waits /\ R!FairShare(seen, r) \in Int
        /\ R!FairShare(seen, r) = waits + (IF R!Starved(seen, r) THEN 100000 ELSE 0) - 100 * R!Granted(r)
    BY <1>3 DEF R!FirstComeFirstServed, R!FairShare
  <1>5. /\ R!PriorityBased(r) = 100 * Claim[r].priority /\ R!PriorityBased(r) \in Int
        /\ R!ReservationFirst(r) \in {0, 10000} /\ R!EmergencyOverride(r) \in {0, 1000000}
        /\ R!ExclusiveAccess(r) \in {0, 20} /\ R!SharedAllocation(r) \in {0, 10}
        /\ R!ExclusiveAccess(r) + R!SharedAllocation(r) \in {10, 20}
        /\ ~Claim[r].emergency => R!EmergencyOverride(r) = 0
    BY ArbitrationConstants DEF R!PriorityBased, R!ReservationFirst, R!ExclusiveAccess, R!SharedAllocation, R!EmergencyOverride
  <1>6. Waited(seen, r) \in Int /\ Claimed(r) \in Int
    BY <1>4, <1>5 DEF Waited, Claimed
  <1>7. R!Total(seen, r) = Waited(seen, r) + Claimed(r)
    BY <1>4, <1>5 DEF Waited, Claimed, R!Total
  <1>8. Waited(seen, r) = 2 * waits + (IF R!Starved(seen, r) THEN 100000 ELSE 0) - 100 * R!Granted(r)
    BY <1>3, <1>4 DEF Waited
  <1>9. /\ 100 * Claim[r].priority + 10 <= Claimed(r)
        /\ ~Claim[r].emergency => Claimed(r) <= 100 * Claim[r].priority + 10020
    BY <1>5, ArbitrationConstants DEF Claimed
  <1> QED
    BY <1>1, <1>3, <1>6, <1>7, <1>8, <1>9

\* The winner's score is as good as that of any other that is eligible.
LEMMA WinnerIsBest ==
  ASSUME TurnsInv, NEW seen, NEW eligible \in SUBSET Requests, eligible # {}, \A r \in eligible : seen[r] \in Nat
  PROVE  /\ R!SelectWinner(seen, eligible) \in eligible
         /\ \A s \in eligible : R!Total(seen, R!SelectWinner(seen, eligible)) >= R!Total(seen, s)
  <1> DEFINE f == [r \in eligible |-> R!Total(seen, r)]
  <1>1. f \in [eligible -> Int]
    BY ScoresAre
  <1>2. eligible \in SUBSET Nat /\ IsFiniteSet(eligible)
    BY ArbitrationConstants, FS_Subset
  <1>3. \A r \in eligible : f[r] = R!Total(seen, r)
    OBVIOUS
  <1> HIDE DEF f
  <1>4. PICK x : IsBest(eligible, f, x)
    BY <1>1, <1>2, BestExists
  <1>5. x \in eligible /\ \A s \in eligible \ {x} : R!Beats(seen, x, s)
    BY <1>3, <1>4 DEF IsBest, R!Beats
  <1> PICK w : w = R!SelectWinner(seen, eligible)
    OBVIOUS
  <1>6. w = CHOOSE r \in eligible : \A s \in eligible \ {r} : R!Beats(seen, r, s)
    BY DEF R!SelectWinner
  <1>7. w \in eligible /\ \A s \in eligible \ {w} : R!Beats(seen, w, s)
    BY <1>5, <1>6
  <1>8. \A s \in eligible : R!Total(seen, s) \in Int
    BY ScoresAre
  <1>9. ASSUME NEW s \in eligible PROVE R!Total(seen, w) >= R!Total(seen, s)
    BY <1>7, <1>8 DEF R!Beats
  <1> QED
    BY <1>7, <1>9

----------------------------------------------------------------------------
(* The rounds.                                                                 *)

\* What the relief of a request that starves outweighs: a reservation, an exclusive
\* access, the difference in priority and the grants of its owner.
NothingOutweighsRelief ==
  \A r, w \in Requests : 100 * Claim[w].priority + 10010 + 100 * MaxGrants < 100 * Claim[r].priority + 100000

\* What a round comes to that decides.
Decided(seen, eligible) ==
  /\ round'.eligible = eligible /\ round'.winner = R!SelectWinner(seen, eligible)
  /\ \A r \in eligible : seen[r] \in Nat /\ seen[r] <= now /\ R!Asked(r) = seen[r]

LEMMA RoundsDecide ==
  ASSUME TurnsInv, R!Next, now' = now
  PROVE  \/ round'.eligible = {}
         \/ \E eligible \in SUBSET Requests : \E seen : Decided(seen, eligible)
  <1> USE ArbitrationConstants
  <1>1. ~R!TimePasses
    BY DEF R!TimePasses, TurnsInv
  <1>2. ASSUME NEW competing \in SUBSET Requests,
               NEW stage \in {"request-received", "contention-detected", "policy-evaluation"}, R!FailsEarly(competing, stage)
        PROVE  round'.eligible = {}
    BY <1>2 DEF R!FailsEarly, R!Entry
  <1>3. ASSUME NEW competing \in SUBSET Requests, NEW eligible \in SUBSET competing,
               R!ArbitrateGroup(competing, eligible) \/ R!FailsLate(competing, eligible)
        PROVE  \E seen : Decided(seen, eligible)
    <2> PICK seen : seen = R!Observed(competing)
      OBVIOUS
    <2>1. /\ seen \in [Requests -> Nat \cup {Nothing}] /\ \A r \in Requests : seen[r] # Nothing => seen[r] <= now
          /\ \A r \in competing : seen[r] \in Nat
          /\ \A r \in Requests : R!Since(competing, r) = seen[r]
      BY SeenIsAsked
    <2>2. round'.eligible = eligible /\ round'.winner = R!SelectWinner(seen, eligible)
      BY <1>3 DEF R!ArbitrateGroup, R!FailsLate, R!Entry
    <2>3. \A r \in eligible : R!Asked(r) = seen[r]
      BY <2>1, <2>2 DEF R!Asked, R!Since
    <2> QED
      BY <2>1, <2>2, <2>3 DEF Decided
  <1> QED
    <2>1. PICK competing \in SUBSET Requests :
            \/ \E stage \in {"request-received", "contention-detected", "policy-evaluation"} : R!FailsEarly(competing, stage)
            \/ \E eligible \in SUBSET competing : R!ArbitrateGroup(competing, eligible) \/ R!FailsLate(competing, eligible)
      BY <1>1 DEF R!Next
    <2>2. CASE \E stage \in {"request-received", "contention-detected", "policy-evaluation"} : R!FailsEarly(competing, stage)
      BY <1>2, <2>2
    <2>3. ASSUME NEW eligible \in SUBSET competing, R!ArbitrateGroup(competing, eligible) \/ R!FailsLate(competing, eligible)
          PROVE  \E e \in SUBSET Requests : \E seen : Decided(seen, e)
      <3>1. eligible \in SUBSET Requests /\ \E seen : Decided(seen, eligible)
        BY <1>3, <2>3
      <3> QED
        BY <3>1
    <2> QED
      BY <2>1, <2>2, <2>3

LEMMA EqualsInTurn ==
  ASSUME TurnsInv, NEW seen, NEW eligible \in SUBSET Requests, Decided(seen, eligible),
         NEW r \in Requests, NEW w \in Requests, R!PassedOver(r, w), R!Equals(r, w), R!Granted(r) <= R!Granted(w)
  PROVE  R!Asked(w) <= R!Asked(r)
  <1>1. r \in eligible /\ w = R!SelectWinner(seen, eligible) /\ \A s \in eligible : seen[s] \in Nat /\ R!Asked(s) = seen[s]
    BY DEF Decided, R!PassedOver
  <1>2. w \in eligible /\ R!Total(seen, w) >= R!Total(seen, r)
    BY <1>1, WinnerIsBest
  <1>3. seen[r] \in Nat /\ seen[w] \in Nat /\ R!Asked(w) = seen[w] /\ R!Asked(r) = seen[r]
    BY <1>1, <1>2
  <1>4. Claimed(r) = Claimed(w)
    BY DEF R!Equals, Claimed, R!PriorityBased, R!ReservationFirst, R!ExclusiveAccess, R!SharedAllocation, R!EmergencyOverride
  <1> SUFFICES ASSUME seen[r] < seen[w] PROVE FALSE
    BY <1>3
  <1>5. R!Wait(seen, w) < R!Wait(seen, r) /\ (R!Starved(seen, w) => R!Starved(seen, r))
    BY <1>3, ArbitrationConstants DEF R!Wait, R!Starved, TurnsInv
  <1>6. /\ R!Wait(seen, w) \in Int /\ R!Wait(seen, r) \in Int
        /\ Waited(seen, w) \in Int /\ Claimed(w) \in Int /\ R!Total(seen, w) = Waited(seen, w) + Claimed(w)
        /\ Waited(seen, w) = 2 * (Tick * R!Wait(seen, w)) + (IF R!Starved(seen, w) THEN 100000 ELSE 0) - 100 * R!Granted(w)
        /\ R!Granted(w) \in Nat
    BY <1>3, ScoresAre
  <1>7. /\ Waited(seen, r) \in Int /\ Claimed(r) \in Int /\ R!Total(seen, r) = Waited(seen, r) + Claimed(r)
        /\ Waited(seen, r) = 2 * (Tick * R!Wait(seen, r)) + (IF R!Starved(seen, r) THEN 100000 ELSE 0) - 100 * R!Granted(r)
        /\ R!Granted(r) \in Nat
    BY <1>3, ScoresAre
  <1>8. Tick * R!Wait(seen, w) < Tick * R!Wait(seen, r) /\ Tick * R!Wait(seen, w) \in Int /\ Tick * R!Wait(seen, r) \in Int
    BY <1>5, <1>6, Longer
  <1>9. Waited(seen, w) < Waited(seen, r)
    BY <1>5, <1>6, <1>7, <1>8
  <1> QED
    BY <1>2, <1>4, <1>6, <1>7, <1>9

LEMMA StarvedRelieved ==
  ASSUME NothingOutweighsRelief, TurnsInv, NEW seen, NEW eligible \in SUBSET Requests, Decided(seen, eligible),
         NEW r \in Requests, NEW w \in Requests, R!PassedOver(r, w), now - R!Asked(r) >= Threshold
  PROVE  Claim[w].emergency \/ now - R!Asked(w) >= Threshold
  <1>1. r \in eligible /\ w = R!SelectWinner(seen, eligible) /\ \A s \in eligible : seen[s] \in Nat /\ R!Asked(s) = seen[s]
    BY DEF Decided, R!PassedOver
  <1>2. w \in eligible /\ R!Total(seen, w) >= R!Total(seen, r)
    BY <1>1, WinnerIsBest
  <1>3. seen[r] \in Nat /\ seen[w] \in Nat /\ R!Asked(w) = seen[w] /\ R!Asked(r) = seen[r]
    BY <1>1, <1>2
  <1> SUFFICES ASSUME ~Claim[w].emergency, ~(now - seen[w] >= Threshold) PROVE FALSE
    BY <1>3
  <1>5. R!Wait(seen, w) < R!Wait(seen, r) /\ ~R!Starved(seen, w) /\ R!Starved(seen, r)
    BY <1>3, ArbitrationConstants DEF R!Wait, R!Starved, TurnsInv
  <1>6. /\ R!Wait(seen, w) \in Int /\ R!Wait(seen, r) \in Int
        /\ Waited(seen, w) \in Int /\ Claimed(w) \in Int /\ R!Total(seen, w) = Waited(seen, w) + Claimed(w)
        /\ Waited(seen, w) = 2 * (Tick * R!Wait(seen, w)) + (IF R!Starved(seen, w) THEN 100000 ELSE 0) - 100 * R!Granted(w)
        /\ R!Granted(w) \in Nat /\ Claimed(w) <= 100 * Claim[w].priority + 10020
    BY <1>3, ScoresAre
  <1>7. /\ Waited(seen, r) \in Int /\ Claimed(r) \in Int /\ R!Total(seen, r) = Waited(seen, r) + Claimed(r)
        /\ Waited(seen, r) = 2 * (Tick * R!Wait(seen, r)) + (IF R!Starved(seen, r) THEN 100000 ELSE 0) - 100 * R!Granted(r)
        /\ R!Granted(r) \in Nat /\ R!Granted(r) <= MaxGrants /\ 100 * Claim[r].priority + 10 <= Claimed(r)
    BY <1>3, ScoresAre
  <1>8. Tick * R!Wait(seen, w) < Tick * R!Wait(seen, r) /\ Tick * R!Wait(seen, w) \in Int /\ Tick * R!Wait(seen, r) \in Int
    BY <1>5, <1>6, Longer
  <1>9. 100 * Claim[w].priority + 10010 + 100 * MaxGrants < 100 * Claim[r].priority + 100000
    BY DEF NothingOutweighsRelief
  <1>10. Claim[r].priority \in Int /\ Claim[w].priority \in Int /\ MaxGrants \in Nat
    BY ArbitrationConstants
  <1>11. Waited(seen, w) + 100000 - 100 * MaxGrants < Waited(seen, r)
    BY <1>5, <1>6, <1>7, <1>8, <1>10
  <1> QED
    BY <1>2, <1>6, <1>7, <1>9, <1>10, <1>11

(* FairTurns (core/arbitration_authority: arbitrateGroup(), StarvationDetector and the policies): no request
   is passed over for its equal that asked later and has been granted no less, and one that starves only for
   an emergency or for another that starves, where nothing that is claimed outweighs the relief. *)
THEOREM TurnsAreFair ==
  ASSUME NothingOutweighsRelief
  PROVE  OperationsSpec => FairTurns
  <1> DEFINE Fair == focus = "arbitration" /\ now' = now => R!NoneJumps /\ R!RelievedFirst
  <1>1. OperationsInit => TurnsInv
    BY TurnsStart DEF OperationsInit
  <1>2. TurnsInv /\ [OperationsNext]_operationsVars => TurnsInv'
    BY TurnsStep DEF OperationsNext, operationsVars
  <1>3. TurnsInv /\ [OperationsNext]_operationsVars => [Fair]_arbitrationVars
    <2> SUFFICES ASSUME TurnsInv, R!Next, now' = now
                 PROVE  R!NoneJumps /\ R!RelievedFirst
      BY DEF OperationsNext, operationsVars, arbitrationVars
    <2>1. CASE round'.eligible = {}
      BY <2>1 DEF R!NoneJumps, R!RelievedFirst, R!PassedOver
    <2>2. ASSUME NEW eligible \in SUBSET Requests, NEW seen, Decided(seen, eligible)
          PROVE  R!NoneJumps /\ R!RelievedFirst
      BY <2>2, EqualsInTurn, StarvedRelieved DEF R!NoneJumps, R!RelievedFirst
    <2> QED
      BY <2>1, <2>2, RoundsDecide
  <1> QED
    BY <1>1, <1>2, <1>3, PTL DEF OperationsSpec, FairTurns

-----------------------------------------------------------------------------
(* Directories.  Files are kept by age, so those that are too old come first   *)
(* and what retention leaves, by age and by number, is an end of what there    *)
(* was.                                                                        *)

OldFirst(dir) == \A j \in DOMAIN dir : dir[j].old => \A i \in 1..j : dir[i].old
IsDirectory(dir) == dir \in Seq(T!File) /\ OldFirst(dir)
After(dir, k) == SubSeq(dir, k + 1, Len(dir))

DirectoriesInv ==
  /\ directories = [l \in Locations |-> directories[l]]
  /\ \A l \in Locations : directories[l] = Nothing \/ IsDirectory(directories[l])
  /\ \E Sets : stored \in Seq(Sets) /\ Len(stored) = Len(archives)

LEMMA AfterIs ==
  ASSUME NEW X, NEW dir \in Seq(X), NEW k \in 0..Len(dir)
  PROVE  /\ After(dir, k) \in Seq(X) /\ Len(After(dir, k)) = Len(dir) - k
         /\ \A i \in 1..(Len(dir) - k) : After(dir, k)[i] = dir[k + i]
  BY DEF After

LEMMA AfterAfter ==
  ASSUME NEW X, NEW dir \in Seq(X), NEW k \in 0..Len(dir), NEW m \in 0..(Len(dir) - k)
  PROVE  k + m \in 0..Len(dir) /\ After(After(dir, k), m) = After(dir, k + m)
  <1> DEFINE mid == After(dir, k)
  <1>1. mid \in Seq(X) /\ Len(mid) = Len(dir) - k /\ \A i \in 1..(Len(dir) - k) : mid[i] = dir[k + i]
    BY AfterIs
  <1>2. m \in 0..Len(mid) /\ k + m \in 0..Len(dir)
    BY <1>1
  <1>3. /\ After(mid, m) \in Seq(X) /\ Len(After(mid, m)) = Len(mid) - m
        /\ \A i \in 1..(Len(mid) - m) : After(mid, m)[i] = mid[m + i]
    BY <1>1, <1>2, AfterIs
  <1>4. /\ After(dir, k + m) \in Seq(X) /\ Len(After(dir, k + m)) = Len(dir) - (k + m)
        /\ \A i \in 1..(Len(dir) - (k + m)) : After(dir, k + m)[i] = dir[(k + m) + i]
    BY <1>2, AfterIs
  <1> HIDE DEF mid
  <1>5. Len(After(mid, m)) = Len(After(dir, k + m))
    BY <1>1, <1>3, <1>4
  <1>6. ASSUME NEW i \in 1..(Len(dir) - (k + m))
        PROVE  After(mid, m)[i] = After(dir, k + m)[i]
    <2>1. i \in 1..(Len(mid) - m) /\ m + i \in 1..(Len(dir) - k) /\ k + (m + i) = (k + m) + i
      BY <1>1
    <2> QED
      BY <1>1, <1>3, <1>4, <2>1
  <1>7. After(mid, m) = After(dir, k + m)
    BY <1>3, <1>4, <1>5, <1>6, SeqEqual
  <1> QED
    BY <1>2, <1>7 DEF mid

\* In the library's sense.
LEMMA AfterIsSuffix ==
  ASSUME NEW X, NEW dir \in Seq(X), NEW k \in 0..Len(dir)
  PROVE  T!IsSuffix(After(dir, k), dir)
  <1> DEFINE end == After(dir, k)
             m == Len(dir) - k
             a == T!Reverse(end)
             b == T!Reverse(dir)
  <1>1. end \in Seq(X) /\ Len(end) = m /\ \A i \in 1..m : end[i] = dir[k + i]
    BY AfterIs
  <1>2. m \in Nat /\ m <= Len(dir) /\ Len(dir) = k + m
    OBVIOUS
  <1> HIDE DEF end, m
  <1>3. a \in Seq(X) /\ Len(a) = m /\ \A i \in 1..m : a[i] = end[(m - i) + 1]
    BY <1>1, <1>2 DEF T!Reverse
  <1>4. b \in Seq(X) /\ Len(b) = Len(dir) /\ \A i \in 1..Len(dir) : b[i] = dir[(Len(dir) - i) + 1]
    BY DEF T!Reverse
  <1>5. \A i \in 1..m : a[i] = b[i]
    <2> TAKE i \in 1..m
    <2>1. (m - i) + 1 \in 1..m /\ k + ((m - i) + 1) = (Len(dir) - i) + 1 /\ i \in 1..Len(dir)
      BY <1>2
    <2> QED
      BY <1>1, <1>3, <1>4, <2>1
  <1> HIDE DEF a, b
  <1>6. SubSeq(a, 1, Len(a)) = SubSeq(b, 1, Len(a))
    <2>1. SubSeq(a, 1, m) = [i \in 1..m |-> a[i]] /\ SubSeq(b, 1, m) = [i \in 1..m |-> b[i]]
      BY <1>2, <1>3, <1>4
    <2> QED
      BY <1>3, <1>5, <2>1
  <1>7. T!IsPrefix(a, b)
    BY <1>2, <1>3, <1>4, <1>6 DEF T!IsPrefix
  <1> QED
    BY <1>7 DEF T!IsSuffix, a, b, end

LEMMA AfterKeeps ==
  ASSUME NEW dir, IsDirectory(dir), NEW k \in 0..Len(dir)
  PROVE  IsDirectory(After(dir, k)) /\ T!IsSuffix(After(dir, k), dir)
  <1>1. dir \in Seq(T!File) /\ OldFirst(dir)
    BY DEF IsDirectory
  <1>2. /\ After(dir, k) \in Seq(T!File) /\ Len(After(dir, k)) = Len(dir) - k
        /\ \A i \in 1..(Len(dir) - k) : After(dir, k)[i] = dir[k + i]
    BY <1>1, AfterIs
  <1>3. OldFirst(After(dir, k))
    <2> SUFFICES ASSUME NEW j \in DOMAIN After(dir, k), After(dir, k)[j].old, NEW i \in 1..j
                 PROVE  After(dir, k)[i].old
      BY DEF OldFirst
    <2>1. j \in 1..(Len(dir) - k) /\ i \in 1..(Len(dir) - k)
      BY <1>2
    <2>2. k + j \in DOMAIN dir /\ k + i \in 1..(k + j) /\ dir[k + j].old
      BY <1>1, <1>2, <2>1
    <2>3. dir[k + i].old
      BY <1>1, <2>2 DEF OldFirst
    <2> QED
      BY <1>2, <2>1, <2>3
  <1>4. T!IsSuffix(After(dir, k), dir)
    BY <1>1, AfterIsSuffix
  <1> QED
    BY <1>2, <1>3, <1>4 DEF IsDirectory

-----------------------------------------------------------------------------
(* Survivors: the library folds by the latest of what is left of the           *)
(* positions; a function that does exists and passes the files in order.     *)

KeptBy(policy, kept, f) == IF policy.ages /\ f.old THEN kept ELSE Append(kept, f)
Keeping(policy, dir, f, s) == IF s = {} THEN <<>> ELSE KeptBy(policy, f[s \ {T!Max(s)}], dir[T!Max(s)])
Keepings(policy, dir, f, n) == f = [s \in SUBSET (1..n) |-> Keeping(policy, dir, f, s)]

LEMMA LatestOf ==
  ASSUME NEW n \in Nat, NEW s \in SUBSET (1..n), n \in s
  PROVE  T!Max(s) = n
  <1>1. n \in s /\ \A y \in s : n >= y
    OBVIOUS
  <1>2. \A x \in s : (\A y \in s : x >= y) => x = n
    BY <1>1
  <1> QED
    BY <1>1, <1>2 DEF T!Max

LEMMA KeepingsExist ==
  ASSUME NEW policy, NEW dir, NEW size \in Nat
  PROVE  \E f : Keepings(policy, dir, f, size)
  <1> DEFINE Step(f, n) == KeptBy(policy, f, dir[n])
  <1>1. Keepings(policy, dir, [s \in SUBSET (1..0) |-> <<>>], 0)
    <2>1. SUBSET (1..0) = {{}}
      OBVIOUS
    <2> QED
      BY <2>1 DEF Keepings, Keeping
  <1>2. ASSUME NEW n \in Nat \ {0}, NEW f, Keepings(policy, dir, f, n - 1)
        PROVE  \E e : Keepings(policy, dir, e, n)
    <2> DEFINE e == [s \in SUBSET (1..n) |-> IF n \in s THEN Step(f[s \ {n}], n) ELSE f[s]]
    <2>1. \A s \in SUBSET (1..n) : n \notin s => s \in SUBSET (1..(n - 1))
      OBVIOUS
    <2>2. \A s \in SUBSET (1..(n - 1)) : n \notin s /\ s \in SUBSET (1..n)
      OBVIOUS
    <2>3. \A s \in SUBSET (1..(n - 1)) : f[s] = Keeping(policy, dir, f, s)
      BY <1>2 DEF Keepings
    <2>4. \A s \in SUBSET (1..n) : e[s] = IF n \in s THEN Step(f[s \ {n}], n) ELSE f[s]
      OBVIOUS
    <2>5. e = [s \in SUBSET (1..n) |-> e[s]]
      OBVIOUS
    <2> HIDE DEF e
    <2>6. ASSUME NEW s \in SUBSET (1..n)
          PROVE  e[s] = Keeping(policy, dir, e, s)
      <3>1. CASE n \in s
        <4>1. T!Max(s) = n
          BY <3>1, LatestOf
        <4>2. e[s \ {n}] = f[s \ {n}]
          BY <2>4
        <4>3. e[s] = Step(e[s \ {n}], n)
          BY <2>4, <3>1, <4>2
        <4> QED
          BY <3>1, <4>1, <4>3 DEF Keeping
      <3>2. CASE n \notin s
        <4>1. s \ {T!Max(s)} \in SUBSET (1..n) /\ n \notin s \ {T!Max(s)}
          BY <3>2
        <4>2. e[s] = f[s] /\ e[s \ {T!Max(s)}] = f[s \ {T!Max(s)}]
          BY <2>4, <3>2, <4>1
        <4>3. f[s] = Keeping(policy, dir, f, s)
          BY <2>1, <2>3, <3>2
        <4> QED
          BY <4>2, <4>3 DEF Keeping
      <3> QED
        BY <3>1, <3>2
    <2>7. e = [s \in SUBSET (1..n) |-> Keeping(policy, dir, e, s)]
      BY <2>5, <2>6, Zenon
    <2> QED
      BY <2>7 DEF Keepings
  <1> DEFINE Wrong == {n \in Nat : ~\E f : Keepings(policy, dir, f, n)}
  <1>3. Wrong = {}
    <2>1. SUFFICES ASSUME Wrong # {} PROVE FALSE
      OBVIOUS
    <2>2. PICK m \in Wrong : \A n \in Wrong : m <= n
      BY <2>1, Least
    <2>3. m # 0
      BY <1>1, <2>2
    <2>4. m - 1 \in Nat /\ m - 1 \notin Wrong
      BY <2>2, <2>3
    <2> QED
      BY <1>2, <2>2, <2>3, <2>4
  <1> QED
    BY <1>3

\* What survives of the first n dir.
Surviving(policy, dir, n, last, g) ==
  g[0] = <<>> /\ g[n] = last /\ \A i \in 1..n : g[i] = KeptBy(policy, g[i - 1], dir[i])

LEMMA KeptInTurn ==
  ASSUME NEW policy, NEW dir, NEW size \in Nat, NEW f, Keepings(policy, dir, f, size)
  PROVE  \E g : Surviving(policy, dir, size, f[1..size], g)
  <1>1. ASSUME NEW n \in 0..size
        PROVE  f[1..n] = IF n = 0 THEN <<>> ELSE KeptBy(policy, f[1..(n - 1)], dir[n])
    <2>1. 1..n \in SUBSET (1..size)
      OBVIOUS
    <2>2. f[1..n] = Keeping(policy, dir, f, 1..n)
      BY <2>1 DEF Keepings
    <2>3. CASE n = 0
      BY <2>2, <2>3 DEF Keeping
    <2>4. CASE n # 0
      <3>1. n \in 1..n /\ (1..n) \ {n} = 1..(n - 1)
        BY <2>4
      <3>2. T!Max(1..n) = n
        BY <3>1, LatestOf
      <3> QED
        BY <2>2, <2>4, <3>1, <3>2 DEF Keeping
    <2> QED
      BY <2>3, <2>4
  <1> DEFINE g == [n \in 0..size |-> f[1..n]]
  <1>2. \A n \in 0..size : g[n] = f[1..n]
    OBVIOUS
  <1> HIDE DEF g
  <1>3. ASSUME NEW n \in 1..size
        PROVE  g[n] = KeptBy(policy, g[n - 1], dir[n])
    <2>1. n \in 0..size /\ n - 1 \in 0..size /\ n # 0
      OBVIOUS
    <2>2. g[n] = f[1..n] /\ g[n - 1] = f[1..(n - 1)]
      BY <1>2, <2>1
    <2> QED
      BY <1>1, <2>1, <2>2
  <1>4. 0 \in 0..size /\ size \in 0..size /\ 1..0 = {}
    OBVIOUS
  <1>5. g[0] = <<>> /\ g[size] = f[1..size]
    BY <1>1, <1>2, <1>4
  <1> QED
    BY <1>3, <1>5 DEF Surviving

LEMMA SurvivorsInTurn ==
  ASSUME NEW policy, NEW dir, NEW size \in Nat, DOMAIN dir = 1..size
  PROVE  \E g : Surviving(policy, dir, size, T!Survivors(policy, dir), g)
  <1> DEFINE Solves(f) == f = [s \in SUBSET (1..size) |->
                                 IF s = {} THEN <<>>
                                 ELSE IF policy.ages /\ dir[T!Max(s)].old THEN f[s \ {T!Max(s)}]
                                 ELSE Append(f[s \ {T!Max(s)}], dir[T!Max(s)])]
             iter == CHOOSE f : Solves(f)
  <1>1. T!Survivors(policy, dir) = iter[1..size]
    BY DEF T!Survivors, T!FoldLeft, T!MapThenFoldSet
  <1>2. \A f : Solves(f) <=> Keepings(policy, dir, f, size)
    BY DEF Keepings, Keeping, KeptBy
  <1> HIDE DEF Solves
  <1>3. Solves(iter)
    BY <1>2, KeepingsExist
  <1> HIDE DEF iter
  <1>4. Keepings(policy, dir, iter, size)
    BY <1>2, <1>3
  <1> PICK f : f = iter
    OBVIOUS
  <1>5. \E g : Surviving(policy, dir, size, f[1..size], g)
    <2>1. Keepings(policy, dir, f, size)
      BY <1>4
    <2> QED
      BY <2>1, KeptInTurn
  <1> QED
    BY <1>1, <1>5

\* Of the first n files an end survives, and it is all too old only where none does.
LEMMA SurvivorsEnd ==
  ASSUME NEW policy, NEW dir, IsDirectory(dir)
  PROVE  \E k \in 0..Len(dir) : T!Survivors(policy, dir) = After(dir, k)
  <1> DEFINE size == Len(dir)
             Ends(g, n, k) == /\ g[n] = SubSeq(dir, k + 1, n)
                              /\ k < n => ~(policy.ages /\ dir[n].old)
  <1>1. dir \in Seq(T!File) /\ size \in Nat /\ DOMAIN dir = 1..size /\ OldFirst(dir)
    BY DEF IsDirectory
  <1>2. PICK g : Surviving(policy, dir, size, T!Survivors(policy, dir), g)
    BY <1>1, SurvivorsInTurn
  <1> HIDE DEF size
  <1>3. \E k \in 0..0 : Ends(g, 0, k)
    <2>1. SubSeq(dir, 1, 0) = <<>>
      BY <1>1
    <2> QED
      BY <1>2, <2>1 DEF Surviving
  <1>4. ASSUME NEW n \in 1..size, \E k \in 0..(n - 1) : Ends(g, n - 1, k)
        PROVE  \E k \in 0..n : Ends(g, n, k)
    <2> PICK k \in 0..(n - 1) : Ends(g, n - 1, k)
      BY <1>4
    <2>1. g[n] = KeptBy(policy, g[n - 1], dir[n])
      BY <1>2 DEF Surviving
    <2>2. CASE policy.ages /\ dir[n].old
      <3>1. \A i \in 1..n : dir[i].old
        BY <1>1, <2>2 DEF OldFirst
      <3>2. k = n - 1
        BY <2>2, <3>1
      <3>3. SubSeq(dir, (n - 1) + 1, n - 1) = <<>> /\ SubSeq(dir, n + 1, n) = <<>>
        BY <1>1
      <3>4. Ends(g, n, n)
        BY <2>1, <2>2, <3>2, <3>3 DEF KeptBy
      <3> QED
        BY <3>4
    <2>3. CASE ~(policy.ages /\ dir[n].old)
      <3>1. Append(SubSeq(dir, k + 1, n - 1), dir[n]) = SubSeq(dir, k + 1, n)
        <4> DEFINE a == SubSeq(dir, k + 1, n - 1)
                   b == SubSeq(dir, k + 1, n)
        <4>1. /\ a \in Seq(T!File) /\ Len(a) = (n - 1) - k /\ \A i \in 1..((n - 1) - k) : a[i] = dir[k + i]
          BY <1>1 DEF size
        <4>2. /\ b \in Seq(T!File) /\ Len(b) = n - k /\ \A i \in 1..(n - k) : b[i] = dir[k + i]
          BY <1>1 DEF size
        <4>3. dir[n] \in T!File /\ n - k \in Nat /\ k + (n - k) = n /\ (n - 1) - k + 1 = n - k
          BY <1>1
        <4> HIDE DEF a, b
        <4>4. /\ Append(a, dir[n]) \in Seq(T!File) /\ Len(Append(a, dir[n])) = n - k
              /\ \A i \in 1..(n - k) : Append(a, dir[n])[i] = b[i]
          <5>1. ASSUME NEW i \in 1..(n - k) PROVE Append(a, dir[n])[i] = b[i]
            <6>1. CASE i = n - k
              BY <4>1, <4>2, <4>3, <6>1
            <6>2. CASE i # n - k
              <7>1. i \in 1..((n - 1) - k)
                BY <6>2
              <7>2. Append(a, dir[n])[i] = a[i]
                BY <4>1, <7>1
              <7> QED
                BY <4>1, <4>2, <7>1, <7>2
            <6> QED
              BY <6>1, <6>2
          <5> QED
            BY <4>1, <4>3, <5>1
        <4>5. Append(a, dir[n]) = b
          BY <4>2, <4>4, SeqEqual
        <4> QED
          BY <4>5 DEF a, b
      <3>2. g[n] = Append(g[n - 1], dir[n])
        BY <2>1, <2>3 DEF KeptBy
      <3>3. Ends(g, n, k)
        BY <2>3, <3>1, <3>2
      <3> QED
        BY <3>3
    <2> QED
      BY <2>2, <2>3
  <1> DEFINE Wrong == {n \in 0..size : ~\E k \in 0..n : Ends(g, n, k)}
  <1> HIDE DEF Ends
  <1>5. Wrong = {}
    <2>1. SUFFICES ASSUME Wrong # {} PROVE FALSE
      OBVIOUS
    <2>2. PICK m \in Wrong : \A n \in Wrong : m <= n
      <3>1. Wrong \in SUBSET Nat
        OBVIOUS
      <3> QED
        BY <2>1, <3>1, Least
    <2>3. m # 0
      BY <1>3, <2>2
    <2>4. m \in 1..size /\ m - 1 \in 0..size /\ m - 1 \notin Wrong
      BY <1>1, <2>2, <2>3
    <2> QED
      BY <1>4, <2>2, <2>4
  <1>6. PICK k \in 0..size : Ends(g, size, k)
    BY <1>1, <1>5
  <1>7. T!Survivors(policy, dir) = After(dir, k)
    BY <1>2, <1>6 DEF Ends, Surviving, After, size
  <1> QED
    BY <1>7 DEF size

LEMMA RetainedEnds ==
  ASSUME NEW policy, policy.keep \in Nat \cup {Nothing}, NEW dir, IsDirectory(dir)
  PROVE  IsDirectory(T!Retained(policy, dir)) /\ T!IsSuffix(T!Retained(policy, dir), dir)
  <1>1. PICK k \in 0..Len(dir) : T!Survivors(policy, dir) = After(dir, k)
    BY SurvivorsEnd
  <1>2. dir \in Seq(T!File)
    BY DEF IsDirectory
  <1>3. \E m \in 0..Len(dir) : T!Retained(policy, dir) = After(dir, m)
    <2>1. CASE policy.keep = Nothing \/ Len(T!Survivors(policy, dir)) <= policy.keep
      BY <1>1, <2>1 DEF T!Retained
    <2>2. CASE ~(policy.keep = Nothing \/ Len(T!Survivors(policy, dir)) <= policy.keep)
      <3> DEFINE s == After(dir, k)
                 m == Len(s) - policy.keep
      <3>1. Len(s) = Len(dir) - k /\ s \in Seq(T!File)
        BY <1>2, AfterIs
      <3>2. policy.keep \in Nat /\ ~(Len(s) <= policy.keep)
        BY <1>1, <2>2
      <3>3. m \in 0..(Len(dir) - k)
        BY <3>1, <3>2
      <3>4. T!Retained(policy, dir) = SubSeq(s, m + 1, Len(s))
        BY <1>1, <2>2 DEF T!Retained
      <3>5. SubSeq(s, m + 1, Len(s)) = After(s, m)
        BY DEF After
      <3>6. After(s, m) = After(dir, k + m) /\ k + m \in 0..Len(dir)
        BY <1>2, <3>3, AfterAfter
      <3> QED
        BY <3>4, <3>5, <3>6
    <2> QED
      BY <2>1, <2>2
  <1> QED
    BY <1>3, AfterKeeps

-----------------------------------------------------------------------------
(* What the steps do to the directories.                                       *)

LEMMA Itself ==
  ASSUME NEW dir, IsDirectory(dir)
  PROVE  T!IsSuffix(dir, dir)
  <1>1. dir \in Seq(T!File) /\ 0 \in 0..Len(dir)
    BY DEF IsDirectory
  <1>2. After(dir, 0) = dir
    BY <1>1 DEF After
  <1>3. T!IsSuffix(After(dir, 0), dir)
    BY <1>1, AfterIsSuffix
  <1> QED
    BY <1>2, <1>3

LEMMA EmptyDirectory == IsDirectory(<<>>)
  BY DEF IsDirectory, OldFirst

LEMMA NoDirectory ==
  ASSUME NEW dir, IsDirectory(dir)
  PROVE  dir # Nothing
  BY OperationsAssumption DEF IsDirectory, T!StorageAssumption

LEMMA DirectoryGrowsOld ==
  ASSUME NEW dir, IsDirectory(dir), NEW i \in DOMAIN dir, \A j \in 1..(i - 1) : dir[j].old
  PROVE  IsDirectory([dir EXCEPT ![i].old = TRUE])
  <1> DEFINE new == [dir EXCEPT ![i].old = TRUE]
             f == [dir[i] EXCEPT !.old = TRUE]
  <1>1. dir \in Seq(T!File) /\ OldFirst(dir) /\ dir[i] \in T!File
    BY DEF IsDirectory
  <1>2. f \in T!File /\ f.old = TRUE
    BY <1>1 DEF T!File
  <1>3. new = [dir EXCEPT ![i] = f]
    OBVIOUS
  <1> HIDE DEF f
  <1>4. new \in Seq(T!File) /\ DOMAIN new = DOMAIN dir /\ \A j \in DOMAIN dir : new[j] = IF j = i THEN f ELSE dir[j]
    <2>1. i \in 1..Len(dir) /\ DOMAIN dir = 1..Len(dir)
      BY <1>1
    <2> HIDE DEF new
    <2>2. /\ new \in Seq(T!File) /\ Len(new) = Len(dir)
          /\ \A j \in 1..Len(dir) : new[j] = IF j = i THEN f ELSE dir[j]
      BY <1>1, <1>2, <1>3, <2>1, ExceptSeq
    <2>3. DOMAIN new = 1..Len(new)
      BY <2>2
    <2> QED
      BY <2>1, <2>2, <2>3
  <1> HIDE DEF new
  <1>5. OldFirst(new)
    <2> SUFFICES ASSUME NEW j \in DOMAIN new, new[j].old, NEW k \in 1..j
                 PROVE  new[k].old
      BY DEF OldFirst
    <2>1. j \in DOMAIN dir /\ k \in DOMAIN dir
      BY <1>1, <1>4
    <2>2. CASE k = i
      BY <1>2, <1>4, <2>1, <2>2
    <2>3. CASE k # i
      <3>1. dir[k].old
        <4>1. CASE j = i
          BY <1>1, <2>1, <2>3, <4>1
        <4>2. CASE j # i
          BY <1>1, <1>4, <2>1, <4>2 DEF OldFirst
        <4> QED
          BY <4>1, <4>2
      <3> QED
        BY <1>4, <2>1, <2>3, <3>1
    <2> QED
      BY <2>2, <2>3
  <1> QED
    BY <1>4, <1>5 DEF IsDirectory, new

\* What is before and after the ith file.
Cut(dir, i, a, b) ==
  /\ Len(a) = i - 1 /\ \A j \in 1..(i - 1) : a[j] = dir[j]
  /\ Len(b) = Len(dir) - i /\ \A j \in 1..(Len(dir) - i) : b[j] = dir[i + j]

Past(i, j) == IF j < i THEN j ELSE j + 1

Skips(X, dir, i, new) ==
  /\ new \in Seq(X) /\ Len(new) = Len(dir) - 1
  /\ \A j \in 1..(Len(dir) - 1) : new[j] = dir[Past(i, j)]

LEMMA Joined ==
  ASSUME NEW X, NEW dir \in Seq(X), NEW i \in 1..Len(dir), NEW a \in Seq(X), NEW b \in Seq(X), Cut(dir, i, a, b)
  PROVE  Skips(X, dir, i, a \o b)
  <1>1. a \o b \in Seq(X) /\ Len(a \o b) = Len(dir) - 1
    <2>1. a \o b \in Seq(X) /\ Len(a \o b) = Len(a) + Len(b)
      BY ConcatProperties
    <2>2. Len(a) + Len(b) = Len(dir) - 1
      BY DEF Cut
    <2> QED
      BY <2>1, <2>2
  <1>2. ASSUME NEW j \in 1..(Len(dir) - 1), j < i PROVE (a \o b)[j] = dir[j]
    BY <1>2, ConcatProperties DEF Cut
  <1>3. ASSUME NEW j \in 1..(Len(dir) - 1), ~(j < i) PROVE (a \o b)[j] = dir[j + 1]
    <2>1. /\ j \in 1..(Len(a) + Len(b)) /\ ~(j <= Len(a)) /\ j - Len(a) = j - (i - 1)
          /\ j - (i - 1) \in 1..(Len(dir) - i) /\ i + (j - (i - 1)) = j + 1
      BY <1>3 DEF Cut
    <2>2. (a \o b)[j] = b[j - Len(a)]
      BY <2>1, ConcatProperties
    <2> QED
      BY <2>1, <2>2 DEF Cut
  <1> QED
    BY <1>1, <1>2, <1>3 DEF Past, Skips

LEMMA DirectoryWithout ==
  ASSUME NEW dir, IsDirectory(dir), NEW i \in DOMAIN dir
  PROVE  IsDirectory(T!RemoveAt(dir, i))
  <1> DEFINE new == T!RemoveAt(dir, i)
  <1>1. dir \in Seq(T!File) /\ OldFirst(dir) /\ i \in 1..Len(dir)
    BY DEF IsDirectory
  <1>2. new = SubSeq(dir, 1, i - 1) \o SubSeq(dir, i + 1, Len(dir))
    BY DEF T!RemoveAt
  <1> HIDE DEF new
  <1>3. /\ SubSeq(dir, 1, i - 1) \in Seq(T!File) /\ Len(SubSeq(dir, 1, i - 1)) = i - 1
        /\ \A j \in 1..(i - 1) : SubSeq(dir, 1, i - 1)[j] = dir[j]
    BY <1>1
  <1>4. /\ SubSeq(dir, i + 1, Len(dir)) \in Seq(T!File) /\ Len(SubSeq(dir, i + 1, Len(dir))) = Len(dir) - i
        /\ \A j \in 1..(Len(dir) - i) : SubSeq(dir, i + 1, Len(dir))[j] = dir[i + j]
    BY <1>1
  <1>5. new \in Seq(T!File) /\ Len(new) = Len(dir) - 1
        /\ \A j \in 1..(Len(dir) - 1) : new[j] = dir[Past(i, j)]
    <2> PICK a : a = SubSeq(dir, 1, i - 1)
      OBVIOUS
    <2> PICK b : b = SubSeq(dir, i + 1, Len(dir))
      OBVIOUS
    <2>1. a \in Seq(T!File) /\ b \in Seq(T!File)
      BY <1>3, <1>4
    <2>2. Cut(dir, i, a, b)
      BY <1>3, <1>4 DEF Cut
    <2>3. Skips(T!File, dir, i, a \o b)
      BY <1>1, <2>1, <2>2, Joined
    <2>4. new = a \o b
      BY <1>2
    <2> QED
      BY <2>3, <2>4 DEF Skips
  <1>6. \A j \in 1..(Len(dir) - 1) : Past(i, j) \in 1..Len(dir)
    BY <1>1 DEF Past
  <1>7. OldFirst(new)
    <2> SUFFICES ASSUME NEW j \in DOMAIN new, new[j].old, NEW k \in 1..j
                 PROVE  new[k].old
      BY DEF OldFirst
    <2>1. j \in 1..(Len(dir) - 1) /\ k \in 1..(Len(dir) - 1)
      BY <1>1, <1>5
    <2>2. new[j] = dir[Past(i, j)] /\ Past(i, j) \in DOMAIN dir /\ new[k] = dir[Past(i, k)]
      BY <1>1, <1>5, <1>6, <2>1
    <2>3. Past(i, k) \in 1..Past(i, j)
      BY <1>1, <2>1 DEF Past
    <2> QED
      BY <1>1, <2>2, <2>3 DEF OldFirst
  <1> QED
    BY <1>5, <1>7 DEF IsDirectory, new

LEMMA DirectoryWritten ==
  ASSUME NEW dir, IsDirectory(dir), NEW f \in Files
  PROVE  IsDirectory(Append(T!Without(dir, f), [file |-> f, old |-> FALSE]))
  <1>1. IsDirectory(T!Without(dir, f))
    BY DirectoryWithout DEF T!Without
  <1> PICK others : others = T!Without(dir, f)
    OBVIOUS
  <1> PICK new : new = [file |-> f, old |-> FALSE]
    OBVIOUS
  <1>2. others \in Seq(T!File) /\ OldFirst(others) /\ new \in T!File /\ ~new.old
    BY <1>1 DEF IsDirectory, T!File
  <1>3. /\ Append(others, new) \in Seq(T!File) /\ Len(Append(others, new)) = Len(others) + 1
        /\ Append(others, new)[Len(others) + 1] = new
        /\ \A j \in 1..Len(others) : Append(others, new)[j] = others[j]
    BY <1>2
  <1>4. OldFirst(Append(others, new))
    <2> SUFFICES ASSUME NEW j \in DOMAIN Append(others, new), Append(others, new)[j].old, NEW k \in 1..j
                 PROVE  Append(others, new)[k].old
      BY DEF OldFirst
    <2>1. j \in 1..(Len(others) + 1) /\ Len(others) \in Nat
      BY <1>2, <1>3
    <2>2. j # Len(others) + 1
      BY <1>2, <1>3
    <2>3. j \in DOMAIN others /\ others[j].old /\ k \in 1..Len(others)
      BY <1>2, <1>3, <2>1, <2>2
    <2> QED
      BY <1>2, <1>3, <2>3 DEF OldFirst
  <1> QED
    BY <1>3, <1>4 DEF IsDirectory

\* What a step of the authority may do to a directory.
OnlyOldestGo(dir, new) ==
  \/ new = dir
  \/ dir = Nothing /\ new = <<>>
  \/ dir # Nothing /\ IsDirectory(new) /\ T!IsSuffix(new, dir)

LEMMA DirectoriesStep ==
  ASSUME DirectoriesInv, directories' = [l \in Locations |-> directories'[l]],
         \A l \in Locations : OnlyOldestGo(directories[l], directories'[l]),
         \E Sets : stored' \in Seq(Sets) /\ Len(stored') = Len(archives'),
         \A a \in DOMAIN archives : /\ archives'[a].checksums = archives[a].checksums
                                    /\ stored'[a] = stored[a]
  PROVE  DirectoriesInv' /\ T!OldestGo
  <1>1. \A l \in Locations : directories'[l] = Nothing \/ IsDirectory(directories'[l])
    BY EmptyDirectory DEF DirectoriesInv, OnlyOldestGo
  <1>2. DirectoriesInv'
    BY <1>1 DEF DirectoriesInv, IsDirectory, OldFirst
  <1>3. ASSUME NEW l \in Locations, directories[l] # Nothing
        PROVE  directories'[l] # Nothing /\ T!IsSuffix(directories'[l], directories[l])
    <2>1. IsDirectory(directories[l]) /\ OnlyOldestGo(directories[l], directories'[l])
      BY <1>3 DEF DirectoriesInv
    <2>2. T!IsSuffix(directories[l], directories[l])
      BY <2>1, Itself
    <2> QED
      BY <1>3, <2>1, <2>2, NoDirectory DEF OnlyOldestGo
  <1>4. \A a \in DOMAIN archives : T!Valid(a) => T!Valid(a)'
    BY DEF T!Valid
  <1> QED
    BY <1>2, <1>3, <1>4 DEF T!OldestGo

\* The archives stay, and no directory but one is touched.
StoredStay == stored' = stored /\ Len(archives') = Len(archives) /\ \A a \in DOMAIN archives : archives'[a].checksums = archives[a].checksums

LEMMA DirectorySet ==
  ASSUME DirectoriesInv, StoredStay, NEW k, NEW new, directories' = [directories EXCEPT ![k] = new],
         k \in Locations => OnlyOldestGo(directories[k], new)
  PROVE  DirectoriesInv' /\ T!OldestGo
  <1>1. directories' = [l \in Locations |-> IF l = k THEN new ELSE directories[l]]
    BY DEF DirectoriesInv
  <1>2. \A l \in Locations : directories'[l] = IF l = k THEN new ELSE directories[l]
    BY <1>1
  <1>3. directories' = [l \in Locations |-> directories'[l]]
    BY <1>1, <1>2
  <1>4. \A l \in Locations : OnlyOldestGo(directories[l], directories'[l])
    BY <1>2 DEF OnlyOldestGo
  <1>5. \E Sets : stored' \in Seq(Sets) /\ Len(stored') = Len(archives')
    BY DEF DirectoriesInv, StoredStay
  <1> QED
    BY <1>3, <1>4, <1>5, DirectoriesStep DEF StoredStay

LEMMA MadeKeeps ==
  ASSUME DirectoriesInv, StoredStay, NEW k, directories' = T!Made(k)
  PROVE  DirectoriesInv' /\ T!OldestGo
  <1> PICK new : new = IF directories[k] = Nothing THEN <<>> ELSE directories[k]
    OBVIOUS
  <1>1. directories' = [directories EXCEPT ![k] = new] /\ OnlyOldestGo(directories[k], new)
    BY DEF T!Made, OnlyOldestGo
  <1> QED
    BY <1>1, DirectorySet

LEMMA NothingTouched ==
  ASSUME DirectoriesInv, StoredStay, directories' = directories
  PROVE  DirectoriesInv' /\ T!OldestGo
  <1>1. directories' = [l \in Locations |-> directories'[l]]
    BY DEF DirectoriesInv
  <1>2. \E Sets : stored' \in Seq(Sets) /\ Len(stored') = Len(archives')
    BY DEF DirectoriesInv, StoredStay
  <1>3. \A l \in Locations : OnlyOldestGo(directories[l], directories'[l])
    BY DEF OnlyOldestGo
  <1> QED
    BY <1>1, <1>2, <1>3, DirectoriesStep DEF StoredStay

LEMMA RetentionKeeps ==
  ASSUME StorageType, NEW id \in DOMAIN entries, T!Swept(id), NEW dir, IsDirectory(dir)
  PROVE  OnlyOldestGo(dir, T!Retained(entries[id].policy, dir))
  <1>1. entries[id] \in T!Entry /\ entries[id].policy # Nothing
    BY DEF StorageType, T!Swept
  <1>2. entries[id].policy \in RetentionPolicies
    BY <1>1 DEF T!Entry
  <1>3. entries[id].policy.keep \in Nat \cup {Nothing}
    BY <1>1, <1>2, OperationsAssumption DEF T!StorageAssumption
  <1> QED
    BY <1>3, RetainedEnds, NoDirectory DEF OnlyOldestGo

LEMMA SweepKeeps ==
  ASSUME StorageInv, DirectoriesInv, T!EnforceAllRetention
  PROVE  DirectoriesInv' /\ T!OldestGo
  <1> DEFINE gone == {id \in T!Live : T!Swept(id) /\ directories[entries[id].location] = Nothing}
             reached(l) == index[l] # Nothing /\ T!Swept(index[l]) /\ \A id \in gone : index[l] < id
  <1>1. /\ directories' = [l \in Locations |-> IF reached(l) THEN T!Retained(entries[index[l]].policy, directories[l])
                                               ELSE directories[l]]
        /\ UNCHANGED <<entries, index, archives, stored>>
    BY DEF T!EnforceAllRetention
  <1> HIDE DEF gone
  <1>2. \A l \in Locations : directories'[l] = IF reached(l) THEN T!Retained(entries[index[l]].policy, directories[l])
                                               ELSE directories[l]
    BY <1>1
  <1>3. ASSUME NEW l \in Locations, reached(l)
        PROVE  OnlyOldestGo(directories[l], T!Retained(entries[index[l]].policy, directories[l]))
    <2>1. index[l] \in T!Live /\ entries[index[l]].location = l /\ index[l] \in DOMAIN entries /\ index[l] \in Nat
      BY <1>3 DEF StorageInv, StorageType, T!IndexAgrees, T!Live
    <2>2. directories[l] # Nothing
      BY <1>3, <2>1 DEF gone
    <2>3. IsDirectory(directories[l])
      BY <2>2 DEF DirectoriesInv
    <2> QED
      BY <1>3, <2>1, <2>3, RetentionKeeps DEF StorageInv
  <1> HIDE DEF reached
  <1>4. \A l \in Locations : OnlyOldestGo(directories[l], directories'[l])
    BY <1>2, <1>3 DEF OnlyOldestGo
  <1>5. directories' = [l \in Locations |-> directories'[l]]
    BY <1>1, <1>2
  <1>6. \E Sets : stored' \in Seq(Sets) /\ Len(stored') = Len(archives')
    BY <1>1 DEF DirectoriesInv
  <1> QED
    BY <1>1, <1>4, <1>5, <1>6, DirectoriesStep

LEMMA ArchiveLeaves ==
  ASSUME StorageInv, DirectoriesInv, NEW id \in DOMAIN entries, T!Archive(id)
  PROVE  DirectoriesInv' /\ T!OldestGo
  <1> PICK l : l = ArchiveOf[entries[id].location]
    OBVIOUS
  <1> PICK copies : copies = T!CollectFiles(entries[id].location)
    OBVIOUS
  <1> PICK r : r = [source |-> id, location |-> l, checksums |-> copies, validated |-> Nothing]
    OBVIOUS
  <1>1. directories' = T!Made(l) /\ stored' = Append(stored, copies) /\ archives' = Append(archives, r)
    BY DEF T!Archive, T!Opened
  <1> PICK new : new = IF directories[l] = Nothing THEN <<>> ELSE directories[l]
    OBVIOUS
  <1>2. directories' = [k \in Locations |-> IF k = l THEN new ELSE directories[k]]
    BY <1>1 DEF T!Made, DirectoriesInv
  <1>3. \A k \in Locations : directories'[k] = IF k = l THEN new ELSE directories[k]
    BY <1>2
  <1>4. directories' = [k \in Locations |-> directories'[k]]
    BY <1>2, <1>3
  <1>5. \A k \in Locations : OnlyOldestGo(directories[k], directories'[k])
    BY <1>3 DEF OnlyOldestGo
  <1> PICK Sets : stored \in Seq(Sets) /\ Len(stored) = Len(archives)
    BY DEF DirectoriesInv
  <1> PICK Kinds : archives \in Seq(Kinds)
    BY DEF StorageInv, StorageType
  <1>6. /\ stored' \in Seq(Sets \cup {copies}) /\ Len(stored') = Len(stored) + 1
        /\ \A a \in DOMAIN archives : stored'[a] = stored[a]
    <2>1. stored \in Seq(Sets \cup {copies}) /\ DOMAIN archives = 1..Len(stored)
      OBVIOUS
    <2> QED
      BY <1>1, <2>1
  <1>7. Len(archives') = Len(archives) + 1 /\ \A a \in DOMAIN archives : archives'[a] = archives[a]
    <2>1. archives \in Seq(Kinds \cup {r}) /\ DOMAIN archives = 1..Len(archives)
      OBVIOUS
    <2> QED
      BY <1>1, <2>1
  <1>8. \E Those : stored' \in Seq(Those) /\ Len(stored') = Len(archives')
    BY <1>6, <1>7
  <1> QED
    BY <1>4, <1>5, <1>6, <1>7, <1>8, DirectoriesStep

LEMMA ValidationLeaves ==
  ASSUME StorageInv, DirectoriesInv, NEW a \in DOMAIN archives, T!ValidateArchive(a)
  PROVE  DirectoriesInv' /\ T!OldestGo
  <1> PICK v : v = T!Valid(a)
    OBVIOUS
  <1>1. archives' = [archives EXCEPT ![a].validated = v] /\ UNCHANGED <<directories, stored>>
    BY DEF T!ValidateArchive
  <1>2. PICK Made : /\ archives \in Seq(Made)
                    /\ \A m \in Made : m = [source |-> m.source, location |-> m.location, checksums |-> m.checksums,
                                            validated |-> m.validated]
    BY DEF StorageInv, StorageType
  <1>3. \A b \in DOMAIN archives : archives'[b].checksums = archives[b].checksums
    <2>1. ASSUME NEW b \in DOMAIN archives PROVE archives[b] \in Made
      BY <1>2
    <2> QED
      BY <1>1, <1>2, <2>1
  <1>4. Len(archives') = Len(archives)
    BY <1>1, <1>2
  <1>5. StoredStay
    BY <1>1, <1>3, <1>4 DEF StoredStay
  <1> QED
    BY <1>1, <1>5, NothingTouched

LEMMA DiskKeeps ==
  ASSUME DirectoriesInv, T!External
  PROVE  DirectoriesInv'
  <1> PICK Sets : stored \in Seq(Sets) /\ Len(stored) = Len(archives)
    BY DEF DirectoriesInv
  <1>1. ASSUME NEW k \in Locations, NEW new, directories' = [directories EXCEPT ![k] = new],
               new = Nothing \/ IsDirectory(new), archives' = archives,
               \E Those : stored' \in Seq(Those) /\ Len(stored') = Len(archives)
        PROVE  DirectoriesInv'
    <2>1. directories' = [l \in Locations |-> IF l = k THEN new ELSE directories[l]]
      BY <1>1 DEF DirectoriesInv
    <2>2. \A l \in Locations : directories'[l] = IF l = k THEN new ELSE directories[l]
      BY <2>1
    <2>3. directories' = [l \in Locations |-> directories'[l]]
      BY <2>1, <2>2
    <2>4. \A l \in Locations : directories'[l] = Nothing \/ IsDirectory(directories'[l])
      BY <1>1, <2>2 DEF DirectoriesInv
    <2> QED
      BY <1>1, <2>3, <2>4 DEF DirectoriesInv, IsDirectory, OldFirst
  <1>2. ASSUME NEW k \in Locations, T!RemoveDirectory(k)
        PROVE  DirectoriesInv'
    <2>1. \E Those : stored' \in Seq(Those) /\ Len(stored') = Len(archives)
      <3>1. stored' = [a \in 1..Len(stored) |-> IF archives[a].location = k THEN {} ELSE stored[a]]
        BY <1>2 DEF T!RemoveDirectory
      <3>2. \A a \in 1..Len(stored) : (IF archives[a].location = k THEN {} ELSE stored[a]) \in Sets \cup {{}}
        OBVIOUS
      <3>3. stored' \in Seq(Sets \cup {{}}) /\ Len(stored') = Len(stored)
        BY <3>1, <3>2
      <3> QED
        BY <3>3
    <2> QED
      BY <1>1, <1>2, <2>1 DEF T!RemoveDirectory
  <1>3. ASSUME NEW k \in Locations, T!GrowOld(k)
        PROVE  DirectoriesInv'
    <2>1. IsDirectory(directories[k]) /\ stored' = stored /\ archives' = archives
      BY <1>3 DEF T!GrowOld, DirectoriesInv
    <2>2. PICK i \in DOMAIN directories[k] : /\ \A j \in 1..(i - 1) : directories[k][j].old
                                             /\ directories' = [directories EXCEPT ![k][i].old = TRUE]
      BY <1>3 DEF T!GrowOld
    <2> PICK new : new = [directories[k] EXCEPT ![i].old = TRUE]
      OBVIOUS
    <2>3. directories' = [directories EXCEPT ![k] = new]
      BY <2>2
    <2>4. IsDirectory(new)
      BY <2>1, <2>2, DirectoryGrowsOld
    <2> QED
      BY <1>1, <2>1, <2>3, <2>4
  <1>4. ASSUME NEW k \in Locations, NEW f \in Files, T!Write(k, f)
        PROVE  DirectoriesInv'
    <2>1. IsDirectory(directories[k]) /\ stored' = stored /\ archives' = archives
      BY <1>4 DEF T!Write, DirectoriesInv
    <2> PICK new : new = Append(T!Without(directories[k], f), [file |-> f, old |-> FALSE])
      OBVIOUS
    <2>2. directories' = [directories EXCEPT ![k] = new]
      BY <1>4 DEF T!Write
    <2>3. IsDirectory(new)
      BY <2>1, DirectoryWritten
    <2> QED
      BY <1>1, <2>1, <2>2, <2>3
  <1> QED
    BY <1>2, <1>3, <1>4 DEF T!External

LEMMA DirectoriesHold ==
  ASSUME StorageInv, DirectoriesInv, T!Next
  PROVE  DirectoriesInv' /\ T!OldestGo
  <1>1. ASSUME T!External PROVE DirectoriesInv' /\ T!OldestGo
    BY <1>1, DiskKeeps DEF T!OldestGo
  <1>2. ASSUME NEW l \in Locations, NEW isFile \in BOOLEAN, NEW p \in RetentionPolicies, T!Allocate(l, isFile, p)
        PROVE  DirectoriesInv' /\ T!OldestGo
    <2>1. directories' = T!Made(l) /\ StoredStay
      BY <1>2 DEF T!Allocate, StoredStay
    <2> QED
      BY <2>1, MadeKeeps
  <1>3. ASSUME NEW id \in DOMAIN entries, T!Activate(id) \/ T!Release(id)
        PROVE  DirectoriesInv' /\ T!OldestGo
    <2>1. directories' = directories /\ StoredStay
      BY <1>3 DEF T!Activate, T!Release, StoredStay
    <2> QED
      BY <2>1, NothingTouched
  <1>4. ASSUME NEW id \in DOMAIN entries, T!EnforceRetention(id)
        PROVE  DirectoriesInv' /\ T!OldestGo
    <2> PICK k : k = entries[id].location
      OBVIOUS
    <2> PICK new : new = T!Retained(entries[id].policy, directories[k])
      OBVIOUS
    <2>1. directories' = [directories EXCEPT ![k] = new] /\ StoredStay /\ T!Swept(id) /\ directories[k] # Nothing
      BY <1>4 DEF T!EnforceRetention, StoredStay
    <2>2. ASSUME k \in Locations PROVE OnlyOldestGo(directories[k], new)
      <3>1. IsDirectory(directories[k])
        BY <2>1, <2>2 DEF DirectoriesInv
      <3> QED
        BY <2>1, <3>1, RetentionKeeps DEF StorageInv
    <2> QED
      BY <2>1, <2>2, DirectorySet
  <1>5. ASSUME NEW id \in DOMAIN entries, T!ArchiveFails(id)
        PROVE  DirectoriesInv' /\ T!OldestGo
    <2> PICK k : k = ArchiveOf[entries[id].location]
      OBVIOUS
    <2>1. (directories' = directories \/ directories' = T!Made(k)) /\ StoredStay
      BY <1>5 DEF T!ArchiveFails, T!Opened, StoredStay
    <2> QED
      BY <2>1, MadeKeeps, NothingTouched
  <1> QED
    BY <1>1, <1>2, <1>3, <1>4, <1>5, SweepKeeps, ArchiveLeaves, ValidationLeaves DEF T!Next

LEMMA DirectoriesStart == T!Init => DirectoriesInv
  <1> SUFFICES ASSUME T!Init PROVE DirectoriesInv
    OBVIOUS
  <1>1. directories = [l \in Locations |-> directories[l]] /\ \A l \in Locations : directories[l] = Nothing
    BY DEF T!Init
  <1>2. stored \in Seq({}) /\ Len(stored) = Len(archives)
    BY DEF T!Init
  <1> QED
    BY <1>1, <1>2 DEF DirectoriesInv

(* OldestGoFirst (core/storage_authority: retention.ts and archive.ts): for any locations, files,
   policies and bounds, no step of the authority takes a file out of a valid archive, nor any
   files out of a directory but the oldest, nor a directory away. *)
THEOREM OldestFilesGo == OperationsSpec => OldestGoFirst
  <1>1. OperationsInit => StorageInv /\ DirectoriesInv
    BY StorageStarts, DirectoriesStart DEF OperationsInit
  <1>2. StorageInv /\ DirectoriesInv /\ [OperationsNext]_operationsVars
          => StorageInv' /\ DirectoriesInv' /\ [focus = "storage" => T!OldestGo]_storageVars
    <2> SUFFICES ASSUME StorageInv, DirectoriesInv, [OperationsNext]_operationsVars
                 PROVE  StorageInv' /\ DirectoriesInv' /\ [focus = "storage" => T!OldestGo]_storageVars
      OBVIOUS
    <2>1. (focus = "storage" /\ T!Next) \/ UNCHANGED storageVars
      BY DEF OperationsNext, operationsVars
    <2>2. StorageInv'
      BY <2>1, StorageStep
    <2>3. CASE focus = "storage" /\ T!Next
      BY <2>2, <2>3, DirectoriesHold
    <2>4. CASE UNCHANGED storageVars
      <3>1. directories' = directories /\ StoredStay
        BY <2>4 DEF storageVars, StoredStay
      <3> QED
        BY <2>2, <2>4, <3>1, NothingTouched
    <2> QED
      BY <2>1, <2>3, <2>4
  <1> QED
    BY <1>1, <1>2, PTL DEF OperationsSpec, OldestGoFirst
=============================================================================
