---------------------- MODULE ResilienceAuthority_proofs ----------------------
(* Theorems about ResilienceAuthority, for any domains, values, number of      *)
(* overlapping calls and bounds.                                               *)
EXTENDS ResilienceAuthority, TLAPS, SequenceTheorems

----------------------------------------------------------------------------
(* Types, as far as the proofs need them.                                      *)

Held == Values \cup {Nothing, Damaged}
Ops == {"idle", "backup", "verifyNew", "return", "verify", "recover", "restore"}
CallT == [op : Ops, backup : 0..MaxBackups, recovery : Nat, done : Nat, ok : BOOLEAN, copy : Copy]

Types ==
  /\ state \in [D -> Held] /\ live \in 0..MaxBackups
  /\ files \in [1..MaxBackups -> [D -> Held]] /\ taken \in [1..MaxBackups -> [D -> Held]]
  /\ backups \in Seq(Copy) /\ Len(backups) <= MaxBackups
  /\ recoveries \in Seq(Recovery)
  /\ calls \in [Callers -> CallT]

LEMMA Bounds ==
  /\ MaxBackups \in Nat /\ MaxRecoveries \in Nat /\ N \in Nat /\ N # 0
  /\ \A k \in 1..N : Domains[k] \in D
  /\ \A d \in D : \E k \in 1..N : d = Domains[k]
  /\ Restorable \subseteq D
  <1>1. Domains \in Seq(STRING) /\ Domains # <<>>
    BY ResilienceAssumption
  <1>2. DOMAIN Domains = 1..N /\ N \in Nat
    BY <1>1, LenProperties DEF N
  <1>3. N # 0
    BY <1>1, EmptySeq DEF N
  <1> QED
    BY <1>2, <1>3, ResilienceAssumption DEF D

LEMMA IdleType ==
  /\ Idle \in CallT /\ Idle.op = "idle" /\ Idle.copy \in Copy
  /\ Idle.copy.status = "taking" /\ Idle.copy.verification = "unverified"
  BY Bounds DEF Idle, CallT, Ops, Copy, BackupStatus

\* What a step writes for a call, by what the invariants see of it.
Becomes(c, op, b, r) ==
  \E f \in CallT : Go(c, f) /\ f.op = op /\ f.backup = b /\ f.recovery = r

LEMMA BecomesType ==
  ASSUME Types, NEW c \in Callers, NEW op, NEW b, NEW r, Becomes(c, op, b, r)
  PROVE  /\ calls' \in [Callers -> CallT]
         /\ calls'[c].op = op /\ calls'[c].backup = b /\ calls'[c].recovery = r
         /\ \A e \in Callers \ {c} : calls'[e] = calls[e]
  BY DEF Types, Becomes, Go

LEMMA IdleBecomes ==
  ASSUME NEW c \in Callers, Go(c, Idle)
  PROVE  Becomes(c, "idle", 0, 0)
  BY IdleType DEF Becomes, Idle

LEMMA CallType ==
  ASSUME Types, NEW c \in Callers
  PROVE  /\ calls[c] \in CallT /\ calls[c].op \in Ops /\ calls[c].backup \in 0..MaxBackups /\ calls[c].recovery \in Nat
         /\ calls[c].done \in Nat /\ calls[c].ok \in BOOLEAN /\ calls[c].copy \in Copy
  BY DEF Types, CallT

LEMMA KnownCopy ==
  ASSUME Types, NEW b \in DOMAIN backups
  PROVE  backups[b] \in Copy /\ b \in 1..MaxBackups
  <1>1. DOMAIN backups = 1..Len(backups) /\ Len(backups) \in Nat
    BY LenProperties DEF Types
  <1>2. backups[b] \in Copy
    BY <1>1, ElementOfSeq DEF Types
  <1> QED
    BY <1>1, <1>2, Bounds DEF Types

----------------------------------------------------------------------------
(* What each action writes for its call. *)

LEMMA CreateBecomes ==
  ASSUME Types, NEW c \in Callers, NEW works \in BOOLEAN, CreateBackup(c, works)
  PROVE  Becomes(c, "backup", Len(backups) + 1, 0)
  <1> DEFINE n == Len(backups) + 1
             f == [Idle EXCEPT !.op = "backup", !.backup = n, !.done = 1, !.ok = works]
  <1>1. n \in 0..MaxBackups
    BY LenProperties, Bounds DEF Types, CreateBackup
  <1>2. Go(c, f)
    BY DEF CreateBackup
  <1> HIDE DEF n
  <1>3. f \in CallT /\ f.op = "backup" /\ f.backup = n /\ f.recovery = 0
    BY <1>1, IdleType DEF Idle, CallT, Ops
  <1> HIDE DEF f
  <1>4. Becomes(c, "backup", n, 0)
    BY <1>2, <1>3 DEF Becomes
  <1> QED
    BY <1>4 DEF n

\* The call goes on with the same backup and recovery.
LEMMA OnBecomes ==
  ASSUME Types, NEW c \in Callers, NEW op \in Ops, NEW k \in Nat, NEW ok \in BOOLEAN, NEW copy \in Copy,
         NEW f, Go(c, f),
         \/ f = [calls[c] EXCEPT !.op = op]
         \/ f = [calls[c] EXCEPT !.done = k, !.ok = ok] /\ op = calls[c].op
         \/ f = [calls[c] EXCEPT !.op = op, !.done = k, !.copy = copy, !.ok = ok]
         \/ f = [calls[c] EXCEPT !.op = op, !.done = k, !.ok = ok]
  PROVE  Becomes(c, op, calls[c].backup, calls[c].recovery)
  <1>1. f \in CallT /\ f.op = op /\ f.backup = calls[c].backup /\ f.recovery = calls[c].recovery
    <2> DEFINE v == calls[c]
    <2>1. v \in CallT
      BY CallType
    <2>2. \/ f = [v EXCEPT !.op = op]
          \/ f = [v EXCEPT !.done = k, !.ok = ok] /\ op = v.op
          \/ f = [v EXCEPT !.op = op, !.done = k, !.copy = copy, !.ok = ok]
          \/ f = [v EXCEPT !.op = op, !.done = k, !.ok = ok]
      OBVIOUS
    <2> HIDE DEF v
    <2>3. f \in CallT /\ f.op = op /\ f.backup = v.backup /\ f.recovery = v.recovery
      BY <2>1, <2>2 DEF CallT
    <2> QED
      BY <2>3 DEF v
  <1> QED
    BY <1>1 DEF Becomes

LEMMA RegisterBecomes ==
  ASSUME Types, NEW c \in Callers, Register(c)
  PROVE  Becomes(c, "idle", 0, 0) \/ Becomes(c, "verifyNew", calls[c].backup, calls[c].recovery)
  <1>1. CASE calls[c].ok
    <2> DEFINE copy == [status |-> "stored", verification |-> "unverified"]
               ok == Valid(calls[c].backup, Domains[1])
               f == [calls[c] EXCEPT !.op = "verifyNew", !.done = 1, !.copy = copy, !.ok = ok]
    <2>1. Go(c, f)
      BY <1>1 DEF Register
    <2>2. copy \in Copy /\ ok \in BOOLEAN /\ "verifyNew" \in Ops
      BY DEF Copy, BackupStatus, Valid, Ops
    <2>3. f = [calls[c] EXCEPT !.op = "verifyNew", !.done = 1, !.copy = copy, !.ok = ok]
      OBVIOUS
    <2> HIDE DEF copy, ok, f
    <2> QED
      BY <2>1, <2>2, <2>3, OnBecomes
  <1>2. CASE ~calls[c].ok
    BY <1>2, IdleBecomes DEF Register
  <1> QED
    BY <1>1, <1>2

LEMMA VerifyBecomes ==
  ASSUME Types, NEW c \in Callers, NEW b \in 1..MaxBackups, VerifyBackup(c, b)
  PROVE  Becomes(c, "verify", b, 0)
  <1> DEFINE copy == backups[b]
             ok == Valid(b, Domains[1])
             f == [Idle EXCEPT !.op = "verify", !.backup = b, !.done = 1, !.copy = copy, !.ok = ok]
  <1>1. Go(c, f)
    BY DEF VerifyBackup
  <1>2. copy \in Copy /\ ok \in BOOLEAN
    BY KnownCopy DEF VerifyBackup, Known, Valid
  <1> HIDE DEF copy, ok
  <1>b. b \in 0..MaxBackups
    BY Bounds
  <1>3. f \in CallT /\ f.op = "verify" /\ f.backup = b /\ f.recovery = 0
    BY <1>2, <1>b, IdleType DEF Idle, CallT, Ops
  <1> HIDE DEF f
  <1> QED
    BY <1>1, <1>3 DEF Becomes

LEMMA NextBecomes ==
  ASSUME Types, NEW c \in Callers, VerifyNext(c) \/ \E works \in BOOLEAN : BackupNext(c, works)
  PROVE  Becomes(c, calls[c].op, calls[c].backup, calls[c].recovery)
  <1>1. PICK ok \in BOOLEAN : Go(c, [calls[c] EXCEPT !.done = calls[c].done + 1, !.ok = ok])
    <2>1. CASE VerifyNext(c)
      BY <2>1, CallType DEF VerifyNext, Valid
    <2>2. ASSUME NEW works \in BOOLEAN, BackupNext(c, works)
          PROVE  \E ok \in BOOLEAN : Go(c, [calls[c] EXCEPT !.done = calls[c].done + 1, !.ok = ok])
      BY <2>2, CallType DEF BackupNext
    <2> QED
      BY <2>1, <2>2
  <1>2. calls[c].done + 1 \in Nat /\ calls[c].op \in Ops /\ calls[c].copy \in Copy
    BY CallType
  <1> DEFINE f == [calls[c] EXCEPT !.done = calls[c].done + 1, !.ok = ok]
  <1>3. Go(c, f) /\ f = [calls[c] EXCEPT !.done = calls[c].done + 1, !.ok = ok]
    BY <1>1
  <1> HIDE DEF f
  <1> QED
    BY <1>2, <1>3, OnBecomes

LEMMA VerifiedBecomes ==
  ASSUME Types, NEW c \in Callers, Verified(c)
  PROVE  Becomes(c, "idle", 0, 0) \/ Becomes(c, "return", calls[c].backup, calls[c].recovery)
  <1>1. CASE Go(c, Idle)
    BY <1>1, IdleBecomes
  <1>2. CASE Go(c, [calls[c] EXCEPT !.op = "return"])
    <2>1. "return" \in Ops /\ 0 \in Nat /\ TRUE \in BOOLEAN /\ calls[c].copy \in Copy
      BY CallType DEF Ops
    <2> DEFINE f == [calls[c] EXCEPT !.op = "return"]
    <2>2. Go(c, f) /\ f = [calls[c] EXCEPT !.op = "return"]
      BY <1>2
    <2> HIDE DEF f
    <2> QED
      BY <2>1, <2>2, OnBecomes
  <1> QED
    BY <1>1, <1>2 DEF Verified

LEMMA RequestBecomes ==
  ASSUME Types, NEW c \in Callers, NEW b \in 1..MaxBackups, NEW compatible \in BOOLEAN, RequestRecovery(c, b, compatible)
  PROVE  \/ /\ Becomes(c, "recover", b, Len(recoveries) + 1)
            /\ recoveries' = Append(recoveries, [backup |-> b, status |-> "compatibility-verified"])
         \/ /\ Becomes(c, "idle", 0, 0)
            /\ recoveries' = Append(recoveries, [backup |-> b, status |-> "failed"])
  <1> DEFINE proceeds == backups[b].verification = "verified" /\ compatible
             n == Len(recoveries) + 1
             ok == \A d \in D : Valid(b, d)
             f == [Idle EXCEPT !.op = "recover", !.backup = b, !.recovery = n, !.ok = ok]
  <1>1. CASE proceeds
    <2>1. Go(c, f)
      BY <1>1 DEF RequestRecovery
    <2>2. n \in Nat /\ ok \in BOOLEAN
      BY LenProperties DEF Types
    <2> HIDE DEF n, ok
    <2>b. b \in 0..MaxBackups
      BY Bounds
    <2>3. f \in CallT /\ f.op = "recover" /\ f.backup = b /\ f.recovery = n
      BY <2>2, <2>b, IdleType DEF Idle, CallT, Ops
    <2> HIDE DEF f
    <2>4. Becomes(c, "recover", b, n)
      BY <2>1, <2>3 DEF Becomes
    <2> QED
      BY <1>1, <2>4 DEF n, RequestRecovery
  <1>2. CASE ~proceeds
    BY <1>2, IdleBecomes DEF RequestRecovery
  <1> QED
    BY <1>1, <1>2

\* The handler's body: what it restores, and how its call goes on.
LEMMA RestoreShape ==
  ASSUME Types, NEW c \in Callers, NEW k \in 1..N, Restore(c, k)
  PROVE  /\ thrown \subseteq thrown'
         /\ \/ /\ Becomes(c, "idle", 0, 0)
               /\ "recover" \in thrown'
            \/ /\ Becomes(c, "restore", calls[c].backup, calls[c].recovery)
               /\ calls'[c].done = k
               /\ calls'[c].ok => calls[c].ok
               /\ calls'[c].ok /\ Domains[k] \in Restorable => Content(calls[c].backup, Domains[k]) # Damaged
  <1> DEFINE d == Domains[k]
             content == Content(calls[c].backup, d)
             throws == d \in Restorable \ {Database} /\ content = Damaged
             ok == calls[c].ok /\ (d \in Restorable => (d \in Restorable /\ content # Damaged))
             f == [calls[c] EXCEPT !.op = "restore", !.done = k, !.ok = ok]
  <1>1. CASE throws
    <2>1. Go(c, Idle) /\ thrown' = thrown \cup {"recover"}
      BY <1>1 DEF Restore
    <2> QED
      BY <2>1, IdleBecomes
  <1>2. CASE ~throws
    <2>1. Go(c, f) /\ thrown' = thrown
      BY <1>2 DEF Restore
    <2>2. ok \in BOOLEAN /\ k \in Nat /\ "restore" \in Ops /\ calls[c].copy \in Copy
      BY CallType, Bounds DEF Ops
    <2>3. ok => calls[c].ok /\ (d \in Restorable => content # Damaged)
      OBVIOUS
    <2> HIDE DEF ok
    <2>4. f = [calls[c] EXCEPT !.op = "restore", !.done = k, !.ok = ok]
      OBVIOUS
    <2>5. f.done = k /\ f.ok = ok
      BY CallType DEF CallT
    <2> HIDE DEF f
    <2>6. Becomes(c, "restore", calls[c].backup, calls[c].recovery)
      BY <2>1, <2>2, <2>4, OnBecomes
    <2>7. calls'[c] = f
      BY <2>1 DEF Go, Types
    <2> QED
      BY <2>1, <2>3, <2>5, <2>6, <2>7
  <1> QED
    BY <1>1, <1>2

----------------------------------------------------------------------------
(* The inductive invariant, in two parts: Calling and Contents below.  First,
   whose call a backup or a recovery is. *)

Later == {"verifyNew", "return", "verify", "recover", "restore"}
Works == {"recover", "restore"}
Holds(r, b, s) == r \in DOMAIN recoveries /\ recoveries[r].backup = b /\ recoveries[r].status = s
Owns(op, b, r) ==
  /\ op = "backup" => b \in DOMAIN backups /\ backups[b].status = "taking"
  /\ op \in Later => b \in Known
  /\ op = "recover" => Holds(r, b, "compatibility-verified")
  /\ op = "restore" => Holds(r, b, "integrity-verified")
Own == \A c \in Callers : Owns(calls[c].op, calls[c].backup, calls[c].recovery)
Distinct == \A c, e \in Callers : c # e =>
  /\ calls[c].op = "backup" /\ calls[e].op = "backup" => calls[c].backup # calls[e].backup
  /\ calls[c].op \in Works /\ calls[e].op \in Works => calls[c].recovery # calls[e].recovery
LiveKnown == live # 0 => live \in Known

\* What the files hold, and what a call under way has restored.
Kept(b, d, v) == v = taken[b][d] \/ (d = Database /\ b \in rewritten)
FilesKeep == \A b \in 1..MaxBackups, d \in D : files[b][d] = Damaged \/ Kept(b, d, files[b][d])
LiveKeeps == live # 0 => \A d \in D : d = Database => Kept(live, d, state[d])
Restored(b, n) == \A k \in 1..n : Domains[k] \in Restorable => Kept(b, Domains[k], state[Domains[k]])
RestoresHold == \A c \in Callers :
  calls[c].op = "restore" /\ calls[c].ok /\ calls[c].recovery \notin disturbed
    => Restored(calls[c].backup, calls[c].done)

----------------------------------------------------------------------------
(* The records. *)

LEMMA AppendKeeps ==
  ASSUME NEW T, NEW s \in Seq(T), NEW e \in T, NEW t, t = Append(s, e)
  PROVE  /\ t \in Seq(T) /\ Len(t) = Len(s) + 1 /\ Len(s) \in Nat
         /\ DOMAIN s = 1..Len(s) /\ DOMAIN t = 1..(Len(s) + 1)
         /\ \A k \in DOMAIN s : k \in DOMAIN t /\ t[k] = s[k]
         /\ t[Len(s) + 1] = e /\ Len(s) + 1 \notin DOMAIN s
  BY AppendProperties, LenProperties

LEMMA SetKeeps ==
  ASSUME NEW T, NEW s \in Seq(T), NEW k \in DOMAIN s, NEW e \in T, NEW t, t = [s EXCEPT ![k] = e]
  PROVE  /\ t \in Seq(T) /\ Len(t) = Len(s) /\ DOMAIN t = DOMAIN s
         /\ t[k] = e /\ \A j \in DOMAIN s \ {k} : t[j] = s[j]
  BY ExceptSeq, LenProperties

\* A recovery whose status is set.
LEMMA StatusSet ==
  ASSUME Types, NEW r \in DOMAIN recoveries, NEW s \in RecoveryStatus, SetStatus(r, s)
  PROVE  /\ recoveries' \in Seq(Recovery) /\ DOMAIN recoveries' = DOMAIN recoveries
         /\ recoveries'[r].status = s /\ recoveries'[r].backup = recoveries[r].backup
         /\ \A q \in DOMAIN recoveries \ {r} : recoveries'[q] = recoveries[q]
  <1> DEFINE e == [recoveries[r] EXCEPT !.status = s]
  <1>1. recoveries[r] \in Recovery
    BY ElementOfSeq, LenProperties DEF Types
  <1>2. e \in Recovery /\ e.status = s /\ e.backup = recoveries[r].backup
    BY <1>1 DEF Recovery
  <1>3. recoveries' = [recoveries EXCEPT ![r] = e]
    BY DEF SetStatus
  <1> HIDE DEF e
  <1> QED
    BY <1>2, <1>3, SetKeeps DEF Types

----------------------------------------------------------------------------
(* What a call owns stays its own through the steps of others. *)

LEMMA OwnSame ==
  ASSUME UNCHANGED <<backups, recoveries>>, NEW o, NEW b, NEW r, Owns(o, b, r)
  PROVE  Owns(o, b, r)'
  BY DEF Owns, Known, Holds

LEMMA OwnAppended ==
  ASSUME Types, NEW copy \in Copy, backups' = Append(backups, copy), recoveries' = recoveries,
         NEW o, NEW b, NEW r, Owns(o, b, r)
  PROVE  Owns(o, b, r)'
  <1>1. \A k \in DOMAIN backups : k \in DOMAIN backups' /\ backups'[k] = backups[k]
    BY AppendKeeps DEF Types
  <1> QED
    BY <1>1 DEF Owns, Known, Holds

LEMMA OwnSet ==
  ASSUME Types, NEW k \in DOMAIN backups, NEW copy \in Copy, copy.status # "taking",
         backups' = [backups EXCEPT ![k] = copy], recoveries' = recoveries,
         NEW o, NEW b, NEW r, Owns(o, b, r), o = "backup" => b # k
  PROVE  Owns(o, b, r)'
  <1>1. /\ DOMAIN backups' = DOMAIN backups /\ backups'[k] = copy
        /\ \A j \in DOMAIN backups \ {k} : backups'[j] = backups[j]
    BY SetKeeps DEF Types
  <1> QED
    BY <1>1 DEF Owns, Known, Holds

LEMMA OwnRequested ==
  ASSUME Types, NEW e \in Recovery, recoveries' = Append(recoveries, e), backups' = backups,
         NEW o, NEW b, NEW r, Owns(o, b, r)
  PROVE  Owns(o, b, r)'
  <1>1. \A k \in DOMAIN recoveries : k \in DOMAIN recoveries' /\ recoveries'[k] = recoveries[k]
    BY AppendKeeps DEF Types
  <1> QED
    BY <1>1 DEF Owns, Known, Holds

LEMMA OwnStatus ==
  ASSUME Types, NEW q \in DOMAIN recoveries, NEW s \in RecoveryStatus, SetStatus(q, s), backups' = backups,
         NEW o, NEW b, NEW r, Owns(o, b, r), o \in Works => r # q
  PROVE  Owns(o, b, r)'
  <1>1. /\ DOMAIN recoveries' = DOMAIN recoveries
        /\ \A k \in DOMAIN recoveries \ {q} : recoveries'[k] = recoveries[k]
    BY StatusSet
  <1> QED
    BY <1>1 DEF Owns, Known, Holds, Works

\* The step of a call that owns what it goes on with.
LEMMA OwnStep ==
  ASSUME Types, Own, NEW c \in Callers, NEW op, NEW b, NEW r, Becomes(c, op, b, r), Owns(op, b, r)',
         \A e \in Callers \ {c} : \A o, k, q :
           o = calls[e].op /\ k = calls[e].backup /\ q = calls[e].recovery => Owns(o, k, q)'
  PROVE  Own'
  <1> SUFFICES ASSUME NEW e \in Callers, NEW o, NEW k, NEW q,
                      o = calls'[e].op, k = calls'[e].backup, q = calls'[e].recovery
               PROVE  Owns(o, k, q)'
    BY DEF Own, Owns, Known, Holds
  <1>1. CASE e = c
    BY <1>1, BecomesType
  <1>2. CASE e # c
    BY <1>2, BecomesType
  <1> QED
    BY <1>1, <1>2

\* No two calls share what they work on, if this one took over nothing new.
LEMMA DistinctStep ==
  ASSUME Types, Distinct, NEW c \in Callers, NEW op, NEW b, NEW r, Becomes(c, op, b, r),
         op = "backup" => \A e \in Callers \ {c} : calls[e].op = "backup" => calls[e].backup # b,
         op \in Works => \A e \in Callers \ {c} : calls[e].op \in Works => calls[e].recovery # r
  PROVE  Distinct'
  BY BecomesType DEF Distinct

LEMMA OthersDistinct ==
  ASSUME Own, Distinct, NEW c \in Callers
  PROVE  /\ calls[c].op = "backup" => \A e \in Callers \ {c} : calls[e].op = "backup" => calls[e].backup # calls[c].backup
         /\ calls[c].op \in Works => \A e \in Callers \ {c} : calls[e].op \in Works => calls[e].recovery # calls[c].recovery
         /\ \A e \in Callers : calls[e].op = "backup" => calls[e].backup \in DOMAIN backups /\ backups[calls[e].backup].status = "taking"
         /\ \A e \in Callers : calls[e].op \in Works => calls[e].recovery \in DOMAIN recoveries
         /\ calls[c].op \in Later => calls[c].backup \in Known
         /\ Owns(calls[c].op, calls[c].backup, calls[c].recovery)
  BY DEF Own, Distinct, Owns, Works, Holds

\* Every recovery keeps its call if this one keeps its own, or ends it.
LEMMA OrphanStep ==
  ASSUME Types, NoOrphanRecovery, NEW c \in Callers, NEW op, NEW b, NEW r, Becomes(c, op, b, r),
         DOMAIN recoveries' = DOMAIN recoveries, thrown \subseteq thrown',
         \A q \in DOMAIN recoveries :
           \/ recoveries'[q].status \in {"operational", "failed"}
           \/ "recover" \in thrown' /\ recoveries'[q].status = "integrity-verified"
           \/ /\ recoveries'[q] = recoveries[q]
              /\ calls[c].op \notin Works \/ calls[c].recovery # q
           \/ calls[c].op \in Works /\ op \in Works /\ r = q
  PROVE  NoOrphanRecovery'
  <1> SUFFICES ASSUME NEW q \in DOMAIN recoveries
               PROVE  \/ recoveries'[q].status \in {"operational", "failed"}
                      \/ \E e \in Callers : calls'[e].op \in Works /\ calls'[e].recovery = q
                      \/ "recover" \in thrown' /\ recoveries'[q].status = "integrity-verified"
    BY DEF NoOrphanRecovery, Works
  <1>1. CASE op \in Works /\ r = q
    BY <1>1, BecomesType
  <1>2. CASE recoveries'[q] = recoveries[q] /\ (calls[c].op \notin Works \/ calls[c].recovery # q)
    <2>1. \A e \in Callers : calls[e].op \in Works /\ calls[e].recovery = q => calls'[e] = calls[e]
      BY <1>2, BecomesType
    <2> QED
      BY <1>2, <2>1 DEF NoOrphanRecovery, Works
  <1> QED
    BY <1>1, <1>2

LEMMA KnownGrows ==
  ASSUME \A b : Owns("return", b, 0) => Owns("return", b, 0)'
  PROVE  Known \subseteq Known'
  <1> SUFFICES ASSUME NEW b \in Known PROVE b \in Known'
    OBVIOUS
  <1>1. Owns("return", b, 0)
    BY DEF Owns, Later
  <1>2. Owns("return", b, 0)'
    BY <1>1
  <1> QED
    BY <1>2 DEF Owns, Later

----------------------------------------------------------------------------
(* The calls: what each action leaves of Calling. *)

Calling == Types /\ Own /\ Distinct /\ NoOrphanRecovery /\ LiveKnown

LEMMA SaveKeeps ==
  ASSUME Types, NEW b \in 1..MaxBackups, NEW d \in D, NEW works \in BOOLEAN, Save(b, d, works)
  PROVE  /\ files' \in [1..MaxBackups -> [D -> Held]] /\ taken' \in [1..MaxBackups -> [D -> Held]]
         /\ files'[b][d] = taken'[b][d]
         /\ \A k \in 1..MaxBackups, e \in D : <<k, e>> # <<b, d>> => files'[k][e] = files[k][e] /\ taken'[k][e] = taken[k][e]
         /\ \A k \in 1..MaxBackups \ {b} : files'[k] = files[k] /\ taken'[k] = taken[k]
  <1> DEFINE v == IF works THEN state[d] ELSE Nothing
  <1>1. v \in Held
    BY DEF Types, Held
  <1>2. files' = [files EXCEPT ![b][d] = v] /\ taken' = [taken EXCEPT ![b][d] = files'[b][d]]
    BY DEF Save
  <1> HIDE DEF v
  <1>3. files'[b][d] = v
    BY <1>2 DEF Types
  <1>4. taken' = [taken EXCEPT ![b][d] = v]
    BY <1>2, <1>3
  <1> QED
    BY <1>1, <1>2, <1>3, <1>4 DEF Types

LEMMA CreateCalling ==
  ASSUME Calling, NEW c \in Callers, NEW works \in BOOLEAN, CreateBackup(c, works)
  PROVE  Calling'
  <1> PICK n : n = Len(backups) + 1
    OBVIOUS
  <1>1. Becomes(c, "backup", n, 0)
    BY CreateBecomes DEF Calling
  <1>2. Save(n, Domains[1], works) /\ backups' = Append(backups, Idle.copy) /\ n <= MaxBackups
        /\ calls[c].op = "idle" /\ UNCHANGED <<state, live, recoveries, thrown>>
    BY DEF CreateBackup
  <1>3. /\ backups' \in Seq(Copy) /\ Len(backups') = n /\ n \in 1..MaxBackups /\ n \notin DOMAIN backups
        /\ n \in DOMAIN backups' /\ backups'[n].status = "taking"
    BY <1>2, AppendKeeps, IdleType, Bounds DEF Calling, Types
  <1>4. files' \in [1..MaxBackups -> [D -> Held]] /\ taken' \in [1..MaxBackups -> [D -> Held]]
    BY <1>2, <1>3, SaveKeeps, Bounds DEF Calling
  <1>5. \A o, b, r : Owns(o, b, r) => Owns(o, b, r)'
    BY <1>2, OwnAppended, IdleType DEF Calling
  <1>6. Types'
    BY <1>1, <1>2, <1>3, <1>4, BecomesType DEF Calling, Types
  <1>7. Own'
    <2>1. Owns("backup", n, 0)'
      BY <1>3 DEF Owns, Later
    <2>2. \A e \in Callers : Owns(calls[e].op, calls[e].backup, calls[e].recovery)
      BY DEF Calling, Own
    <2> QED
      BY <1>1, <1>5, <2>1, <2>2, OwnStep DEF Calling
  <1>8. Distinct'
    BY <1>1, <1>3, OthersDistinct, DistinctStep DEF Calling, Works
  <1>9. NoOrphanRecovery'
    BY <1>1, <1>2, OrphanStep DEF Calling, Works
  <1>10. LiveKnown'
    BY <1>2, <1>5, KnownGrows DEF Calling, LiveKnown
  <1> QED
    BY <1>6, <1>7, <1>8, <1>9, <1>10 DEF Calling

\* A step of a call that leaves the records of backups and recoveries alone, and
\* goes on with what it has or ends.
LEMMA QuietCalling ==
  ASSUME Calling, NEW c \in Callers, NEW op, NEW b, NEW r, Becomes(c, op, b, r),
         UNCHANGED <<backups, recoveries>>, thrown \subseteq thrown', live' # 0 => live' \in Known,
         state' \in [D -> Held], live' \in 0..MaxBackups,
         files' \in [1..MaxBackups -> [D -> Held]], taken' \in [1..MaxBackups -> [D -> Held]],
         \/ op = calls[c].op /\ b = calls[c].backup /\ r = calls[c].recovery
         \/ op = "return" /\ b = calls[c].backup /\ calls[c].op \in Later \ Works
         \/ op = "verify" /\ b \in Known /\ calls[c].op = "idle"
         \/ op = "idle" /\ calls[c].op \notin Works
         \/ op = "idle" /\ calls[c].op = "restore" /\ "recover" \in thrown'
  PROVE  Calling'
  <1>1. \A o, k, q : Owns(o, k, q) => Owns(o, k, q)'
    BY OwnSame
  <1>2. Types'
    BY BecomesType DEF Calling, Types
  <1>3. Own'
    <2>1. Owns(op, b, r)
      BY OthersDistinct DEF Calling, Owns, Later, Works
    <2>2. \A e \in Callers : Owns(calls[e].op, calls[e].backup, calls[e].recovery)
      BY DEF Calling, Own
    <2> QED
      BY <1>1, <2>1, <2>2, OwnStep DEF Calling
  <1>4. Distinct'
    <2>1. op = "backup" => op = calls[c].op /\ b = calls[c].backup
      OBVIOUS
    <2>2. op \in Works => op = calls[c].op /\ r = calls[c].recovery
      BY DEF Works
    <2> QED
      BY <2>1, <2>2, OthersDistinct, DistinctStep DEF Calling
  <1>5. NoOrphanRecovery'
    <2>1. CASE calls[c].op \notin Works
      BY <2>1, OrphanStep DEF Calling
    <2>2. CASE calls[c].op \in Works /\ op = calls[c].op /\ r = calls[c].recovery
      BY <2>2, OrphanStep DEF Calling
    <2>3. CASE op = "idle" /\ calls[c].op = "restore" /\ "recover" \in thrown'
      <3>1. recoveries[calls[c].recovery].status = "integrity-verified"
        BY <2>3, OthersDistinct DEF Calling, Owns, Holds
      <3> QED
        BY <2>3, <3>1, OrphanStep DEF Calling
    <2> QED
      BY <2>1, <2>2, <2>3 DEF Works, Later
  <1>6. LiveKnown'
    BY DEF LiveKnown, Known
  <1> QED
    BY <1>2, <1>3, <1>4, <1>5, <1>6 DEF Calling

\* A backup of this call gets the record it rests in.
LEMMA RecordCalling ==
  ASSUME Calling, NEW c \in Callers, NEW op, NEW b, NEW r, Becomes(c, op, b, r),
         NEW k, k = calls[c].backup, NEW copy \in Copy, copy.status # "taking",
         calls[c].op \in {"backup", "verify", "verifyNew"}, backups' = [backups EXCEPT ![k] = copy],
         UNCHANGED <<state, files, live, taken, recoveries, thrown>>,
         op = "idle" \/ (op \in {"verifyNew", "return"} /\ b = k)
  PROVE  Calling'
  <1>1. /\ k \in DOMAIN backups
        /\ \A e \in Callers \ {c} : calls[e].op = "backup" => calls[e].backup # k
    BY OthersDistinct DEF Calling, Later, Known
  <1>2. \A o, j, q : Owns(o, j, q) /\ (o = "backup" => j # k) => Owns(o, j, q)'
    BY <1>1, OwnSet DEF Calling
  <1>3. /\ backups' \in Seq(Copy) /\ Len(backups') = Len(backups) /\ DOMAIN backups' = DOMAIN backups
        /\ backups'[k] = copy
    BY <1>1, SetKeeps DEF Calling, Types
  <1>4. Types'
    BY <1>3, BecomesType DEF Calling, Types
  <1>5. Own'
    <2>1. Owns(op, b, r)'
      BY <1>1, <1>3 DEF Owns, Known, Later
    <2>2. \A e \in Callers : Owns(calls[e].op, calls[e].backup, calls[e].recovery)
      BY DEF Calling, Own
    <2> QED
      BY <1>1, <1>2, <2>1, <2>2, OwnStep DEF Calling
  <1>6. Distinct'
    BY DistinctStep DEF Calling, Works
  <1>7. NoOrphanRecovery'
    BY OrphanStep DEF Calling, Works
  <1>8. LiveKnown'
    BY <1>2, KnownGrows DEF Calling, LiveKnown
  <1> QED
    BY <1>4, <1>5, <1>6, <1>7, <1>8 DEF Calling

LEMMA RegisterCalling ==
  ASSUME Calling, NEW c \in Callers, Register(c)
  PROVE  Calling'
  <1> PICK k : k = calls[c].backup
    OBVIOUS
  <1>1. PICK copy \in Copy : copy.status # "taking" /\ backups' = [backups EXCEPT ![k] = copy]
    <2>1. \A s \in {"stored", "failed"} : [status |-> s, verification |-> "unverified"] \in Copy
      BY DEF Copy, BackupStatus
    <2>2. \/ backups' = [backups EXCEPT ![k] = [status |-> "stored", verification |-> "unverified"]]
          \/ backups' = [backups EXCEPT ![k] = [status |-> "failed", verification |-> "unverified"]]
      BY DEF Register
    <2> QED
      BY <2>1, <2>2
  <1>2. calls[c].op = "backup" /\ UNCHANGED <<state, files, live, taken, recoveries, thrown>>
    BY DEF Register
  <1> QED
    BY <1>1, <1>2, RegisterBecomes, RecordCalling DEF Calling

LEMMA VerifiedCalling ==
  ASSUME Calling, NEW c \in Callers, Verified(c)
  PROVE  Calling'
  <1> PICK k : k = calls[c].backup
    OBVIOUS
  <1>1. calls[c].op \in {"verify", "verifyNew"} /\ UNCHANGED <<state, files, live, taken, recoveries>> /\ thrown \subseteq thrown'
    BY DEF Verified
  <1>2. CASE UNCHANGED backups
    <2>1. live' # 0 => live' \in Known
      BY <1>1 DEF Calling, LiveKnown
    <2>2. /\ state' \in [D -> Held] /\ live' \in 0..MaxBackups
          /\ files' \in [1..MaxBackups -> [D -> Held]] /\ taken' \in [1..MaxBackups -> [D -> Held]]
      BY <1>1 DEF Calling, Types
    <2>3. calls[c].op \notin Works /\ calls[c].op \in Later
      BY <1>1 DEF Works, Later
    <2> QED
      BY <1>1, <1>2, <2>1, <2>2, <2>3, VerifiedBecomes, QuietCalling DEF Calling
  <1>3. CASE ~UNCHANGED backups
    <2>1. PICK copy \in Copy : copy.status # "taking" /\ backups' = [backups EXCEPT ![k] = copy]
      <3>1. /\ [status |-> "available", verification |-> "verified"] \in Copy
            /\ [status |-> "failed", verification |-> "failed"] \in Copy
        BY DEF Copy, BackupStatus
      <3>2. \/ backups' = [backups EXCEPT ![k] = [status |-> "available", verification |-> "verified"]]
            \/ backups' = [backups EXCEPT ![k] = [status |-> "failed", verification |-> "failed"]]
        BY <1>3 DEF Verified
      <3> QED
        BY <3>1, <3>2
    <2>2. UNCHANGED thrown
      BY <1>3 DEF Verified
    <2> QED
      BY <1>1, <2>1, <2>2, VerifiedBecomes, RecordCalling DEF Calling
  <1> QED
    BY <1>2, <1>3

LEMMA RequestCalling ==
  ASSUME Calling, NEW c \in Callers, NEW b \in 1..MaxBackups, NEW compatible \in BOOLEAN,
         RequestRecovery(c, b, compatible)
  PROVE  Calling'
  <1> PICK n : n = Len(recoveries) + 1
    OBVIOUS
  <1>0. PICK s \in {"compatibility-verified", "failed"}, op \in {"recover", "idle"} :
          \E k, q : /\ Becomes(c, op, k, q) /\ (op = "recover" => k = b /\ q = n /\ s = "compatibility-verified")
                    /\ recoveries' = Append(recoveries, [backup |-> b, status |-> s])
                    /\ s = "failed" \/ op = "recover"
    BY RequestBecomes DEF Calling
  <1>1. PICK k, q :
          /\ Becomes(c, op, k, q) /\ (op = "recover" => k = b /\ q = n /\ s = "compatibility-verified")
          /\ recoveries' = Append(recoveries, [backup |-> b, status |-> s])
          /\ s = "failed" \/ op = "recover"
    BY <1>0
  <1>2. calls[c].op = "idle" /\ b \in Known /\ UNCHANGED <<state, files, live, taken, backups, thrown>>
    BY DEF RequestRecovery
  <1> DEFINE e == [backup |-> b, status |-> s]
  <1>3. e \in Recovery /\ e.backup = b /\ e.status = s /\ recoveries' = Append(recoveries, e)
    BY <1>1 DEF Recovery, RecoveryStatus
  <1> HIDE DEF e
  <1>4. /\ recoveries' \in Seq(Recovery) /\ recoveries'[n] = e /\ n \notin DOMAIN recoveries
        /\ DOMAIN recoveries' = DOMAIN recoveries \cup {n}
        /\ \A j \in DOMAIN recoveries : recoveries'[j] = recoveries[j]
    BY <1>3, AppendKeeps DEF Calling, Types
  <1>5. \A o, j, r : Owns(o, j, r) => Owns(o, j, r)'
    BY <1>2, <1>3, OwnRequested DEF Calling
  <1>6. Types'
    BY <1>1, <1>2, <1>4, BecomesType DEF Calling, Types
  <1>7. Own'
    <2>1. Owns(op, k, q)'
      <3>1. CASE op = "recover"
        BY <1>1, <1>2, <1>3, <1>4, <3>1 DEF Owns, Holds, Known
      <3>2. CASE op = "idle"
        BY <3>2 DEF Owns, Later
      <3> QED
        BY <3>1, <3>2
    <2>2. \A d \in Callers : Owns(calls[d].op, calls[d].backup, calls[d].recovery)
      BY DEF Calling, Own
    <2> QED
      BY <1>1, <1>5, <2>1, <2>2, OwnStep DEF Calling
  <1>8. Distinct'
    BY <1>1, <1>4, OthersDistinct, DistinctStep DEF Calling, Works
  <1>9. NoOrphanRecovery'
    <2> SUFFICES ASSUME NEW j \in DOMAIN recoveries \cup {n}
                 PROVE  \/ recoveries'[j].status \in {"operational", "failed"}
                        \/ \E d \in Callers : calls'[d].op \in Works /\ calls'[d].recovery = j
                        \/ "recover" \in thrown' /\ recoveries'[j].status = "integrity-verified"
      BY <1>4 DEF NoOrphanRecovery, Works
    <2>1. CASE j = n
      BY <1>1, <1>3, <1>4, <2>1, BecomesType DEF Calling, Works
    <2>2. CASE j \in DOMAIN recoveries
      <3>1. \A d \in Callers : calls[d].op \in Works => calls'[d] = calls[d]
        BY <1>1, <1>2, BecomesType DEF Calling, Works
      <3> QED
        BY <1>2, <1>4, <2>2, <3>1 DEF Calling, NoOrphanRecovery, Works
    <2> QED
      BY <2>1, <2>2
  <1>10. LiveKnown'
    BY <1>2, <1>5, KnownGrows DEF Calling, LiveKnown
  <1> QED
    BY <1>6, <1>7, <1>8, <1>9, <1>10 DEF Calling

\* What the body of a restore does to the files and to what is restored.
LEMMA RestoreTypes ==
  ASSUME Calling, NEW c \in Callers, calls[c].op \in Works, NEW k \in 1..N, Restore(c, k)
  PROVE  /\ state' \in [D -> Held] /\ live' \in 0..MaxBackups
         /\ files' \in [1..MaxBackups -> [D -> Held]]
         /\ live' # live => live' \in Known
         /\ calls[c].backup \in Known /\ calls[c].backup \in 1..MaxBackups
  <1> DEFINE b == calls[c].backup
             d == Domains[k]
             v == Content(b, d)
  <1>1. b \in Known /\ b \in 1..MaxBackups /\ d \in D
    BY OthersDistinct, KnownCopy, Bounds DEF Calling, Works, Later, Known
  <1>2. v \in Held
    BY <1>1 DEF Calling, Types, Content
  <1>3. /\ state' = state \/ state' = [state EXCEPT ![d] = v]
        /\ live' = live \/ live' = b
        /\ files' = files \/ (live # 0 /\ files' = [files EXCEPT ![live][d] = state[d]])
    BY DEF Restore
  <1> HIDE DEF v, b, d
  <1>4. state' \in [D -> Held]
    BY <1>1, <1>2, <1>3 DEF Calling, Types
  <1>5. live' \in 0..MaxBackups
    <2>1. b \in 0..MaxBackups
      BY <1>1, Bounds
    <2> QED
      BY <1>3, <2>1 DEF Calling, Types
  <1>6. files' \in [1..MaxBackups -> [D -> Held]]
    <2>1. live # 0 => live \in 1..MaxBackups
      BY Bounds DEF Calling, Types
    <2>2. PICK w \in Held : w = state[d]
      BY <1>1 DEF Calling, Types
    <2>3. files \in [1..MaxBackups -> [D -> Held]]
      BY DEF Calling, Types
    <2>4. CASE live # 0 /\ files' = [files EXCEPT ![live][d] = w]
      <3>1. [files[live] EXCEPT ![d] = w] \in [D -> Held]
        BY <1>1, <2>1, <2>3, <2>4
      <3> QED
        BY <2>1, <2>3, <2>4, <3>1
    <2> QED
      BY <1>3, <2>2, <2>3, <2>4
  <1> QED
    BY <1>1, <1>3, <1>4, <1>5, <1>6 DEF b

\* A recovery of this call gets another status.
LEMMA StatusCalling ==
  ASSUME Calling, NEW c \in Callers, NEW op, NEW b, NEW r, Becomes(c, op, b, r),
         NEW q, q = calls[c].recovery, calls[c].op \in Works, NEW s \in RecoveryStatus, SetStatus(q, s),
         UNCHANGED <<backups, taken>>, thrown \subseteq thrown', live' # live => live' \in Known,
         state' \in [D -> Held], live' \in 0..MaxBackups, files' \in [1..MaxBackups -> [D -> Held]],
         \/ op = "restore" /\ b = calls[c].backup /\ r = q /\ s = "integrity-verified"
         \/ op = "idle" /\ s \in {"operational", "failed"}
         \/ op = "idle" /\ s = "integrity-verified" /\ "recover" \in thrown'
  PROVE  Calling'
  <1>1. /\ q \in DOMAIN recoveries /\ recoveries[q].backup = calls[c].backup /\ calls[c].backup \in Known
        /\ \A e \in Callers \ {c} : calls[e].op \in Works => calls[e].recovery # q
    BY OthersDistinct DEF Calling, Works, Later, Owns, Holds
  <1>2. \A o, j, k : Owns(o, j, k) /\ (o \in Works => k # q) => Owns(o, j, k)'
    BY <1>1, OwnStatus DEF Calling
  <1>3. /\ recoveries' \in Seq(Recovery) /\ DOMAIN recoveries' = DOMAIN recoveries
        /\ recoveries'[q].status = s /\ recoveries'[q].backup = recoveries[q].backup
        /\ \A j \in DOMAIN recoveries \ {q} : recoveries'[j] = recoveries[j]
    BY <1>1, StatusSet DEF Calling
  <1>4. Types'
    BY <1>3, BecomesType DEF Calling, Types
  <1>5. Own'
    <2>1. Owns(op, b, r)'
      BY <1>1, <1>3 DEF Owns, Known, Later, Holds
    <2>2. \A e \in Callers : Owns(calls[e].op, calls[e].backup, calls[e].recovery)
      BY DEF Calling, Own
    <2> QED
      BY <1>1, <1>2, <2>1, <2>2, OwnStep DEF Calling
  <1>6. Distinct'
    BY <1>1, DistinctStep DEF Calling, Works
  <1>7. NoOrphanRecovery'
    <2>1. \A j \in DOMAIN recoveries :
           \/ recoveries'[j].status \in {"operational", "failed"}
           \/ "recover" \in thrown' /\ recoveries'[j].status = "integrity-verified"
           \/ recoveries'[j] = recoveries[j] /\ calls[c].recovery # j
           \/ calls[c].op \in Works /\ op \in Works /\ r = j
      BY <1>3 DEF Works
    <2> QED
      BY <1>3, <2>1, OrphanStep DEF Calling
  <1>8. LiveKnown'
    BY DEF Calling, LiveKnown, Known
  <1> QED
    BY <1>4, <1>5, <1>6, <1>7, <1>8 DEF Calling

LEMMA RecoverCalling ==
  ASSUME Calling, NEW c \in Callers, RecoverIntegrity(c)
  PROVE  Calling'
  <1> PICK q : q = calls[c].recovery
    OBVIOUS
  <1>1. calls[c].op \in Works /\ UNCHANGED <<backups, taken>>
    BY DEF RecoverIntegrity, Works
  <1>2. CASE ~calls[c].ok
    <2>1. Becomes(c, "idle", 0, 0) /\ SetStatus(q, "failed") /\ UNCHANGED <<state, live, files, thrown>>
      BY <1>2, IdleBecomes DEF RecoverIntegrity
    <2>2. "failed" \in RecoveryStatus
      BY DEF RecoveryStatus
    <2> QED
      BY <1>1, <2>1, <2>2, StatusCalling DEF Calling, Types
  <1>3. CASE calls[c].ok
    <2>1. 1 \in 1..N
      BY Bounds
    <2>2. Restore(c, 1) /\ SetStatus(q, "integrity-verified")
      BY <1>3 DEF RecoverIntegrity
    <2>3. "integrity-verified" \in RecoveryStatus
      BY DEF RecoveryStatus
    <2>4. /\ state' \in [D -> Held] /\ live' \in 0..MaxBackups
          /\ files' \in [1..MaxBackups -> [D -> Held]]
          /\ live' # live => live' \in Known
      BY <1>1, <2>1, <2>2, RestoreTypes
    <2>5. /\ thrown \subseteq thrown'
          /\ \/ Becomes(c, "idle", 0, 0) /\ "recover" \in thrown'
             \/ Becomes(c, "restore", calls[c].backup, calls[c].recovery)
      BY <2>1, <2>2, RestoreShape DEF Calling
    <2> QED
      BY <1>1, <2>2, <2>3, <2>4, <2>5, StatusCalling
  <1> QED
    BY <1>2, <1>3

LEMMA RestoreCalling ==
  ASSUME Calling, NEW c \in Callers, RestoreNext(c)
  PROVE  Calling'
  <1> PICK k : k = calls[c].done + 1
    OBVIOUS
  <1>1. calls[c].op = "restore" /\ UNCHANGED <<backups, recoveries, taken>> /\ Restore(c, k)
    BY DEF RestoreNext
  <1>2. k \in 1..N
    BY CallType, Bounds DEF Calling, RestoreNext
  <1>3. /\ state' \in [D -> Held] /\ live' \in 0..MaxBackups
        /\ files' \in [1..MaxBackups -> [D -> Held]]
        /\ live' # live => live' \in Known
    BY <1>1, <1>2, RestoreTypes DEF Works
  <1>4. /\ thrown \subseteq thrown'
        /\ \/ Becomes(c, "idle", 0, 0) /\ "recover" \in thrown'
           \/ Becomes(c, "restore", calls[c].backup, calls[c].recovery)
    BY <1>1, <1>2, RestoreShape DEF Calling
  <1>5. (live' # 0 => live' \in Known) /\ taken' \in [1..MaxBackups -> [D -> Held]]
    BY <1>1, <1>3 DEF Calling, LiveKnown, Types
  <1> QED
    BY <1>1, <1>3, <1>4, <1>5, QuietCalling

LEMMA RecoveredCalling ==
  ASSUME Calling, NEW c \in Callers, Recovered(c)
  PROVE  Calling'
  <1> PICK q : q = calls[c].recovery
    OBVIOUS
  <1>1. calls[c].op \in Works /\ UNCHANGED <<backups, taken, state, live, files, thrown>>
        /\ Becomes(c, "idle", 0, 0)
    BY IdleBecomes DEF Recovered, Works
  <1>2. PICK s \in {"operational", "failed"} : SetStatus(q, s)
    BY DEF Recovered
  <1>3. s \in RecoveryStatus
    BY DEF RecoveryStatus
  <1> QED
    BY <1>1, <1>2, <1>3, StatusCalling DEF Calling, Types

LEMMA BackupCalling ==
  ASSUME Calling, NEW c \in Callers, NEW works \in BOOLEAN, BackupNext(c, works)
  PROVE  Calling'
  <1> PICK b : b = calls[c].backup
    OBVIOUS
  <1> PICK k : k = calls[c].done + 1
    OBVIOUS
  <1>1. calls[c].op = "backup" /\ Save(b, Domains[k], works)
        /\ UNCHANGED <<backups, recoveries, state, live, thrown>>
    BY DEF BackupNext
  <1>2. k \in 1..N
    BY CallType, Bounds DEF Calling, BackupNext
  <1>3. b \in 1..MaxBackups
    BY <1>1, OthersDistinct, KnownCopy DEF Calling
  <1>4. files' \in [1..MaxBackups -> [D -> Held]] /\ taken' \in [1..MaxBackups -> [D -> Held]]
    BY <1>1, <1>2, <1>3, SaveKeeps, Bounds DEF Calling
  <1>5. /\ (live' # 0 => live' \in Known) /\ thrown \subseteq thrown'
        /\ state' \in [D -> Held] /\ live' \in 0..MaxBackups
    BY <1>1 DEF Calling, LiveKnown, Types
  <1> QED
    BY <1>1, <1>4, <1>5, NextBecomes, QuietCalling DEF Calling

LEMMA VerifyCalling ==
  ASSUME Calling, NEW c \in Callers,
         VerifyNext(c) \/ BackupReturns(c) \/ \E b \in 1..MaxBackups : VerifyBackup(c, b)
  PROVE  Calling'
  <1>1. UNCHANGED <<backups, recoveries, state, live, files, taken, thrown>>
    BY DEF VerifyNext, BackupReturns, VerifyBackup
  <1>2. /\ (live' # 0 => live' \in Known) /\ thrown \subseteq thrown'
        /\ state' \in [D -> Held] /\ live' \in 0..MaxBackups
        /\ files' \in [1..MaxBackups -> [D -> Held]] /\ taken' \in [1..MaxBackups -> [D -> Held]]
    BY <1>1 DEF Calling, LiveKnown, Types
  <1>3. CASE VerifyNext(c)
    BY <1>1, <1>2, <1>3, NextBecomes, QuietCalling DEF Calling
  <1>4. CASE BackupReturns(c)
    BY <1>1, <1>2, <1>4, IdleBecomes, QuietCalling DEF BackupReturns, Works
  <1>5. ASSUME NEW b \in 1..MaxBackups, VerifyBackup(c, b)
        PROVE  Calling'
    <2>1. b \in Known /\ calls[c].op = "idle"
      BY <1>5 DEF VerifyBackup
    <2>2. Becomes(c, "verify", b, 0)
      BY <1>5, VerifyBecomes DEF Calling
    <2> QED
      BY <1>1, <1>2, <2>1, <2>2, QuietCalling
  <1> QED
    BY <1>3, <1>4, <1>5

\* The authorities, the disk and stuttering do not touch the records or the calls.
LEMMA OutsideCalling ==
  ASSUME Calling, UNCHANGED <<backups, recoveries, calls, live, taken, thrown>>,
         state' \in [D -> Held], files' \in [1..MaxBackups -> [D -> Held]]
  PROVE  Calling'
  <1>1. Types'
    BY DEF Calling, Types
  <1>2. Own' /\ Distinct' /\ NoOrphanRecovery' /\ LiveKnown'
    BY DEF Calling, Own, Owns, Holds, Distinct, NoOrphanRecovery, LiveKnown, Known
  <1> QED
    BY <1>1, <1>2 DEF Calling

LEMMA WriteCalling ==
  ASSUME Calling, NEW d \in D, NEW v \in Values, Write(d, v)
  PROVE  Calling'
  <1>1. state' \in [D -> Held] /\ files' \in [1..MaxBackups -> [D -> Held]]
    BY DEF Write, Calling, Types, Held
  <1> QED
    BY <1>1, OutsideCalling DEF Write

LEMMA CorruptCalling ==
  ASSUME Calling, NEW b \in 1..MaxBackups, NEW d \in D, Corrupt(b, d)
  PROVE  Calling'
  <1>1. state' \in [D -> Held]
    BY DEF Corrupt, Calling, Types
  <1>2. files' \in [1..MaxBackups -> [D -> Held]]
    <2>1. [files[b] EXCEPT ![d] = Damaged] \in [D -> Held]
      BY DEF Calling, Types, Held
    <2>2. files' = [files EXCEPT ![b] = [files[b] EXCEPT ![d] = Damaged]]
      BY DEF Corrupt
    <2> QED
      BY <2>1, <2>2 DEF Calling, Types
  <1> QED
    BY <1>1, <1>2, OutsideCalling DEF Corrupt

LEMMA InitCalling == Init => Calling
  <1> SUFFICES ASSUME Init PROVE Calling
    OBVIOUS
  <1>1. state \in [D -> Held]
    BY DEF Init, Held
  <1>2. files \in [1..MaxBackups -> [D -> Held]] /\ taken \in [1..MaxBackups -> [D -> Held]]
    BY DEF Init, Held
  <1>3. live \in 0..MaxBackups /\ backups \in Seq(Copy) /\ Len(backups) <= MaxBackups /\ recoveries \in Seq(Recovery)
    BY Bounds, EmptySeq DEF Init
  <1>4. calls \in [Callers -> CallT] /\ \A c \in Callers : calls[c].op = "idle"
    BY IdleType DEF Init
  <1>5. Types
    BY <1>1, <1>2, <1>3, <1>4 DEF Types
  <1>6. Own /\ Distinct
    BY <1>4 DEF Own, Owns, Distinct, Works, Later
  <1>7. NoOrphanRecovery /\ LiveKnown
    BY DEF Init, NoOrphanRecovery, LiveKnown
  <1> QED
    BY <1>5, <1>6, <1>7 DEF Calling

LEMMA CallingStep == Calling /\ [Next]_vars => Calling'
  <1> SUFFICES ASSUME Calling, [Next]_vars PROVE Calling'
    OBVIOUS
  <1>1. ASSUME NEW c \in Callers, NEW works \in BOOLEAN, CreateBackup(c, works) \/ BackupNext(c, works)
        PROVE  Calling'
    BY <1>1, CreateCalling, BackupCalling
  <1>2. ASSUME NEW c \in Callers, NEW b \in 1..MaxBackups, VerifyBackup(c, b) \/ \E ok \in BOOLEAN : RequestRecovery(c, b, ok)
        PROVE  Calling'
    BY <1>2, VerifyCalling, RequestCalling
  <1>3. ASSUME NEW c \in Callers, Register(c) \/ VerifyNext(c) \/ Verified(c) \/ BackupReturns(c)
        PROVE  Calling'
    BY <1>3, RegisterCalling, VerifyCalling, VerifiedCalling
  <1>4. ASSUME NEW c \in Callers, RecoverIntegrity(c) \/ RestoreNext(c) \/ Recovered(c)
        PROVE  Calling'
    BY <1>4, RecoverCalling, RestoreCalling, RecoveredCalling
  <1>5. ASSUME NEW d \in D, (\E v \in Values : Write(d, v)) \/ \E b \in 1..MaxBackups : Corrupt(b, d)
        PROVE  Calling'
    BY <1>5, WriteCalling, CorruptCalling
  <1>6. CASE UNCHANGED vars
    BY <1>6, OutsideCalling DEF vars, Calling, Types
  <1> QED
    BY <1>1, <1>2, <1>3, <1>4, <1>5, <1>6 DEF Next

\* A recovery under way has a call that works on it, unless a handler threw out of
\* requestRecovery() (ResilienceAuthority.ts requestRecovery(): the record is left
\* integrity-verified).
THEOREM NeverOrphaned == Spec => []NoOrphanRecovery
  <1>1. Calling => NoOrphanRecovery
    BY DEF Calling
  <1> QED
    BY <1>1, InitCalling, CallingStep, PTL DEF Spec

----------------------------------------------------------------------------
(* The contents: what files, database and restored domains hold. *)

Contents == FilesKeep /\ LiveKeeps /\ RestoresHold

LEMMA QuietContents ==
  ASSUME Calling, Contents, NEW c \in Callers, NEW op, NEW b, NEW r, Becomes(c, op, b, r), op # "restore",
         UNCHANGED <<state, files, live, taken, rewritten>>, disturbed' = disturbed
  PROVE  Contents'
  <1>1. FilesKeep' /\ LiveKeeps'
    BY DEF Contents, FilesKeep, LiveKeeps, Kept
  <1>2. RestoresHold'
    BY BecomesType DEF Calling, Contents, RestoresHold, Restored, Kept
  <1> QED
    BY <1>1, <1>2 DEF Contents

\* A backup being taken is neither live nor being restored.
LEMMA SaveContents ==
  ASSUME Calling, Contents, NEW c \in Callers, NEW op, NEW b, NEW r, Becomes(c, op, b, r), op # "restore",
         NEW d \in D, NEW works \in BOOLEAN, NEW n \in 1..MaxBackups, n \notin Known, Save(n, d, works),
         UNCHANGED <<state, live, rewritten, disturbed>>
  PROVE  Contents'
  <1>1. /\ files'[n][d] = taken'[n][d]
        /\ \A k \in 1..MaxBackups, e \in D : <<k, e>> # <<n, d>> => files'[k][e] = files[k][e] /\ taken'[k][e] = taken[k][e]
        /\ \A k \in 1..MaxBackups \ {n} : taken'[k] = taken[k]
    BY SaveKeeps DEF Calling
  <1>2. FilesKeep'
    <2> SUFFICES ASSUME NEW k \in 1..MaxBackups, NEW e \in D
                 PROVE  files'[k][e] = Damaged \/ files'[k][e] = taken'[k][e] \/ (e = Database /\ k \in rewritten)
      BY DEF FilesKeep, Kept
    <2>1. CASE k = n /\ e = d
      BY <1>1, <2>1
    <2>2. CASE ~(k = n /\ e = d)
      BY <1>1, <2>2 DEF Contents, FilesKeep, Kept
    <2> QED
      BY <2>1, <2>2
  <1>3. LiveKeeps'
    <2>1. live # 0 => live \in Known /\ live \in 1..MaxBackups /\ taken'[live] = taken[live]
      BY <1>1, KnownCopy DEF Calling, LiveKnown, Known
    <2> QED
      BY <2>1 DEF Contents, LiveKeeps, Kept
  <1>4. RestoresHold'
    <2> SUFFICES ASSUME NEW e \in Callers, calls'[e].op = "restore", calls'[e].ok, calls'[e].recovery \notin disturbed,
                        NEW k \in 1..calls'[e].done, Domains[k] \in Restorable, NEW j, j = calls'[e].backup
                 PROVE  Kept(j, Domains[k], state[Domains[k]])'
      BY DEF RestoresHold, Restored, Kept
    <2>1. e # c /\ calls'[e] = calls[e]
      BY BecomesType DEF Calling
    <2>2. Kept(j, Domains[k], state[Domains[k]])
      BY <2>1 DEF Contents, RestoresHold, Restored
    <2>3. j \in Known /\ j \in 1..MaxBackups
      BY <2>1, OthersDistinct, KnownCopy DEF Calling, Later, Known
    <2> QED
      BY <1>1, <2>2, <2>3 DEF Kept
  <1> QED
    BY <1>2, <1>3, <1>4 DEF Contents

LEMMA WriteContents ==
  ASSUME Calling, Contents, NEW d \in D, NEW v \in Values, Write(d, v)
  PROVE  Contents'
  <1>1. /\ UNCHANGED <<files, live, taken, calls, recoveries>> /\ disturbed' = disturbed \cup Recovering
        /\ rewritten' = IF d = Database THEN rewritten \cup ({live} \ {0}) ELSE rewritten
        /\ state' = [state EXCEPT ![d] = v]
    BY DEF Write
  <1>2. FilesKeep'
    BY <1>1 DEF Contents, FilesKeep, Kept
  <1>3. LiveKeeps'
    <2>1. CASE d = Database
      BY <1>1, <2>1 DEF LiveKeeps, Kept
    <2>2. CASE d # Database
      BY <1>1, <2>2 DEF Contents, LiveKeeps, Kept, Calling, Types
    <2> QED
      BY <2>1, <2>2
  <1>4. RestoresHold'
    <2>1. \A c \in Callers : calls[c].op = "restore" => calls[c].recovery \in disturbed'
      <3>1. \A c \in Callers : calls[c].op = "restore" => calls[c].recovery \in DOMAIN recoveries
        BY OthersDistinct DEF Calling, Works
      <3> QED
        BY <1>1, <3>1 DEF Recovering
    <2> QED
      BY <1>1, <2>1 DEF RestoresHold
  <1> QED
    BY <1>2, <1>3, <1>4 DEF Contents

LEMMA CorruptContents ==
  ASSUME Calling, Contents, NEW b \in 1..MaxBackups, NEW d \in D, Corrupt(b, d)
  PROVE  Contents'
  <1>1. /\ UNCHANGED <<state, live, taken, calls, rewritten, disturbed>>
        /\ files' = [files EXCEPT ![b][d] = Damaged]
    BY DEF Corrupt
  <1>2. \A k \in 1..MaxBackups, e \in D : files'[k][e] = Damaged \/ files'[k][e] = files[k][e]
    BY <1>1 DEF Calling, Types
  <1>3. FilesKeep'
    BY <1>1, <1>2 DEF Contents, FilesKeep, Kept
  <1>4. LiveKeeps' /\ RestoresHold'
    BY <1>1 DEF Contents, LiveKeeps, RestoresHold, Restored, Kept
  <1> QED
    BY <1>3, <1>4 DEF Contents

\* What a restored domain is given is what the backup took, unless the live
\* database wrote into the backup's file.
LEMMA RestoreContents ==
  ASSUME Calling, Contents, NEW c \in Callers, NEW k \in 1..N, Restore(c, k), UNCHANGED <<taken, rewritten>>,
         \/ calls[c].op = "recover" /\ k = 1
         \/ calls[c].op = "restore" /\ k = calls[c].done + 1
  PROVE  Contents'
  <1> PICK b : b = calls[c].backup
    OBVIOUS
  <1> PICK d : d = Domains[k]
    OBVIOUS
  <1> PICK v : v = Content(b, d)
    OBVIOUS
  <1>1. calls[c].op \in Works
    BY DEF Works
  <1>2. b \in Known /\ b \in 1..MaxBackups /\ b # 0 /\ d \in D /\ live \in 0..MaxBackups
    BY <1>1, RestoreTypes, Bounds DEF Calling, Types
  <1>3. v # Damaged => Kept(b, d, v)
    BY <1>2 DEF Content, Contents, FilesKeep, LiveKeeps
  <1> DEFINE works == d \in Restorable /\ v # Damaged
  <1>4. /\ state' = IF works THEN [state EXCEPT ![d] = v] ELSE state
        /\ works => disturbed \cup (Recovering \ {calls[c].recovery}) \subseteq disturbed'
        /\ disturbed \subseteq disturbed'
        /\ \/ works /\ d = Database /\ live' = b
              /\ \/ files' = files
                 \/ live # 0 /\ files' = [files EXCEPT ![live][d] = state[d]]
           \/ ~(works /\ d = Database) /\ UNCHANGED <<live, files>>
    BY DEF Restore
  <1>5. \A e \in D : state'[e] = IF works /\ e = d THEN v ELSE state[e]
    BY <1>2, <1>4 DEF Calling, Types
  <1>6. FilesKeep'
    <2>1. CASE files' = files
      BY <2>1 DEF Contents, FilesKeep, Kept
    <2>2. CASE live # 0 /\ d = Database /\ files' = [files EXCEPT ![live][d] = state[d]]
      <3>1. Kept(live, d, state[d])
        BY <1>2, <2>2 DEF Contents, LiveKeeps
      <3>2. \A n \in 1..MaxBackups, e \in D : files'[n][e] = IF n = live /\ e = d THEN state[d] ELSE files[n][e]
        BY <1>2, <2>2 DEF Calling, Types
      <3> QED
        BY <3>1, <3>2 DEF Contents, FilesKeep, Kept
    <2> QED
      BY <1>4, <2>1, <2>2
  <1>7. LiveKeeps'
    BY <1>2, <1>3, <1>4, <1>5 DEF Contents, LiveKeeps, Kept
  <1>8. RestoresHold'
    <2> SUFFICES ASSUME NEW e \in Callers, calls'[e].op = "restore", calls'[e].ok, calls'[e].recovery \notin disturbed',
                        NEW m \in 1..calls'[e].done, Domains[m] \in Restorable, NEW j, j = calls'[e].backup
                 PROVE  Kept(j, Domains[m], state'[Domains[m]])
      BY DEF RestoresHold, Restored, Kept
    <2>1. CASE e # c
      <3>1. calls'[e] = calls[e]
        BY <2>1, RestoreShape, BecomesType DEF Calling
      <3>2. calls[e].recovery \in DOMAIN recoveries /\ calls[e].recovery # calls[c].recovery
        BY <1>1, <2>1, <3>1, OthersDistinct DEF Calling, Works
      <3>3. ~works
        BY <1>4, <3>1, <3>2 DEF Recovering
      <3>4. state' = state /\ calls[e].recovery \notin disturbed
        BY <1>4, <3>1, <3>3
      <3> QED
        BY <3>1, <3>4 DEF Contents, RestoresHold, Restored
    <2>2. CASE e = c
      <3>1. /\ Becomes(c, "restore", b, calls[c].recovery) /\ calls'[c].done = k /\ calls[c].ok
            /\ d \in Restorable => v # Damaged
        <4>1. ~Becomes(c, "idle", 0, 0)
          BY <2>2, BecomesType DEF Calling
        <4>2. /\ Becomes(c, "restore", calls[c].backup, calls[c].recovery) /\ calls'[c].done = k
              /\ calls'[c].ok => calls[c].ok
              /\ calls'[c].ok /\ Domains[k] \in Restorable => Content(calls[c].backup, Domains[k]) # Damaged
          BY <4>1, RestoreShape DEF Calling
        <4>3. calls'[c].ok
          BY <2>2
        <4>4. calls[c].ok /\ (Domains[k] \in Restorable => Content(calls[c].backup, Domains[k]) # Damaged)
          BY <4>2, <4>3
        <4>5. Becomes(c, "restore", b, calls[c].recovery)
          BY <4>2
        <4> QED
          BY <4>2, <4>4, <4>5
      <3>2. j = b /\ calls[c].recovery \notin disturbed
        BY <1>4, <2>2, <3>1, BecomesType DEF Calling
      <3>3. CASE Domains[m] = d
        BY <1>2, <1>3, <1>5, <3>1, <3>2, <3>3
      <3>4. CASE Domains[m] # d
        <4>1. m \in 1..calls[c].done /\ calls[c].op = "restore"
          <5>1. m \in 1..k /\ m # k /\ k \in Nat
            BY <2>2, <3>1, <3>4, Bounds
          <5> QED
            BY <5>1, CallType DEF Calling
        <4>2. Kept(b, Domains[m], state[Domains[m]])
          BY <3>1, <3>2, <4>1 DEF Contents, RestoresHold, Restored
        <4>3. Domains[m] \in D
          BY Bounds
        <4> QED
          BY <1>5, <3>2, <3>4, <4>2, <4>3
      <3> QED
        BY <3>3, <3>4
    <2> QED
      BY <2>1, <2>2
  <1> QED
    BY <1>6, <1>7, <1>8 DEF Contents

LEMMA ContentsStep == Calling /\ Contents /\ [Next]_vars => Contents'
  <1> SUFFICES ASSUME Calling, Contents, [Next]_vars PROVE Contents'
    OBVIOUS
  <1>1. ASSUME NEW c \in Callers, NEW works \in BOOLEAN, CreateBackup(c, works)
        PROVE  Contents'
    <2> PICK n : n = Len(backups) + 1
      OBVIOUS
    <2>1. /\ Becomes(c, "backup", n, 0) /\ Save(n, Domains[1], works) /\ n <= MaxBackups
          /\ UNCHANGED <<state, live, rewritten, disturbed>>
      BY <1>1, CreateBecomes DEF Calling, CreateBackup
    <2>2. n \in 1..MaxBackups /\ n \notin Known
      BY <2>1, LenProperties, Bounds DEF Calling, Types, Known
    <2> QED
      BY <2>1, <2>2, Bounds, SaveContents
  <1>2. ASSUME NEW c \in Callers, NEW works \in BOOLEAN, BackupNext(c, works)
        PROVE  Contents'
    <2> PICK n : n = calls[c].backup
      OBVIOUS
    <2> PICK k : k = calls[c].done + 1
      OBVIOUS
    <2>1. /\ Becomes(c, "backup", n, calls[c].recovery) /\ Save(n, Domains[k], works) /\ calls[c].op = "backup"
          /\ UNCHANGED <<state, live, rewritten, disturbed>>
      BY <1>2, NextBecomes DEF Calling, BackupNext
    <2>2. n \in 1..MaxBackups /\ n \notin Known
      BY <2>1, OthersDistinct, KnownCopy DEF Calling, Known
    <2>3. Domains[k] \in D
      BY <1>2, CallType, Bounds DEF Calling, BackupNext
    <2> QED
      BY <2>1, <2>2, <2>3, SaveContents
  <1>3. ASSUME NEW c \in Callers, Register(c) \/ VerifyNext(c) \/ Verified(c) \/ BackupReturns(c)
        PROVE  Contents'
    <2>1. UNCHANGED <<state, files, live, taken, rewritten, disturbed>>
      BY <1>3 DEF Register, VerifyNext, Verified, BackupReturns
    <2>2. \E op, b, r : Becomes(c, op, b, r) /\ op # "restore"
      <3>1. CASE Register(c)
        BY <3>1, RegisterBecomes DEF Calling
      <3>2. CASE VerifyNext(c)
        BY <3>2, NextBecomes DEF Calling, VerifyNext
      <3>3. CASE Verified(c)
        BY <3>3, VerifiedBecomes DEF Calling
      <3>4. CASE BackupReturns(c)
        BY <3>4, IdleBecomes DEF BackupReturns
      <3> QED
        BY <1>3, <3>1, <3>2, <3>3, <3>4
    <2> QED
      BY <2>1, <2>2, QuietContents
  <1>4. ASSUME NEW c \in Callers, NEW b \in 1..MaxBackups,
               VerifyBackup(c, b) \/ \E ok \in BOOLEAN : RequestRecovery(c, b, ok)
        PROVE  Contents'
    <2>1. UNCHANGED <<state, files, live, taken, rewritten, disturbed>>
      BY <1>4 DEF VerifyBackup, RequestRecovery
    <2>2. \E op, k, r : Becomes(c, op, k, r) /\ op # "restore"
      <3>1. CASE VerifyBackup(c, b)
        BY <3>1, VerifyBecomes DEF Calling
      <3>2. ASSUME NEW ok \in BOOLEAN, RequestRecovery(c, b, ok)
            PROVE  \E op, k, r : Becomes(c, op, k, r) /\ op # "restore"
        <4>1. Becomes(c, "recover", b, Len(recoveries) + 1) \/ Becomes(c, "idle", 0, 0)
          BY <3>2, RequestBecomes DEF Calling
        <4> QED
          BY <4>1
      <3> QED
        BY <1>4, <3>1, <3>2
    <2> QED
      BY <2>1, <2>2, QuietContents
  <1>5. ASSUME NEW c \in Callers, Recovered(c) \/ (RecoverIntegrity(c) /\ ~calls[c].ok)
        PROVE  Contents'
    <2>1. UNCHANGED <<state, files, live, taken, rewritten, disturbed>> /\ Becomes(c, "idle", 0, 0)
      BY <1>5, IdleBecomes DEF Recovered, RecoverIntegrity
    <2> QED
      BY <2>1, QuietContents
  <1>6. ASSUME NEW c \in Callers, RecoverIntegrity(c), calls[c].ok
        PROVE  Contents'
    <2>1. Restore(c, 1) /\ calls[c].op = "recover" /\ UNCHANGED <<taken, rewritten>> /\ 1 \in 1..N
      BY <1>6, Bounds DEF RecoverIntegrity
    <2> QED
      BY <2>1, RestoreContents
  <1>7. ASSUME NEW c \in Callers, RestoreNext(c)
        PROVE  Contents'
    <2> PICK k : k = calls[c].done + 1
      OBVIOUS
    <2>1. Restore(c, k) /\ calls[c].op = "restore" /\ UNCHANGED <<taken, rewritten>>
      BY <1>7 DEF RestoreNext
    <2>2. k \in 1..N
      BY <1>7, CallType, Bounds DEF Calling, RestoreNext
    <2> QED
      BY <2>1, <2>2, RestoreContents
  <1>8. ASSUME NEW d \in D, (\E v \in Values : Write(d, v)) \/ \E b \in 1..MaxBackups : Corrupt(b, d)
        PROVE  Contents'
    BY <1>8, WriteContents, CorruptContents
  <1>9. CASE UNCHANGED vars
    BY <1>9 DEF vars, Contents, FilesKeep, LiveKeeps, RestoresHold, Restored, Kept
  <1> QED
    BY <1>1, <1>2, <1>3, <1>4, <1>5, <1>6, <1>7, <1>8, <1>9 DEF Next

\* The action of RecoveryIsWhole.
Whole ==
  \A r \in DOMAIN recoveries :
    recoveries[r].status # "operational" /\ recoveries'[r].status = "operational" /\ r \notin disturbed
      => \A d \in Restorable : LET b == recoveries[r].backup
                               IN  state'[d] = taken[b][d] \/ (d = Database /\ b \in rewritten)

\* Only Recovered() makes a recovery operational, after the last domain.
LEMMA WholeStep == Calling /\ Contents /\ [Next]_vars => [Whole]_vars
  <1> SUFFICES ASSUME Calling, Contents, Next, NEW r \in DOMAIN recoveries,
                      recoveries[r].status # "operational", recoveries'[r].status = "operational",
                      r \notin disturbed, NEW d \in Restorable
               PROVE  Kept(recoveries[r].backup, d, state'[d])
    BY DEF Whole, Kept
  <1>1. CASE UNCHANGED recoveries
    BY <1>1
  <1>2. ASSUME NEW c \in Callers, NEW b \in 1..MaxBackups, NEW ok \in BOOLEAN, RequestRecovery(c, b, ok)
        PROVE  FALSE
    <2>1. \E e \in Recovery : recoveries' = Append(recoveries, e)
      BY <1>2, RequestBecomes DEF Calling, Recovery, RecoveryStatus
    <2>2. recoveries'[r] = recoveries[r]
      BY <2>1, AppendKeeps DEF Calling, Types
    <2> QED
      BY <2>2
  <1>3. ASSUME NEW c \in Callers, RecoverIntegrity(c)
        PROVE  FALSE
    <2>1. PICK s \in {"failed", "integrity-verified"} : SetStatus(calls[c].recovery, s)
      BY <1>3 DEF RecoverIntegrity
    <2>2. calls[c].recovery \in DOMAIN recoveries /\ s \in RecoveryStatus
      BY <1>3, OthersDistinct DEF Calling, Works, RecoverIntegrity, RecoveryStatus
    <2>3. recoveries'[r] = recoveries[r] \/ recoveries'[r].status = s
      BY <2>1, <2>2, StatusSet DEF Calling
    <2> QED
      BY <2>3
  <1>4. ASSUME NEW c \in Callers, Recovered(c)
        PROVE  Kept(recoveries[r].backup, d, state'[d])
    <2>1. PICK s \in {"failed", "operational"} : SetStatus(calls[c].recovery, s) /\ (s = "operational" => calls[c].ok)
      BY <1>4 DEF Recovered
    <2>2. calls[c].recovery \in DOMAIN recoveries /\ s \in RecoveryStatus
      BY <1>4, OthersDistinct DEF Calling, Works, Recovered, RecoveryStatus
    <2>3. r = calls[c].recovery /\ s = "operational"
      BY <2>1, <2>2, StatusSet DEF Calling
    <2>4. calls[c].op = "restore" /\ calls[c].done = N /\ state' = state
      BY <1>4 DEF Recovered
    <2>5. Restored(calls[c].backup, N)
      BY <2>1, <2>3, <2>4 DEF Contents, RestoresHold
    <2>6. PICK k \in 1..N : d = Domains[k]
      BY Bounds
    <2>7. recoveries[r].backup = calls[c].backup
      BY <2>3, <2>4, OthersDistinct DEF Calling, Owns, Holds
    <2> QED
      BY <2>4, <2>5, <2>6, <2>7 DEF Restored
  <1>5. \/ UNCHANGED recoveries
        \/ \E c \in Callers : RecoverIntegrity(c) \/ Recovered(c)
        \/ \E c \in Callers, b \in 1..MaxBackups, ok \in BOOLEAN : RequestRecovery(c, b, ok)
    BY DEF Next, CreateBackup, BackupNext, Register, VerifyBackup, VerifyNext, Verified, BackupReturns,
           RestoreNext, Write, Corrupt
  <1> QED
    BY <1>1, <1>2, <1>3, <1>4, <1>5

\* A recovery that ends operational undisturbed has put every restorable domain back
\* to what the backup took (ResilienceAuthority.ts requestRecovery() over every
\* handler's restore()), for any number of domains, files corrupted and overlapping
\* backups and recoveries.
THEOREM RecoversWhole == Spec => RecoveryIsWhole
  <1>1. Init => Calling /\ Contents
    <2>1. Init => Contents
      BY DEF Init, Contents, FilesKeep, LiveKeeps, RestoresHold, Kept, Idle
    <2> QED
      BY <2>1, InitCalling
  <1>2. Calling /\ Contents /\ [Next]_vars => (Calling /\ Contents)'
    BY CallingStep, ContentsStep
  <1>3. Calling /\ Contents /\ [Next]_vars => [Whole]_vars
    BY WholeStep
  <1>4. Spec => [][Whole]_vars
    BY <1>1, <1>2, <1>3, PTL DEF Spec
  <1> QED
    BY <1>4 DEF RecoveryIsWhole, Whole
=============================================================================
