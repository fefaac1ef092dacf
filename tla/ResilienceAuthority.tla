------------------------- MODULE ResilienceAuthority -------------------------
(***************************************************************************)
(* The Backup, Recovery & Resilience Authority (core/resilience_authority/ *)
(* src) over the authorities whose state it backs up and restores.         *)
(*                                                                         *)
(* createBackup, verifyBackup and requestRecovery await each domain's      *)
(* handler; a handler's own body does not suspend, so it runs in the step  *)
(* of the call that reaches it.  Between the steps other calls proceed and *)
(* the authorities write.  The configured destination exists; retention,   *)
(* sizes and durations are left out.                                       *)
(***************************************************************************)
EXTENDS Naturals, Sequences, FiniteSets

CONSTANTS
  Domains,       \* the domains backed up, in the order of the handlers
  Database,      \* the domain restored by replacing the file it lives in
  Restorable,    \* those whose handler can restore at all
  Values,        \* what a domain's state can be
  Callers,       \* bound of the model on the calls under way
  MaxBackups, MaxRecoveries, MaxWrites,    \* bounds of the model
  Nothing, Damaged                         \* no such file; a file that was corrupted

ASSUME ResilienceAssumption ==
  /\ Domains \in Seq(STRING) /\ Domains # <<>>
  /\ Restorable \subseteq {Domains[k] : k \in DOMAIN Domains}
  /\ Nothing \notin Values /\ Damaged \notin Values
  /\ {MaxBackups, MaxRecoveries, MaxWrites} \subseteq Nat

D == {Domains[k] : k \in DOMAIN Domains}
N == Len(Domains)

VARIABLES
  state,        \* what each domain's authority holds
  files,        \* what the files of each backup hold
  live,         \* the backup whose file the database is, 0 for its own file
  backups,      \* BackupRegistry, in the order of the createBackup() calls
  points,       \* backups with a recovery point in the graph
  recoveries,
  calls,        \* what each caller's call is doing
  taken,        \* what each domain held when it was backed up
  rewritten,    \* backups whose database file was live when the database was written to
  disturbed,    \* recoveries during whose restores somebody else changed a domain
  thrown,       \* calls that ended in an exception: the name of the call
  writes

vars == <<state, files, live, backups, points, recoveries, calls, taken, rewritten,
          disturbed, thrown, writes>>

\* validated and operational chains of statuses pass in one step of a call: the
\* statuses a record rests in while the call is suspended, and the final ones.
BackupStatus == {"taking", "stored", "available", "failed"}
RecoveryStatus == {"compatibility-verified", "integrity-verified", "operational", "failed"}
Copy == [status : BackupStatus, verification : {"unverified", "verified", "failed"}]
Recovery == [backup : 1..MaxBackups, status : RecoveryStatus]

\* A call: its backup, its recovery, how many handlers it has been through,
\* whether all went well so far, and its copy of the backup's record.
Idle == [op |-> "idle", backup |-> 0, recovery |-> 0, done |-> 0, ok |-> TRUE,
         copy |-> [status |-> "taking", verification |-> "unverified"]]
Call == [op : {"idle", "backup", "verifyNew", "return", "verify", "recover", "restore"},
         backup : 0..MaxBackups, recovery : 0..MaxRecoveries, done : 0..N, ok : BOOLEAN, copy : Copy]

\* assertBackupTransition(), over the statuses that are reached.
Allowed(from, to) == <<from, to>> \in
  {<<"stored", "verified">>, <<"stored", "failed">>, <<"verified", "available">>,
   <<"verified", "failed">>, <<"available", "failed">>, <<"taking", "failed">>}

Init ==
  /\ state \in [D -> Values]
  /\ files = [b \in 1..MaxBackups |-> [d \in D |-> Nothing]]
  /\ taken = files
  /\ live = 0 /\ backups = <<>> /\ points = {} /\ recoveries = <<>>
  /\ calls = [c \in Callers |-> Idle]
  /\ rewritten = {} /\ disturbed = {} /\ thrown = {} /\ writes = 0

Known == {b \in DOMAIN backups : backups[b].status # "taking"}
\* What the file of a backup holds: that of the live database what the database does.
Content(b, d) == IF d = Database /\ live = b THEN state[d] ELSE files[b][d]

Go(c, next) == calls' = [calls EXCEPT ![c] = next]
Recovering == {r \in DOMAIN recoveries : \E c \in Callers : calls[c].op = "restore" /\ calls[c].recovery = r}

----------------------------------------------------------------------------
\* Mutant: a handler that throws leaves half a file, and a record of it.
MutSave(b, d, works) ==
  /\ files' = [files EXCEPT ![b][d] = IF works THEN state[d] ELSE Damaged]
  /\ taken' = [taken EXCEPT ![b][d] = files'[b][d]]

\* The body of handler.backup(): the file is written, or it throws.
Save(b, d, works) ==
  /\ files' = [files EXCEPT ![b][d] = IF works THEN state[d] ELSE Nothing]
  /\ taken' = [taken EXCEPT ![b][d] = files'[b][d]]

\* createBackup(), up to its first await.
CreateBackup(c, works) ==
  LET b == Len(backups) + 1
  IN  /\ calls[c].op = "idle" /\ b <= MaxBackups
      /\ backups' = Append(backups, Idle.copy)
      /\ Save(b, Domains[1], works)
      /\ Go(c, [Idle EXCEPT !.op = "backup", !.backup = b, !.done = 1, !.ok = works])
      /\ UNCHANGED <<state, live, points, recoveries, rewritten, disturbed, thrown, writes>>

BackupNext(c, works) ==
  /\ calls[c].op = "backup" /\ calls[c].done < N
  /\ Save(calls[c].backup, Domains[calls[c].done + 1], works)
  /\ Go(c, [calls[c] EXCEPT !.done = @ + 1, !.ok = @ /\ works])
  /\ UNCHANGED <<state, live, backups, points, recoveries, rewritten, disturbed, thrown, writes>>

\* handler.validate(): JSON files by their checksum, the database's by SQLite's
\* integrity check; noop handlers are not among Domains.
Valid(b, d) == Content(b, d) \notin {Nothing, Damaged}

\* All handlers are through: the record is registered, as failed if one threw;
\* otherwise it is stored, and its verification begins.
Register(c) ==
  LET b == calls[c].backup
      status == IF calls[c].ok THEN "stored" ELSE "failed"
      copy == [status |-> status, verification |-> "unverified"]
  IN  /\ calls[c].op = "backup" /\ calls[c].done = N
      /\ backups' = [backups EXCEPT ![b] = copy]
      /\ Go(c, IF calls[c].ok
               THEN [calls[c] EXCEPT !.op = "verifyNew", !.done = 1, !.copy = copy,
                                     !.ok = Valid(b, Domains[1])]
               ELSE Idle)
      /\ UNCHANGED <<state, files, live, points, recoveries, taken, rewritten, disturbed, thrown, writes>>

\* verifyBackup(): the same verification, of a record registered before.
VerifyBackup(c, b) ==
  /\ calls[c].op = "idle" /\ b \in Known
  /\ Go(c, [Idle EXCEPT !.op = "verify", !.backup = b, !.done = 1, !.copy = backups[b],
                        !.ok = Valid(b, Domains[1])])
  /\ UNCHANGED <<state, files, live, backups, points, recoveries, taken, rewritten, disturbed, thrown, writes>>

VerifyNext(c) ==
  /\ calls[c].op \in {"verify", "verifyNew"} /\ calls[c].done < N
  /\ Go(c, [calls[c] EXCEPT !.done = @ + 1,
                            !.ok = @ /\ Valid(calls[c].backup, Domains[calls[c].done + 1])])
  /\ UNCHANGED <<state, files, live, backups, points, recoveries, taken, rewritten, disturbed, thrown, writes>>

\* verifyBackupInternal() writes back its copy: verified and then available, or
\* failed.  The transition is checked on the copy and may throw.
Verified(c) ==
  LET call == calls[c]
      to == IF call.ok THEN "verified" ELSE "failed"
  IN  /\ call.op \in {"verify", "verifyNew"} /\ call.done = N
      /\ \/ /\ Allowed(call.copy.status, to)
            /\ backups' = [backups EXCEPT ![call.backup] =
                 IF call.ok THEN [status |-> "available", verification |-> "verified"]
                 ELSE [status |-> "failed", verification |-> "failed"]]
            /\ Go(c, IF call.op = "verifyNew" THEN [call EXCEPT !.op = "return"] ELSE Idle)
            /\ UNCHANGED thrown
         \/ /\ ~Allowed(call.copy.status, to)
            /\ thrown' = thrown \cup {IF call.ok THEN "verifyIntact" ELSE "verify"}
            /\ Go(c, Idle)
            /\ UNCHANGED backups
      /\ UNCHANGED <<state, files, live, points, recoveries, taken, rewritten, disturbed, writes>>

\* createBackup() goes on after the verification.
BackupReturns(c) ==
  /\ calls[c].op = "return"
  /\ points' = IF calls[c].ok THEN points \cup {calls[c].backup} ELSE points
  /\ Go(c, Idle)
  /\ UNCHANGED <<state, files, live, backups, recoveries, taken, rewritten, disturbed, thrown, writes>>

----------------------------------------------------------------------------
\* requestRecovery(), up to its first await: it fails at once on a backup that is
\* not verified or of another platform version; else every handler validates.
RequestRecovery(c, b, compatible) ==
  LET r == Len(recoveries) + 1
      proceeds == backups[b].verification = "verified" /\ compatible
  IN  /\ calls[c].op = "idle" /\ b \in Known /\ r <= MaxRecoveries
      /\ recoveries' = Append(recoveries, [backup |-> b,
                         status |-> IF proceeds THEN "compatibility-verified" ELSE "failed"])
      /\ Go(c, IF proceeds THEN [Idle EXCEPT !.op = "recover", !.backup = b, !.recovery = r,
                                             !.ok = \A d \in D : Valid(b, d)]
               ELSE Idle)
      /\ UNCHANGED <<state, files, live, backups, points, taken, rewritten, disturbed, thrown, writes>>

\* The body of handler.restore(), for the domain at position k.
Restore(c, k) ==
  LET b == calls[c].backup
      d == Domains[k]
      content == Content(b, d)
      works == d \in Restorable /\ content # Damaged
      throws == d \in Restorable \ {Database} /\ content = Damaged
      others == Recovering \ {calls[c].recovery}
  IN  /\ state' = IF works THEN [state EXCEPT ![d] = content] ELSE state
      /\ IF works /\ d = Database
         THEN /\ live' = b
              /\ files' = IF live = 0 THEN files ELSE [files EXCEPT ![live][d] = state[d]]
         ELSE UNCHANGED <<live, files>>
      /\ disturbed' = IF works THEN disturbed \cup others ELSE disturbed
      /\ IF throws
         THEN /\ thrown' = thrown \cup {"recover"}
              /\ Go(c, Idle)
         ELSE /\ Go(c, [calls[c] EXCEPT !.op = "restore", !.done = k,
                                        !.ok = @ /\ (d \in Restorable => works)])
              /\ UNCHANGED thrown

SetStatus(r, s) == recoveries' = [recoveries EXCEPT ![r].status = s]

\* Mutant: a failed integrity check ends the call and not the recovery.
MutRecoverIntegrity(c) ==
  /\ calls[c].op = "recover"
  /\ \/ /\ ~calls[c].ok
        /\ Go(c, Idle)
        /\ UNCHANGED <<recoveries, state, live, files, disturbed, thrown>>
     \/ /\ calls[c].ok
        /\ SetStatus(calls[c].recovery, "integrity-verified")
        /\ Restore(c, 1)
  /\ UNCHANGED <<backups, points, taken, rewritten, writes>>

\* The end of requestRecovery()'s wait for the integrity checks, and the first restore.
RecoverIntegrity(c) ==
  /\ calls[c].op = "recover"
  /\ \/ /\ ~calls[c].ok
        /\ SetStatus(calls[c].recovery, "failed")
        /\ Go(c, Idle)
        /\ UNCHANGED <<state, live, files, disturbed, thrown>>
     \/ /\ calls[c].ok
        /\ SetStatus(calls[c].recovery, "integrity-verified")
        /\ Restore(c, 1)
  /\ UNCHANGED <<backups, points, taken, rewritten, writes>>

RestoreNext(c) ==
  /\ calls[c].op = "restore" /\ calls[c].done < N
  /\ Restore(c, calls[c].done + 1)
  /\ UNCHANGED <<backups, points, recoveries, taken, rewritten, writes>>

\* Mutant: a domain whose restore failed is taken for one that is not supported.
MutRecovered(c) ==
  /\ calls[c].op = "restore" /\ calls[c].done = N
  /\ SetStatus(calls[c].recovery, "operational")
  /\ Go(c, Idle)
  /\ UNCHANGED <<state, files, live, backups, points, taken, rewritten, disturbed, thrown, writes>>

Recovered(c) ==
  /\ calls[c].op = "restore" /\ calls[c].done = N
  /\ SetStatus(calls[c].recovery, IF calls[c].ok THEN "operational" ELSE "failed")
  /\ Go(c, Idle)
  /\ UNCHANGED <<state, files, live, backups, points, taken, rewritten, disturbed, thrown, writes>>

----------------------------------------------------------------------------
\* The authorities and the disk.
Write(d, v) ==
  /\ writes < MaxWrites /\ state[d] # v
  /\ writes' = writes + 1
  /\ state' = [state EXCEPT ![d] = v]
  /\ disturbed' = disturbed \cup Recovering
  /\ rewritten' = IF d = Database THEN rewritten \cup ({live} \ {0}) ELSE rewritten
  /\ UNCHANGED <<files, live, backups, points, recoveries, calls, taken, thrown>>

Corrupt(b, d) ==
  /\ writes < MaxWrites
  /\ files[b][d] \in Values /\ ~(d = Database /\ live = b)
  /\ writes' = writes + 1
  /\ files' = [files EXCEPT ![b][d] = Damaged]
  /\ UNCHANGED <<state, live, backups, points, recoveries, calls, taken, rewritten, disturbed, thrown>>

Next ==
  \/ \E c \in Callers :
       \/ \E works \in BOOLEAN : CreateBackup(c, works) \/ BackupNext(c, works)
       \/ \E b \in 1..MaxBackups : VerifyBackup(c, b) \/ \E ok \in BOOLEAN : RequestRecovery(c, b, ok)
       \/ Register(c) \/ VerifyNext(c) \/ Verified(c) \/ BackupReturns(c)
       \/ RecoverIntegrity(c) \/ RestoreNext(c) \/ Recovered(c)
  \/ \E d \in D : (\E v \in Values : Write(d, v)) \/ \E b \in 1..MaxBackups : Corrupt(b, d)

Spec == Init /\ [][Next]_vars

----------------------------------------------------------------------------
TypeOK ==
  /\ state \in [D -> Values] /\ live \in 0..MaxBackups
  /\ files \in [1..MaxBackups -> [D -> Values \cup {Nothing, Damaged}]]
  /\ taken \in [1..MaxBackups -> [D -> Values \cup {Nothing}]]
  /\ backups \in Seq(Copy) /\ recoveries \in Seq(Recovery) /\ calls \in [Callers -> Call]
  /\ points \cup rewritten \subseteq 1..MaxBackups /\ disturbed \subseteq DOMAIN recoveries
  /\ thrown \subseteq {"verify", "verifyIntact", "recover"} /\ writes \in 0..MaxWrites

\* A recovery that ends operational, and that nobody disturbed, has put every
\* restorable domain back to what the backup took ("Recoverability First"), however
\* files were corrupted meanwhile.  What the database wrote into the backup that it
\* was restored to is exempt.
RecoveryIsWhole ==
  [][\A r \in DOMAIN recoveries :
       recoveries[r].status # "operational" /\ recoveries'[r].status = "operational" /\ r \notin disturbed
         => \A d \in Restorable : LET b == recoveries[r].backup
                                  IN  state'[d] = taken[b][d] \/ (d = Database /\ b \in rewritten)]_vars

\* A recovery that is under way has a call that works on it, unless a handler threw
\* out of requestRecovery(): then its record stays integrity-verified for ever.
NoOrphanRecovery ==
  \A r \in DOMAIN recoveries :
    \/ recoveries[r].status \in {"operational", "failed"}
    \/ \E c \in Callers : calls[c].op \in {"recover", "restore"} /\ calls[c].recovery = r
    \/ "recover" \in thrown /\ recoveries[r].status = "integrity-verified"

\* "failed: []": a failed backup is never anything else again.
FailedIsFinal ==
  [][\A b \in DOMAIN backups : backups[b].status = "failed" => backups'[b].status = "failed"]_vars

\* "real, callable verification, independent of the initial mandatory check": that
\* of a backup whose files are intact does not throw.
ReverificationWorks == "verifyIntact" \notin thrown
=============================================================================
