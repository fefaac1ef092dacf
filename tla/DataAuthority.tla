---------------------------- MODULE DataAuthority ----------------------------
(***************************************************************************)
(* The Institutional Data Authority (core/data_authority/src): the records *)
(* of one domain in SQLite, transactions nested by savepoints, the audit   *)
(* trail kept in the same database, backups and restores.                  *)
(*                                                                         *)
(* Everything is synchronous: an action is one call, or the beginning or   *)
(* the end of a transaction(fn), whose fn makes the calls in between.      *)
(* The query counters, redaction and durations are left out.  restore() is *)
(* not called inside a transaction.                                        *)
(***************************************************************************)
EXTENDS Integers, Sequences, FiniteSets, FiniteSetsExt, SequencesExt

CONSTANTS
  Ids, Values,      \* records of the domain, values of its unique field
  Paths, Main,      \* database files; the one the process opens when it starts
  SchemaVersion,    \* the version the domain's schema has now
  Hop,              \* the migrations: from a version to the next
  Nothing,          \* no row, no file
  Invalid,          \* data that SchemaManager.validate() rejects
  MaxRevision, MaxAudit, MaxFrames, MaxMarks,  \* bounds of the model
  MaxFiled          \* bound of the model: audit entries of a database when it is backed up or closed

Row == [value : Values, version : Nat, revision : Nat]
\* The operation of an audit entry whose result is success; failures are alike.
Entry == {"create", "update", "delete", "purge", "failure"}
Content == [rows : [Ids -> Row \cup {Nothing}], audit : [Ids -> Seq(Entry)]]

\* DataMigrationRunner.migrate(): hops while a migration starts at the version.
Migrated == LET m[v \in Nat] == IF v \in DOMAIN Hop THEN m[Hop[v]] ELSE v IN m

\* The last line follows from the hops' going up; no prover here does the induction.
ASSUME DataAssumption ==
  /\ Main \in Paths /\ Invalid \notin Values /\ Nothing \notin Row \cup Content
  /\ SchemaVersion \in Nat \ {0} /\ DOMAIN Hop \subseteq Nat
  /\ \A v \in DOMAIN Hop : Hop[v] \in Nat /\ Hop[v] > v
  /\ {MaxRevision, MaxAudit, MaxFrames, MaxMarks, MaxFiled} \subseteq Nat
  /\ \A v \in DOMAIN Hop : Migrated[v] \in Nat

VARIABLES
  conn,        \* the SQLite connection: content and its stack of marks
  depth,       \* TransactionManager.depth
  frames,      \* the transaction(fn) calls running: depth each began at
  live,        \* the file the connection is on
  files,       \* what the other files hold
  auditOpen,   \* the audit trail's and the graph's storage is conn, not a closed one
  unaudited    \* records changed by a call that told its caller it failed

vars == <<conn, depth, frames, live, files, auditOpen, unaudited>>

Empty == [rows |-> [i \in Ids |-> Nothing], audit |-> [i \in Ids |-> <<>>]]
\* A record written before the schema's last version.
Inherited(i, v) ==
  [Empty EXCEPT !.rows[i] = [value |-> v, version |-> SchemaVersion - 1, revision |-> 1],
                !.audit[i] = <<"create">>]

Init ==
  /\ \E c \in {Empty} \cup {Inherited(i, v) : i \in Ids, v \in Values} :
       conn = [content |-> c, marks |-> <<>>]
  /\ depth = 0 /\ frames = <<>>
  /\ live = Main /\ auditOpen = TRUE
  /\ files = [p \in Paths |-> Nothing]
  /\ unaudited = {}

----------------------------------------------------------------------------
\* SQLite, as the provider drives it: a mark is what BEGIN or SAVEPOINT saved.
Mark(c, n) == [name |-> n, saved |-> c.content]
Begin(c) == [c EXCEPT !.marks = <<Mark(c, 0)>>]
Savepoint(c, n) == [c EXCEPT !.marks = Append(@, Mark(c, n))]
\* The most recent mark of a name is the one RELEASE and ROLLBACK TO mean.
Nearest(c, n) == Max({k \in DOMAIN c.marks : c.marks[k].name = n})
Release(c, n) == [c EXCEPT !.marks = SubSeq(@, 1, Nearest(c, n) - 1)]
\* ROLLBACK TO leaves the savepoint on the stack.
RollbackTo(c, n) == [content |-> c.marks[Nearest(c, n)].saved,
                     marks |-> SubSeq(c.marks, 1, Nearest(c, n))]
Commit(c) == [c EXCEPT !.marks = <<>>]
Rollback(c) == [content |-> c.marks[1].saved, marks |-> <<>>]

\* Mutant: a failure undoes the outermost transaction's work too.
MutAbort(c, d) ==
  IF d = 0 THEN Rollback(c) ELSE [RollbackTo(c, d) EXCEPT !.content = c.marks[1].saved]

\* runInTransaction() begun at depth d: before fn, after it, after it threw.
Enter(c, d) == IF d = 0 THEN Begin(c) ELSE Savepoint(c, d)
Leave(c, d) == IF d = 0 THEN Commit(c) ELSE Release(c, d)
Abort(c, d) == IF d = 0 THEN Rollback(c) ELSE RollbackTo(c, d)

\* A whole runInTransaction() whose fn turns the content into new, or throws.
Ran(c, new) == Leave([Enter(c, depth) EXCEPT !.content = new], depth)
Threw(c) == Abort(Enter(c, depth), depth)

\* depth < 0: the next call takes itself for a nested one, and "SAVEPOINT sp_-1" is no SQL.
Ready == depth >= 0 /\ Len(conn.marks) + 2 <= MaxMarks
Audited(c) == MapThenSumSet(LAMBDA i : Len(c.audit[i]), Ids)

\* The call's own transaction has left the connection as done; then its audit
\* entry, in a transaction of its own, and once more in the catch if that throws.
Settle(done, i, operation, accepted) ==
  LET entry == IF accepted THEN operation ELSE "failure"
  IN  /\ Audited(done.content) < MaxAudit
      /\ IF auditOpen
         THEN /\ conn' = Ran(done, [done.content EXCEPT !.audit[i] = Append(@, entry)])
              /\ UNCHANGED unaudited
         ELSE /\ conn' = IF accepted THEN Threw(Threw(done)) ELSE Threw(done)
              /\ unaudited' = IF accepted THEN unaudited \cup {i} ELSE unaudited
      /\ UNCHANGED <<depth, frames, live, files, auditOpen>>

Rows == conn.content.rows
Put(i, row) == Ran(conn, [conn.content EXCEPT !.rows[i] = row])

\* Mutant: records that wait for their migration are not looked at.
MutIsUnique(i, v) ==
  \A j \in Ids \ {i} : Rows[j] # Nothing /\ Rows[j].version = SchemaVersion => Rows[j].value # v
\* assertUnique(): no other record has the value.
IsUnique(i, v) == \A j \in Ids \ {i} : Rows[j] # Nothing => Rows[j].value # v

\* SchemaManager.validate() of the data.
IsValid(v) == v # Invalid

Create(i, v) ==
  /\ Ready
  /\ LET accepted == IsValid(v) /\ IsUnique(i, v) /\ Rows[i] = Nothing
     IN  Settle(IF accepted THEN Put(i, [value |-> v, version |-> SchemaVersion, revision |-> 1])
                ELSE Threw(conn), i, "create", accepted)

\* expected is the expectedRevision, 0 if none is given.
Update(i, v, expected) ==
  /\ Ready
  /\ IF Rows[i] = Nothing
     THEN Settle(conn, i, "update", FALSE)
     ELSE LET accepted == /\ IsValid(v) /\ IsUnique(i, v)
                          /\ expected \in {0, Rows[i].revision}
          IN  /\ Rows[i].revision < MaxRevision
              /\ Settle(IF accepted
                        THEN Put(i, [value |-> v, version |-> SchemaVersion,
                                     revision |-> Rows[i].revision + 1])
                        ELSE Threw(conn), i, "update", accepted)

Delete(i) ==
  /\ Ready
  /\ Settle(IF Rows[i] = Nothing THEN conn ELSE Put(i, Nothing), i, "delete", Rows[i] # Nothing)

\* Mutant: purge() removes and reports nothing.
MutPurge(S) ==
  /\ Ready /\ S # {} /\ \A i \in S : Rows[i] # Nothing
  /\ conn' = Ran(conn, [conn.content EXCEPT !.rows = [i \in Ids |-> IF i \in S THEN Nothing ELSE @[i]]])
  /\ UNCHANGED <<depth, frames, live, files, auditOpen, unaudited>>

\* purge(): the records S are older than the cutoff; a transaction for each and
\* one for its entry.  If the audit throws, so does purge(), after the first.
Purge(S) ==
  /\ Ready /\ S # {} /\ \A i \in S : Rows[i] # Nothing
  /\ Audited(conn.content) + Cardinality(S) <= MaxAudit
  /\ \/ /\ auditOpen
        /\ conn' = Ran(conn, [conn.content EXCEPT
                     !.rows = [i \in Ids |-> IF i \in S THEN Nothing ELSE @[i]],
                     !.audit = [i \in Ids |-> IF i \in S
                                  THEN Append(@[i], "purge")
                                  ELSE @[i]]])
        /\ UNCHANGED unaudited
     \/ /\ ~auditOpen
        /\ \E i \in S : conn' = Threw(Put(i, Nothing)) /\ unaudited' = unaudited \cup {i}
  /\ UNCHANGED <<depth, frames, live, files, auditOpen>>

\* get() and find() write a record back when they migrate it, with no
\* transaction or audit entry of their own.
Get(i) ==
  /\ Rows[i] # Nothing /\ Rows[i].version < SchemaVersion
  /\ Rows[i].version \in DOMAIN Hop
  /\ conn' = [conn EXCEPT !.content.rows[i].version = Migrated[@]]
  /\ UNCHANGED <<depth, frames, live, files, auditOpen, unaudited>>

----------------------------------------------------------------------------
\* transaction(fn)
BeginTransaction ==
  /\ Ready /\ Len(frames) < MaxFrames
  /\ conn' = Enter(conn, depth)
  /\ frames' = Append(frames, depth)
  /\ depth' = depth + 1
  /\ UNCHANGED <<live, files, auditOpen, unaudited>>

Ended(c) ==
  /\ conn' = c
  /\ frames' = Front(frames)
  /\ depth' = depth - 1
  /\ UNCHANGED <<live, files, auditOpen, unaudited>>

ReturnTransaction == frames # <<>> /\ Ended(Leave(conn, Last(frames)))
ThrowTransaction == frames # <<>> /\ Ended(Abort(conn, Last(frames)))

\* COMMIT throws (a busy or full disk): the catch decrements depth once more.
CommitThrows ==
  /\ depth = Len(frames) /\ depth \in {0, 1}
  /\ conn' = IF frames = <<>> THEN conn ELSE Rollback(conn)
  /\ frames' = <<>>
  /\ depth' = -1
  /\ UNCHANGED <<live, files, auditOpen, unaudited>>

\* The data was committed; the COMMIT of its audit entry throws.
AuditCommitThrows(i) ==
  /\ Ready /\ depth = 0 /\ auditOpen /\ Rows[i] # Nothing
  /\ conn' = Put(i, Nothing)
  /\ depth' = -1
  /\ unaudited' = unaudited \cup {i}
  /\ UNCHANGED <<frames, live, files, auditOpen>>

----------------------------------------------------------------------------
Held(p) == IF p = live THEN conn.content ELSE files[p]

\* VACUUM INTO works outside a transaction only, and into a new file.
Backup(p) ==
  /\ conn.marks = <<>> /\ Held(p) = Nothing /\ Audited(conn.content) <= MaxFiled
  /\ files' = [files EXCEPT ![p] = conn.content]
  /\ UNCHANGED <<conn, depth, frames, live, auditOpen, unaudited>>

\* The audit trail and the knowledge graph keep the storage that is closed here.
Restore(p) ==
  /\ frames = <<>> /\ Held(p) # Nothing /\ Audited(conn.content) <= MaxFiled
  /\ files' = [files EXCEPT ![live] = conn.content, ![p] = Nothing]
  /\ conn' = [content |-> Held(p), marks |-> <<>>]
  /\ live' = p
  /\ depth' = 0
  /\ auditOpen' = FALSE
  /\ UNCHANGED <<frames, unaudited>>

\* The process ends and starts again, on the file it is configured with.
Durable == IF conn.marks = <<>> THEN conn.content ELSE conn.marks[1].saved
Restart ==
  /\ files' = [files EXCEPT ![live] = Durable, ![Main] = Nothing]
  /\ conn' = [content |-> IF live = Main THEN Durable ELSE files[Main], marks |-> <<>>]
  /\ live' = Main
  /\ depth' = 0 /\ frames' = <<>>
  /\ auditOpen' = TRUE
  /\ UNCHANGED <<unaudited>>

Next ==
  \/ \E i \in Ids, v \in Values \cup {Invalid} : Create(i, v)
  \/ \E i \in Ids, v \in Values \cup {Invalid}, e \in 0..MaxRevision : Update(i, v, e)
  \/ \E i \in Ids : Delete(i) \/ Get(i) \/ AuditCommitThrows(i)
  \/ \E S \in SUBSET Ids : Purge(S)
  \/ BeginTransaction \/ ReturnTransaction \/ ThrowTransaction \/ CommitThrows
  \/ \E p \in Paths : Backup(p) \/ Restore(p)
  \/ Restart

Spec == Init /\ [][Next]_vars

----------------------------------------------------------------------------
TypeOK ==
  /\ conn.content \in Content
  /\ conn.marks \in Seq([name : Nat, saved : Content])
  /\ depth \in Int /\ frames \in Seq(Nat)
  /\ live \in Paths /\ auditOpen \in BOOLEAN /\ unaudited \subseteq Ids
  /\ files \in [Paths -> Content \cup {Nothing}]

\* A value of the unique field belongs to one record, through rollbacks,
\* purges, restores and restarts (assertUnique() only looks before it writes).
UniqueHolds == \A i, j \in Ids : i # j /\ Rows[i] # Nothing => Rows[j] = Nothing \/ Rows[j].value # Rows[i].value

\* What the entries of a record tell: it exists if the last success is not a
\* removal, and its revision counts the successes since its creation.
Explains(log, row) ==
  LET done   == {k \in DOMAIN log : log[k] # "failure"}
      births == {k \in done : log[k] = "create"}
  IN  IF done = {} \/ log[Max(done)] \in {"delete", "purge"}
      THEN row = Nothing
      ELSE /\ row # Nothing /\ births # {}
           /\ row.revision = 1 + Cardinality({k \in done : k > Max(births)})
\* What the audit trail says of a record is what is there.  Only a call that told
\* its caller of a failure may break this (DataAuthority: "a permanent audit
\* record" of every change).
AuditExplains == \A i \in Ids \ unaudited : Explains(conn.content.audit[i], Rows[i])

\* The savepoints implement nested transactions: each ends by keeping or
\* undoing its own work and nothing else, whatever was left on SQLite's stack.
Nested == INSTANCE NestedTransactions WITH
  current <- conn.content,
  starts  <- [k \in DOMAIN frames |-> conn.marks[Nearest(conn, frames[k])].saved],
  others  <- {files[p] : p \in Paths} \ {Nothing}
KeepsNesting == Nested!Spec

\* What a backup holds stays what backup() wrote ("a backup taken specifically to
\* mark a known-good point for later restoration").
CheckpointKept == [][\A p \in Paths \ {Main} : Held(p) # Nothing => Held(p)' = Held(p)]_vars

\* A failed call leaves an audit record that no rollback takes with it.
AuditAlways == unaudited = {}
NotWedged == depth >= 0
=============================================================================
