------------------------- MODULE NestedTransactions -------------------------
(* What TransactionManager promises (core/data_authority/src/               *)
(* transactionManager.ts): "atomic transactions with nested-transaction      *)
(* support", where "an inner failure can roll back just its own work         *)
(* without aborting the outer transaction".  DataAuthority implements it     *)
(* with savepoints that are found by name.                                   *)
EXTENDS Sequences, SequencesExt

CONSTANT Content        \* what a database can hold

VARIABLES current,      \* what the open database holds
          starts,       \* what it held when each open transaction began
          others        \* what the databases hold that are not open

vars == <<current, starts, others>>

Init == current \in Content /\ starts = <<>> /\ others \subseteq Content

\* Whatever an operation changes, it changes inside the innermost transaction.
Write  == current' \in Content /\ UNCHANGED starts
Start  == starts' = Append(starts, current) /\ UNCHANGED current
Commit == starts # <<>> /\ starts' = Front(starts) /\ UNCHANGED current
Fail   == starts # <<>> /\ starts' = Front(starts) /\ current' = Last(starts)
\* The process ends: open transactions are undone, another database may be opened.
Crash  == /\ starts' = <<>>
          /\ current' \in {IF starts = <<>> THEN current ELSE Head(starts)} \cup others

Next == /\ others' \subseteq Content
        /\ Write \/ Start \/ Commit \/ Fail \/ Crash

Spec == Init /\ [][Next]_vars
=============================================================================
