---------------------------- MODULE QueuePromise ----------------------------
(* What PriorityEventQueue promises the bus (core/event_bus/src/queue.ts):  *)
(* "higher-priority events dispatch first, and same-priority events         *)
(* preserve insertion order".  PriorityQueue implements it with a heap.     *)
EXTENDS Naturals, FiniteSets, Sequences

CONSTANTS Ranks, MaxSize, MaxItems

VARIABLES waiting,    \* the items enqueued and not yet dequeued
          enqueued,   \* how many items were ever enqueued
          served      \* the items dequeued, in order

vars == <<waiting, enqueued, served>>

Ahead(a, b) == a.rank < b.rank \/ (a.rank = b.rank /\ a.sequence < b.sequence)

Init == waiting = {} /\ enqueued = 0 /\ served = <<>>

Put(r) ==
  /\ Cardinality(waiting) < MaxSize
  /\ enqueued' = enqueued + 1
  /\ waiting' = waiting \cup {[rank |-> r, sequence |-> enqueued']}
  /\ UNCHANGED served

Take ==
  \E x \in waiting :
    /\ \A y \in waiting \ {x} : Ahead(x, y)
    /\ waiting' = waiting \ {x}
    /\ served' = Append(served, x)
    /\ UNCHANGED enqueued

Next == (\E r \in Ranks : Put(r)) \/ Take

Spec == Init /\ [][Next]_vars
=============================================================================
