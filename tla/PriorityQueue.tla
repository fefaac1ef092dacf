---------------------------- MODULE PriorityQueue ----------------------------
(* The binary min-heap of core/event_bus/src/queue.ts, index for index (the *)
(* array is 0-based, heap[i] there is heap[i + 1] here).                     *)
EXTENDS Naturals, Sequences, FiniteSets, Functions

CONSTANTS Ranks,      \* the values of PRIORITY_RANK
          MaxSize,    \* maxSize: enqueue throws QueueOverflowError at it
          MaxItems    \* bound of the model on the number of enqueues

VARIABLES heap, sequenceCounter,
          served      \* the envelopes dequeue() returned, in order

vars == <<heap, sequenceCounter, served>>

\* Mutant: the insertion sequence does not break ties.
MutLess(a, b) == a.rank < b.rank
\* compare(a, b) < 0
Less(a, b) == a.rank < b.rank \/ (a.rank = b.rank /\ a.sequence < b.sequence)

Swap(h, i, j) == [h EXCEPT ![i] = h[j], ![j] = h[i]]
Parent(i) == i \div 2       \* floor((i0 - 1) / 2) of the 0-based index i0 = i - 1

RECURSIVE BubbleUp(_, _)
BubbleUp(h, i) ==
  IF i = 1 \/ ~Less(h[i], h[Parent(i)]) THEN h ELSE BubbleUp(Swap(h, i, Parent(i)), Parent(i))

\* Mutant: swaps with the left child whenever that is smaller.
MutSmallest(h, i) ==
  IF 2 * i <= Len(h) /\ Less(h[2 * i], h[i]) THEN 2 * i ELSE i

\* The smallest of h[i] and its children, the left child tried first.
Smallest(h, i) ==
  LET left  == 2 * i
      right == 2 * i + 1
      s     == IF left <= Len(h) /\ Less(h[left], h[i]) THEN left ELSE i
  IN  IF right <= Len(h) /\ Less(h[right], h[s]) THEN right ELSE s

RECURSIVE BubbleDown(_, _)
BubbleDown(h, i) ==
  LET s == Smallest(h, i) IN IF s = i THEN h ELSE BubbleDown(Swap(h, i, s), s)

Init == heap = <<>> /\ sequenceCounter = 0 /\ served = <<>>

Enqueue(r) ==
  /\ sequenceCounter < MaxItems
  /\ Len(heap) < MaxSize
  /\ sequenceCounter' = sequenceCounter + 1
  /\ heap' = BubbleUp(Append(heap, [rank |-> r, sequence |-> sequenceCounter']), Len(heap) + 1)
  /\ UNCHANGED served

\* pop() the last item and, unless it was the only one, let it sink from the root.
Dequeue ==
  /\ heap # <<>>
  /\ LET rest == SubSeq(heap, 1, Len(heap) - 1)
     IN  heap' = IF rest = <<>> THEN rest
                 ELSE BubbleDown([rest EXCEPT ![1] = heap[Len(heap)]], 1)
  /\ served' = Append(served, heap[1])
  /\ UNCHANGED sequenceCounter

Next == (\E r \in Ranks : Enqueue(r)) \/ Dequeue

Spec == Init /\ [][Next]_vars

----------------------------------------------------------------------------
\* No item is smaller than its parent, after any sequence of operations.
HeapOrder == \A i \in 2..Len(heap) : ~Less(heap[i], heap[Parent(i)])

\* The heap keeps the promise: nothing lost or duplicated, always the most
\* urgent item first, FIFO within a priority.
Promise == INSTANCE QueuePromise WITH waiting <- Range(heap), enqueued <- sequenceCounter
KeepsPromise == Promise!Spec
=============================================================================
