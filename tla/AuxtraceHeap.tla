---------------------------- MODULE AuxtraceHeap ----------------------------
(***************************************************************************)
(* The priority heap of decode queues (tools/perf/util/auxtrace.c).  The   *)
(* array is a sequence, so the parent of position p (p > 1) is p \div 2.   *)
(* An item is [queue |-> q, ordinal |-> t].                                *)
(***************************************************************************)
EXTENDS Integers, Sequences

(* Where the item of `ordinal' put at position pos comes to rest.          *)
Rest(heap, pos, ordinal) ==
  LET rise[p \in 1..pos] ==
        IF p = 1 \/ heap[p \div 2].ordinal <= ordinal THEN p ELSE rise[p \div 2]
  IN rise[pos]

(* The positions from pos up to the root.                                  *)
Path(pos) ==
  LET up[p \in 0..pos] == IF p = 0 THEN {} ELSE {p} \cup up[p \div 2] IN up[pos]

(* auxtrace_heapify: the items on the path above come down one level.      *)
auxtrace_heapify(heap, pos, item) ==
  LET rest == Rest(heap, pos, item.ordinal) IN
  [p \in DOMAIN heap \cup {pos} |->
     IF p = rest THEN item
     ELSE IF p \in Path(pos) /\ p > rest THEN heap[p \div 2]
     ELSE heap[p]]

(* A mutant: the item is put at the end and not moved up.                  *)
auxtrace_heap__append(heap, queue, ordinal) ==
  Append(heap, [queue |-> queue, ordinal |-> ordinal])

auxtrace_heap__add(heap, queue, ordinal) ==
  auxtrace_heapify(heap, Len(heap) + 1, [queue |-> queue, ordinal |-> ordinal])

(* auxtrace_heap__pop: the hole left by the root sinks to a leaf, and the  *)
(* last item is put there and moved up.  When the hole sinks to a left     *)
(* child that has no sibling, that child was the last item.                *)
Sinks(heap) ==
  LET n == Len(heap)
      sink[p \in 1..n] ==
        IF 2 * p > n THEN <<p>>
        ELSE IF 2 * p + 1 > n THEN <<p, 2 * p>>
        ELSE IF heap[2 * p].ordinal < heap[2 * p + 1].ordinal
             THEN <<p>> \o sink[2 * p] ELSE <<p>> \o sink[2 * p + 1]
  IN sink[1]

auxtrace_heap__pop(heap) ==
  LET n    == Len(heap)
      path == Sinks(heap)
      hole == path[Len(path)]
      next(p) == path[(CHOOSE k \in 1..Len(path) : path[k] = p) + 1]
      sunk == [p \in 1..n |->
                 IF \E k \in 1..(Len(path) - 1) : path[k] = p THEN heap[next(p)] ELSE heap[p]]
      whole == IF hole = n THEN sunk ELSE auxtrace_heapify(sunk, hole, heap[n])
  IN SubSeq(whole, 1, n - 1)

HeapOrdered(heap) == \A p \in 2..Len(heap) : heap[p \div 2].ordinal <= heap[p].ordinal
=============================================================================
