----------------------------- MODULE BinaryHeap -----------------------------
(***************************************************************************)
(* The priority queue of class System as libstdc++ builds it: a binary     *)
(* heap of events in a vector, ordered by the program's comparator.  The   *)
(* library is not part of the repository; it is modelled because the order *)
(* of simultaneous events, which the C++ standard leaves open, is decided  *)
(* here and decides the times the simulator reports.                       *)
(*                                                                         *)
(* Position i of the vector has its parent at i div 2 and its children at  *)
(* 2i and 2i + 1 (the library counts from 0).                              *)
(***************************************************************************)
EXTENDS Naturals, SequencesExt

(* Faulty variants: an order that is not strict, and the reversed one.     *)
comparator_notStrict(left, right) == left.time >= right.time

comparator_reversed(left, right) == left.time < right.time

(* TRUE if left must come out of the queue after right. *)
comparator(left, right) == left.time > right.time

(* std::__push_heap: x climbs from the hole to its place.  What is below   *)
(* the hole stays as it is.                                                *)
push_heap(v, hole, x) ==
  LET climbed[h \in 1 .. Len(v)] ==
        IF h > 1 /\ comparator(v[h \div 2], x)
          THEN [climbed[h \div 2] EXCEPT ![h] = v[h \div 2]]
          ELSE [v EXCEPT ![h] = x]
  IN  climbed[hole]

(* The child of position h that comes out first. *)
firstChild(v, h) ==
  IF 2 * h + 1 > Len(v) \/ comparator(v[2 * h + 1], v[2 * h])
    THEN 2 * h ELSE 2 * h + 1

(* std::__adjust_heap: the hole at the root sinks to a leaf along the      *)
(* children that come out first, and x is pushed from there.               *)
adjust_heap(v, x) ==
  LET sunk[h \in 1 .. Len(v)] ==
        IF 2 * h > Len(v)
          THEN [vector |-> v, hole |-> h]
          ELSE [sunk[firstChild(v, h)] EXCEPT !.vector[h] = v[firstChild(v, h)]]
  IN  push_heap(sunk[1].vector, sunk[1].hole, x)

(* Faulty variant: the range that is put in order still has the old root. *)
pop_wholeRange(v) ==
  IF Len(v) = 1 THEN <<>>
  ELSE Front(adjust_heap([v EXCEPT ![Len(v)] = v[1]], Last(v)))

(* std::priority_queue *)
top(v)     == v[1]
push(v, x) == push_heap(Append(v, x), Len(v) + 1, x)

(* The last element is taken out and finds its place from the root down. *)
pop(v) == IF Len(v) = 1 THEN <<>> ELSE adjust_heap(Front(v), Last(v))
=============================================================================
