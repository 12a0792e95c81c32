-------------------------- MODULE MCHeapSimulator ---------------------------
(* HeapSimulator with the constants TLC needs for a small instance. *)
EXTENDS HeapSimulator

CONSTANT MaxRequests   \* bound on the length of a request list

(* Cells 0 and 256: two rows. *)
TwoRows == {0, 1024}

(* Every list of at most MaxRequests requests. *)
SmallPrograms ==
  UNION {[1..n -> [request : {"READ", "WRITE"}, address : TwoRows]] :
           n \in 0..MaxRequests}
=============================================================================
