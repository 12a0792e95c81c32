---------------------------- MODULE MCSimulator -----------------------------
(* Simulator with the constants TLC needs for a small instance. *)
EXTENDS Simulator

CONSTANT MaxRequests   \* bound on the length of a request list

(* Cells 0, 0, 1 and 256: two bytes of one cell, another cell of its row,  *)
(* and a cell of another row.                                              *)
SmallAddressRange == {0, 3, 4, 1024}

(* Every list of at most MaxRequests requests. *)
SmallPrograms ==
  UNION {[1..n -> [request : {"READ", "WRITE"}, address : SmallAddressRange]] :
           n \in 0..MaxRequests}
=============================================================================
