----------------------------- MODULE MCPinTrace -----------------------------
(* PinTrace with the code of small programs.                               *)
EXTENDS PinTrace

CONSTANT MaxInstructions   \* bound on the length of a thread's code

(* A load, a store, a comparison and a copy of words, an increment in      *)
(* memory; and a conditional load and a copy that are not executed.        *)
SomeInstructions ==
  {[ip |-> 1, reads |-> <<8>>,     writes |-> {},   executed |-> TRUE],
   [ip |-> 2, reads |-> <<>>,      writes |-> {16}, executed |-> TRUE],
   [ip |-> 3, reads |-> <<8, 16>>, writes |-> {},   executed |-> TRUE],
   [ip |-> 4, reads |-> <<16>>,    writes |-> {16}, executed |-> TRUE],
   [ip |-> 5, reads |-> <<8>>,     writes |-> {24}, executed |-> TRUE],
   [ip |-> 5, reads |-> <<8>>,     writes |-> {24}, executed |-> FALSE],
   [ip |-> 6, reads |-> <<8>>,     writes |-> {},   executed |-> FALSE]}

SmallCodes == UNION {[1 .. n -> SomeInstructions] : n \in 0 .. MaxInstructions}
=============================================================================
