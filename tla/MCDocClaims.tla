---------------------------- MODULE MCDocClaims -----------------------------
(* DocClaims with the constants of memory.h and one long program. *)
EXTENDS DocClaims

CONSTANT MaxRequests   \* length of the request list

(* A read and a write of two rows, over and over. *)
LongProgram ==
  {[i \in 1..MaxRequests |->
      [request |-> IF i % 2 = 1 THEN "WRITE" ELSE "READ",
       address |-> 1024 * (i % 2)]]}
=============================================================================
