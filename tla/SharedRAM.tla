----------------------------- MODULE SharedRAM ------------------------------
(***************************************************************************)
(* What the simulated computer promises to the programs its CPUs run: one  *)
(* memory, and requests that take effect one at a time, in the order they  *)
(* are issued.  There is no bus, no event, no time, no row and no refresh  *)
(* here.  A read returns the word its cell held when the read was issued.  *)
(***************************************************************************)
EXTENDS Naturals, Sequences

CONSTANTS
  CPUs,     \* the modules that issue requests
  Cells,    \* the cells of the memory
  Written,  \* the word that every write stores
  NoWord    \* what a CPU expects when it waits for no answer

VARIABLES
  program,  \* the requests of each CPU: [request, cell]
  issued,   \* how many of them each CPU has issued
  ram,      \* the word in each cell
  expects,  \* the word that each CPU is going to be answered
  stopped   \* the simulation is over

vars == <<program, issued, ram, expects, stopped>>

Init ==
  /\ issued \in [CPUs -> Nat]
  /\ expects = [c \in CPUs |-> NoWord]
  /\ stopped = FALSE

Issues(c, kind, cell) ==
  /\ ~stopped
  /\ issued[c] < Len(program[c])
  /\ program[c][issued[c] + 1] = [request |-> kind, cell |-> cell]
  /\ issued' = [issued EXCEPT ![c] = @ + 1]
  /\ UNCHANGED <<program, stopped>>

(* A CPU that expects an answer gets it and goes on, in one step. *)
Read(c, cell) ==
  /\ Issues(c, "READ", cell)
  /\ expects' = [expects EXCEPT ![c] = ram[cell]]
  /\ UNCHANGED ram

Write(c, cell) ==
  /\ Issues(c, "WRITE", cell)
  /\ ram' = [ram EXCEPT ![cell] = Written]
  /\ expects' = [expects EXCEPT ![c] = NoWord]

(* The first CPU that has issued everything, and waits for nothing more,   *)
(* ends the simulation; what the others expected is dropped.               *)
Stop(c) ==
  /\ ~stopped
  /\ issued[c] >= Len(program[c])
  /\ stopped' = TRUE
  /\ expects' = [d \in CPUs |-> NoWord]
  /\ UNCHANGED <<program, issued, ram>>

Next ==
  \E c \in CPUs :
    \/ \E cell \in Cells : Read(c, cell) \/ Write(c, cell)
    \/ Stop(c)

Spec == Init /\ [][Next]_vars
=============================================================================
