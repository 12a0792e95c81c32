------------------------------ MODULE CPUTest -------------------------------
(***************************************************************************)
(* The CPUTest modules: each one drives the memory with a list of read and *)
(* write requests, one at a time.  A write is posted: the CPU sends itself *)
(* a beep for the next tick and goes on.  A read suspends it until the     *)
(* memory answers.  A CPU that finds the bus busy beeps itself and tries   *)
(* again at the next tick.                                                 *)
(***************************************************************************)
EXTENDS System, Bus, Sequences

CONSTANTS
  Programs,           \* the request lists a CPU may be started with
  OpCounterAtStart    \* values the uninitialised member op_counter can hold

ASSUME CPUAssumption == OpCounterAtStart \subseteq Nat

VARIABLES
  test_requests,      \* CPUTest::test_requests of each CPU
  op_counter          \* CPUTest::op_counter of each CPU

cpuVars == <<test_requests, op_counter>>

-----------------------------------------------------------------------------

(* The constructor fills test_requests from the command line, so every CPU *)
(* gets the same list, and leaves op_counter as it is.                     *)
CPUInit ==
  /\ \E program \in Programs : test_requests = [c \in CPUs |-> program]
  /\ op_counter \in [CPUs -> OpCounterAtStart]

AllIssued(c) == op_counter[c] >= Len(test_requests[c])

NextRequest(c) == test_requests[c][op_counter[c] + 1]

(* The word every write carries. *)
WriteData == 77

BusStatus(c) ==
  [request |-> NextRequest(c).request,
   address |-> NextRequest(c).address,
   data    |-> WriteData]

(* Anything but a beep is an answer of the memory: its data is taken from  *)
(* the bus before anything else, which frees the bus.                      *)
BusAfterAnswer(c, e) == IF e.source = c THEN bus ELSE Get(bus)

-----------------------------------------------------------------------------

(* The list is exhausted: the process prints the time and exits. *)
Finish(c, e) ==
  /\ Notifies(e, c)
  /\ AllIssued(c)
  /\ bus' = BusAfterAnswer(c, e)
  /\ Exits(e, "success")
  /\ UNCHANGED cpuVars

(* Faulty variant: the next request is left to the next tick. *)
BackOff_always(c, e) ==
  /\ Notifies(e, c)
  /\ ~AllIssued(c)
  /\ bus' = BusAfterAnswer(c, e)
  /\ \E p \in Pointers :
       /\ Allocates(p, queue)
       /\ Tick(e, sendWithDelay(p, e.time, c, c, 1))
  /\ UNCHANGED <<cpuVars, exit_status>>

(* sendRequest() finds the bus busy: try again at the next tick. *)
BackOff(c, e) ==
  /\ Notifies(e, c)
  /\ ~AllIssued(c)
  /\ ~SetSucceeds(BusAfterAnswer(c, e))
  /\ bus' = BusAfterAnswer(c, e)
  /\ \E p \in Pointers :
       /\ Allocates(p, queue)
       /\ Tick(e, sendWithDelay(p, e.time, c, c, 1))
  /\ UNCHANGED <<cpuVars, exit_status>>

(* Faulty variant: the beep is sent for reads as well. *)
IssueRead_beeps(c, e) ==
  /\ Notifies(e, c)
  /\ ~AllIssued(c)
  /\ SetSucceeds(BusAfterAnswer(c, e))
  /\ NextRequest(c).request = "READ"
  /\ bus' = Set(BusAfterAnswer(c, e), BusStatus(c))
  /\ \E p, q \in Pointers \ Addresses(queue) :
       /\ p < q
       /\ Tick(e, sendWithDelay(p, e.time, c, MEM, 1)
                    \cup sendWithDelay(q, e.time, c, c, 1))
  /\ op_counter' = [op_counter EXCEPT ![c] = @ + 1]
  /\ UNCHANGED <<test_requests, exit_status>>

(* sendRequest() issues a read and waits for the answer. *)
IssueRead(c, e) ==
  /\ Notifies(e, c)
  /\ ~AllIssued(c)
  /\ SetSucceeds(BusAfterAnswer(c, e))
  /\ NextRequest(c).request = "READ"
  /\ bus' = Set(BusAfterAnswer(c, e), BusStatus(c))
  /\ \E p \in Pointers :
       /\ Allocates(p, queue)
       /\ Tick(e, sendWithDelay(p, e.time, c, MEM, 1))
  /\ op_counter' = [op_counter EXCEPT ![c] = @ + 1]
  /\ UNCHANGED <<test_requests, exit_status>>

(* sendRequest() posts a write and beeps itself for the next request. *)
IssueWrite(c, e) ==
  /\ Notifies(e, c)
  /\ ~AllIssued(c)
  /\ SetSucceeds(BusAfterAnswer(c, e))
  /\ NextRequest(c).request = "WRITE"
  /\ bus' = Set(BusAfterAnswer(c, e), BusStatus(c))
  /\ \E p, q \in Pointers :
       LET request == sendWithDelay(p, e.time, c, MEM, 1)
           beep    == sendWithDelay(q, e.time, c, c, 1)
       IN  /\ Allocates(p, queue)
           /\ Allocates(q, queue \cup request)
           /\ Tick(e, request \cup beep)
  /\ op_counter' = [op_counter EXCEPT ![c] = @ + 1]
  /\ UNCHANGED <<test_requests, exit_status>>

(* CPUTest::onNotify() for an event e addressed to c. *)
CPUStep(c, e) ==
  \/ Finish(c, e)
  \/ BackOff(c, e)
  \/ IssueRead(c, e)
  \/ IssueWrite(c, e)
=============================================================================
