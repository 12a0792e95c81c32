-------------------------- MODULE ReferenceTiming ---------------------------
(***************************************************************************)
(* The time a list of requests takes one CPU, computed request by request  *)
(* from the timing of the memory, without bus, messages or event list.     *)
(* It is the answer the simulator exists to find by simulation.            *)
(***************************************************************************)
EXTENDS Naturals, Sequences

CONSTANTS
  FastPage,              \* TRUE: fast page access, FALSE: simple access
  CAS, RowToColumn, RowPrecharge,
  ServiceTime,           \* ticks from a refreshing phase to the next one
  RefreshTime,           \* ticks a refreshing phase takes
  Row(_)                 \* the row of an address

Period == ServiceTime + RefreshTime

(* When the memory serves a request that reaches it at time t: at once, or *)
(* at the end of the refreshing phase.  The phase that starts at t has     *)
(* started.                                                                *)
ServedAt(t) ==
  IF t % Period < ServiceTime THEN t ELSE (t \div Period + 1) * Period

(* The table "interesting cases delays" of the report (main.tex:518);      *)
(* open is the set of open rows.                                           *)
Delay(open, row) ==
  CASE ~FastPage \/ open = {} -> RowToColumn + CAS
    [] FastPage /\ row \in open -> CAS
    [] OTHER -> RowPrecharge + RowToColumn + CAS

(* s.cpu is when the CPU's program goes on, s.bus when the bus is free.    *)
(* A write costs the program one tick, a read one tick and the access.  A  *)
(* CPU that tries at every tick finds the bus free when a posted write is  *)
(* served; if that write had to wait for a refresh, it may be a tick late. *)
After(s, r) ==
  LET issue  == IF s.cpu < s.bus THEN s.bus ELSE s.cpu
      served == ServedAt(issue + 1)
      row    == Row(r.address)
      answer == served + Delay(s.open, row)
  IN  IF r.request = "READ"
        THEN {[open |-> {row}, cpu |-> answer, bus |-> answer]}
        ELSE {[open |-> {row}, cpu |-> issue + 1, bus |-> free] :
                free \in {served} \cup
                         (IF served > issue + 1 THEN {served + 1} ELSE {})}

(* The states in which the first k requests can leave CPU and memory. *)
StatesAfter(requests) ==
  LET states[k \in 0 .. Len(requests)] ==
        IF k = 0
          THEN {[open |-> {}, cpu |-> 0, bus |-> 0]}
          ELSE UNION {After(s, requests[k]) : s \in states[k - 1]}
  IN  states

TotalTimes(requests) ==
  {s.cpu : s \in StatesAfter(requests)[Len(requests)]}
=============================================================================
