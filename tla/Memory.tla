------------------------------- MODULE Memory -------------------------------
(***************************************************************************)
(* The DRAM module.  It serves the transaction that is on the bus when a   *)
(* message of another module reaches it, takes CL + RCD ticks (simple      *)
(* access) or a time that depends on the open row (fast page access) to    *)
(* answer a read, and alternates between a service phase and a refreshing  *)
(* phase by messages to itself.  A request that arrives while it refreshes *)
(* is postponed to the end of the phase.                                   *)
(***************************************************************************)
EXTENDS System, Bus

CONSTANTS
  MODE_TYPE,              \* "DEFAULT" (simple) or "FAST" (fast page)
  CL, RCD, RP,            \* timing of the matrix, in ticks
  REFRESHING_INTERVAL,    \* ticks from the end of a refresh to the next one
  REFRESHING_TIME,        \* ticks a refresh takes (RAS * 2^6 rows)
  AddressRange,           \* the byte addresses the requests can name
  InitialWords            \* what a cell can hold before it is written

ASSUME MemoryAssumption ==
  /\ MODE_TYPE \in {"DEFAULT", "FAST"}
  /\ CL \in Nat /\ RCD \in Nat /\ RP \in Nat
  /\ REFRESHING_INTERVAL \in Nat \ {0}
  /\ REFRESHING_TIME \in Nat \ {0}
  /\ AddressRange \subseteq Nat /\ AddressRange # {}

VARIABLES
  dram,                         \* Memory::dram, cells of 32 bits
  first_access,                 \* no request has been served yet
  last_row_addressed,           \* row of the last request served
  refreshing_phase,             \* in the refreshing phase
  refreshing_phase_started_at   \* when the last refreshing phase started

accessVars  == <<dram, first_access, last_row_addressed>>
refreshVars == <<refreshing_phase, refreshing_phase_started_at>>
memVars     == <<accessVars, refreshVars>>

-----------------------------------------------------------------------------

(* 16-bit byte address -> 14-bit cell address -> 6-bit row. *)
CellOf(address) == address \div 4
RowOf(cell)     == cell \div 256

Cells == {CellOf(a) : a \in AddressRange}

(* dram and last_row_addressed are not initialised by the constructor. *)
MemoryInit ==
  /\ dram \in [Cells -> InitialWords]
  /\ first_access = TRUE
  /\ last_row_addressed = 0
  /\ refreshing_phase = FALSE
  /\ refreshing_phase_started_at = 0

(* Faulty variant: closing the wrong row is free. *)
optimizedBehavior_noPrecharge(row) ==
  IF ~first_access /\ row = last_row_addressed THEN CL ELSE CL + RCD

(* Ticks between a read request and its answer. *)
defaultBehavior == CL + RCD

optimizedBehavior(row) ==
  IF first_access
    THEN CL + RCD
    ELSE IF row = last_row_addressed THEN CL ELSE CL + RCD + RP

AccessTime(row) ==
  IF MODE_TYPE = "DEFAULT" THEN defaultBehavior ELSE optimizedBehavior(row)

isSelfMessage(e) == e.source = MEM

-----------------------------------------------------------------------------

startRefresh(e) ==
  /\ Notifies(e, MEM)
  /\ isSelfMessage(e)
  /\ ~refreshing_phase
  /\ refreshing_phase' = TRUE
  /\ refreshing_phase_started_at' = e.time
  /\ \E p \in Pointers :
       /\ Allocates(p, queue)
       /\ Tick(e, sendWithDelay(p, e.time, MEM, MEM, REFRESHING_TIME))
  /\ UNCHANGED <<accessVars, bus, exit_status>>

(* Faulty variant: the tick of this message counts as the first one.       *)
endRefresh_early(e) ==
  /\ Notifies(e, MEM)
  /\ isSelfMessage(e)
  /\ refreshing_phase
  /\ refreshing_phase' = FALSE
  /\ \E p \in Pointers :
       /\ Allocates(p, queue)
       /\ Tick(e, sendWithDelay(p, e.time, MEM, MEM, REFRESHING_INTERVAL - 1))
  /\ UNCHANGED <<accessVars, refreshing_phase_started_at, bus, exit_status>>

endRefresh(e) ==
  /\ Notifies(e, MEM)
  /\ isSelfMessage(e)
  /\ refreshing_phase
  /\ refreshing_phase' = FALSE
  /\ \E p \in Pointers :
       /\ Allocates(p, queue)
       /\ Tick(e, sendWithDelay(p, e.time, MEM, MEM, REFRESHING_INTERVAL))
  /\ UNCHANGED <<accessVars, refreshing_phase_started_at, bus, exit_status>>

(* Faulty variants: a postponed request waits for a whole phase; the open  *)
(* row is recorded only once.                                              *)
RetryDelay_wholePhase(now) == REFRESHING_TIME

OpensRow_once(row) ==
  /\ last_row_addressed' = IF first_access THEN row ELSE last_row_addressed
  /\ first_access' = FALSE

(* How long a request that arrives at "now" in the refreshing phase waits. *)
RetryDelay(now) == refreshing_phase_started_at + REFRESHING_TIME - now

(* The request is sent again, in the name of its sender, for the end of    *)
(* the phase.  The bus keeps the transaction.                              *)
PostponeRequest(e) ==
  /\ Notifies(e, MEM)
  /\ ~isSelfMessage(e)
  /\ refreshing_phase
  /\ \E p \in Pointers :
       /\ Allocates(p, queue)
       /\ Tick(e, sendWithDelay(p, e.time, e.source, MEM, RetryDelay(e.time)))
  /\ UNCHANGED <<memVars, bus, exit_status>>

(* After an access the row stays open. *)
OpensRow(row) ==
  /\ last_row_addressed' = row
  /\ first_access' = FALSE

(* The transaction got from the bus is a read: the word goes on the bus    *)
(* now, the answer is sent after the access time.  If the bus were not     *)
(* free, the process would exit.                                           *)
onReadRequest(e) ==
  LET cell   == CellOf(bus.address)
      row    == RowOf(cell)
      taken  == Get(bus)
      answer == [request |-> "READ", address |-> bus.address,
                 data |-> dram[cell]]
  IN  /\ Notifies(e, MEM)
      /\ ~isSelfMessage(e)
      /\ ~refreshing_phase
      /\ GetSucceeds(bus) /\ bus.request = "READ"
      /\ bus' = Set(taken, answer)
      /\ IF SetSucceeds(taken)
           THEN /\ \E p \in Pointers :
                     /\ Allocates(p, queue)
                     /\ Tick(e, sendWithDelay(p, e.time, MEM, e.source,
                                              AccessTime(row)))
                /\ OpensRow(row)
                /\ UNCHANGED exit_status
           ELSE /\ Exits(e, "failure")
                /\ UNCHANGED <<last_row_addressed, first_access>>
      /\ UNCHANGED <<dram, refreshVars>>

(* Any other transaction: a write is done at once; a request of no kind    *)
(* ends the process; and without a transaction the message is ignored.     *)
onOtherRequest(e) ==
  LET cell      == CellOf(bus.address)
      isWrite   == GetSucceeds(bus) /\ bus.request = "WRITE"
      undefined == GetSucceeds(bus) /\ bus.request = "UNDEFINED"
  IN  /\ Notifies(e, MEM)
      /\ ~isSelfMessage(e)
      /\ ~refreshing_phase
      /\ ~(GetSucceeds(bus) /\ bus.request = "READ")
      /\ bus' = Get(bus)
      /\ dram' = IF isWrite THEN [dram EXCEPT ![cell] = bus.data] ELSE dram
      /\ IF isWrite THEN OpensRow(RowOf(cell))
                    ELSE UNCHANGED <<last_row_addressed, first_access>>
      /\ IF undefined THEN Exits(e, "failure")
                      ELSE Tick(e, {}) /\ UNCHANGED exit_status
      /\ UNCHANGED refreshVars

(* Memory::onNotify() for an event e addressed to the memory. *)
MemoryStep(e) ==
  \/ startRefresh(e)
  \/ endRefresh(e)
  \/ PostponeRequest(e)
  \/ onReadRequest(e)
  \/ onOtherRequest(e)
=============================================================================
