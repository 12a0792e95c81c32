----------------------------- MODULE Simulator ------------------------------
(***************************************************************************)
(* The program main() builds: the CPUTest modules and the memory, plugged  *)
(* into the event list and into one bus.  One step is one iteration of     *)
(* System::run(): an event of least time is dispatched to its module.      *)
(*                                                                         *)
(* main() plugs in a single CPU; CPUs is a parameter because nothing in    *)
(* the modules depends on there being one.                                 *)
(***************************************************************************)
EXTENDS CPUTest, Memory, FiniteSets

Transaction == [request : {"READ", "WRITE"}, address : AddressRange]

ASSUME SimulatorAssumption == Programs \subseteq Seq(Transaction)

vars == <<systemVars, bus, cpuVars, memVars>>

-----------------------------------------------------------------------------
(* What the events between the modules stand for. *)

Beep(e, c)      == e.source = c /\ e.dest = c
Request(e, c)   == e.source = c /\ e.dest = MEM
Response(e, c)  == e.source = MEM /\ e.dest = c
RefreshTimer(e) == e.source = MEM /\ e.dest = MEM

(* Messages from one module to another are the handshakes of the bus. *)
BusEvent(e) == e.source # e.dest

(* The request that c issued last. *)
Current(c) == test_requests[c][op_counter[c]]

-----------------------------------------------------------------------------

(* Every constructor sends the first message of its module to itself. *)
InitialEvents ==
  {[time |-> 0, source |-> c, dest |-> c] : c \in CPUs}
    \cup {[time |-> REFRESHING_INTERVAL, source |-> MEM, dest |-> MEM]}

(* run() collects them; all have been allocated, at different addresses. *)
QueueInit ==
  \E address \in [InitialEvents -> Pointers] :
    /\ \A x, y \in InitialEvents : address[x] = address[y] => x = y
    /\ \A x \in InitialEvents : \A p \in Pointers :
         p < address[x] => \E y \in InitialEvents : address[y] = p
    /\ queue = {[ptr |-> address[x], time |-> x.time, source |-> x.source,
                 dest |-> x.dest] : x \in InitialEvents}

Init ==
  /\ currentTime = 0
  /\ exit_status = "running"
  /\ \E address \in AddressRange, data \in InitialWords :
       BusInit(address, data)
  /\ CPUInit
  /\ MemoryInit
  /\ QueueInit

(* Every module is offered the event; the one it is addressed to acts. *)
notify_all(e) ==
  \/ \E c \in CPUs : CPUStep(c, e) /\ UNCHANGED memVars
  \/ MemoryStep(e) /\ UNCHANGED cpuVars

(* System::tick() *)
tick == \E e \in queue : notify_all(e)

(* After exit() nothing moves.  A run() that ran out of events would be a  *)
(* deadlock of this specification.                                         *)
Exited == ~Running /\ UNCHANGED vars

Next == tick \/ Exited

Spec == Init /\ [][Next]_vars

-----------------------------------------------------------------------------
(* The state the properties speak of *)

BusEvents     == {e \in queue : BusEvent(e)}
RefreshTimers == {e \in queue : RefreshTimer(e)}

(* c waits for the answer to the read that e carries to or from memory. *)
CarriesRead(e, c) ==
  /\ Request(e, c) \/ Response(e, c)
  /\ Current(c).request = "READ"

(* What makes c run again: its beep, or the answer to its read. *)
Continuations(c) == {e \in queue : Beep(e, c) \/ CarriesRead(e, c)}

(* The number of requests of c that the memory has taken from the bus. *)
Served(c) ==
  IF \E e \in queue : Request(e, c) THEN op_counter[c] - 1 ELSE op_counter[c]

Words == InitialWords \cup {WriteData}

EventType ==
  [ptr : Pointers, time : Nat, source : CPUs \cup {MEM},
   dest : CPUs \cup {MEM}]

-----------------------------------------------------------------------------
(* Properties *)

(* Every variable holds a value of its type; in particular the address on  *)
(* the bus always has a cell in dram.                                      *)
TypeOK ==
  /\ currentTime \in Nat
  /\ queue \subseteq EventType
  /\ exit_status \in {"running", "success", "failure"}
  /\ bus \in [busy : BOOLEAN, request : {"READ", "WRITE", "UNDEFINED"},
              address : AddressRange, data : Words]
  /\ test_requests \in [CPUs -> Seq(Transaction)]
  /\ op_counter \in [CPUs -> Nat]
  /\ dram \in [Cells -> Words]
  /\ first_access \in BOOLEAN
  /\ last_row_addressed \in Nat
  /\ refreshing_phase \in BOOLEAN
  /\ refreshing_phase_started_at \in Nat

(* The handshake protocol of the bus: the busy flag is up exactly while    *)
(* one message between modules is in flight, and until that message is     *)
(* delivered (after any number of postponements) the bus carries the       *)
(* transaction the sender or the addressee issued last.  So no get() reads *)
(* data twice, or another module's data, and none finds the bus idle.      *)
BusProtocol ==
  Running =>
    /\ bus.busy <=> BusEvents # {}
    /\ \A e, f \in BusEvents : e = f
    /\ \A e \in BusEvents : \E c \in CPUs :
         /\ Request(e, c) \/ Response(e, c)
         /\ op_counter[c] \in DOMAIN test_requests[c]
         /\ bus.request = Current(c).request
         /\ bus.address = Current(c).address
         /\ Response(e, c) => bus.request = "READ"

(* Every CPU has exactly one pending continuation: never none, which would *)
(* stall its program, and never two, with which it would issue requests    *)
(* twice as fast or behind the back of its own read.                       *)
OneContinuation ==
  Running => \A c \in CPUs :
    \E e \in Continuations(c) : Continuations(c) = {e}

(* When the next refreshing phase starts: one interval after the last one  *)
(* ended; the first one (none has started at 0) an interval after time 0.  *)
NextRefresh ==
  IF refreshing_phase_started_at = 0
    THEN REFRESHING_INTERVAL
    ELSE refreshing_phase_started_at + REFRESHING_TIME + REFRESHING_INTERVAL

(* The memory has exactly one refresh timer.  In the refreshing phase it   *)
(* is due when the phase ends, which is not in the past: the delay of a    *)
(* postponed request is never negative, so the request is never lost.  In  *)
(* the service phase it is due at the next refresh, neither later nor      *)
(* earlier, whatever was served or postponed since.                        *)
RefreshSchedule ==
  Running => \E e \in RefreshTimers :
    /\ RefreshTimers = {e}
    /\ refreshing_phase =>
         /\ e.time = refreshing_phase_started_at + REFRESHING_TIME
         /\ 0 < refreshing_phase_started_at
         /\ refreshing_phase_started_at <= currentTime
         /\ RetryDelay(currentTime) >= 0
    /\ ~refreshing_phase => e.time = NextRefresh

(* No request is kept waiting beyond the refreshing phase it ran into: it  *)
(* reaches the memory again at the tick the phase ends, or one tick later  *)
(* if it was issued at that very tick.                                     *)
NoRequestOutlivesRefresh ==
  Running /\ refreshing_phase =>
    \A e \in queue : \A c \in CPUs : Request(e, c) =>
      e.time <= refreshing_phase_started_at + REFRESHING_TIME + 1

(* The memory takes r from the bus and does it: a read finds the word of   *)
(* its cell on the bus, a write leaves it in the cell and the bus free.    *)
Serves(r) ==
  /\ bus.busy
  /\ r.request = "READ" =>
       /\ bus'.busy /\ bus'.data = dram[CellOf(r.address)]
       /\ UNCHANGED dram
  /\ r.request = "WRITE" =>
       /\ ~bus'.busy
       /\ dram' = [dram EXCEPT ![CellOf(r.address)] = WriteData]

(* A step serves no request of c, or the one that c's program has next. *)
ServesInOrder(c) ==
  Served(c)' # Served(c) =>
    /\ Served(c)' = Served(c) + 1
    /\ Served(c)' \in DOMAIN test_requests[c]
    /\ Serves(test_requests[c][Served(c)'])

ServesNobody == \A c \in CPUs : Served(c)' = Served(c)

(* Every request is served once and in the order of the program, or is     *)
(* still on its way: however often it was postponed, no message that       *)
(* carries it was lost or doubled, and a posted write no more than a read, *)
(* although its CPU goes on without an answer.  The memory changes for     *)
(* nothing else.                                                           *)
ServedOnceInOrder ==
  [][/\ \A c \in CPUs : ServesInOrder(c)
     /\ ServesNobody => UNCHANGED accessVars]_vars

(* "Something went wrong in the protocol" and "Undefined bus status" are   *)
(* never reported: the process does not exit with a failure.               *)
NoFailureExit == exit_status # "failure"

(* With one CPU the memory's idea of the open row is the row of the last   *)
(* transaction it served, reads and writes alike, whatever was postponed.  *)
(* The access times of fast page mode rest on it.                          *)
OpenRowTracksProgram ==
  \A c \in CPUs :
    Running /\ CPUs = {c} /\ ~first_access =>
      /\ Served(c) \in DOMAIN test_requests[c]
      /\ last_row_addressed = RowOf(CellOf(test_requests[c][Served(c)].address))

(* When the process exits normally, the CPU whose program is over waits    *)
(* for no answer.  All it may leave behind is its last write, posted but   *)
(* not yet taken by the memory.                                            *)
ExitAbandonsOnlyAWrite ==
  exit_status = "success" =>
    \E c \in CPUs : \E e \in queue :
      /\ e.dest = c /\ e.time = currentTime
      /\ AllIssued(c)
      /\ \A f \in queue \ {e} : c \in {f.source, f.dest} =>
           Request(f, c) /\ Current(c).request = "WRITE"

(* c waits for a word, and has only reads left to issue. *)
OnlyReadsAhead(c) ==
  /\ \E e \in queue : CarriesRead(e, c)
  /\ \A k \in DOMAIN test_requests[c] :
       k > op_counter[c] => test_requests[c][k].request = "READ"

(* "Some modules can suffer from starvation" (main.tex:299), and how: a    *)
(* CPU takes its answer and sets its next request in one handler, so the   *)
(* bus is never free between two of its reads.  Once it has only reads     *)
(* ahead no other CPU issues anything, until it ends the process.          *)
ReaderKeepsTheBus ==
  [][Running => \A c \in CPUs : OnlyReadsAhead(c) =>
       /\ \A d \in CPUs \ {c} : op_counter'[d] = op_counter[d]
       /\ Running' => OnlyReadsAhead(c)']_vars

-----------------------------------------------------------------------------
(* The inductive invariant *)

(* No event is pending in the past. *)
NoEventInThePast == Running => \A e \in queue : e.time >= currentTime

(* Live events are at different addresses. *)
UniquePointers == \A e, f \in queue : e.ptr = f.ptr => e = f

(* In the service phase a request reaches the memory within a tick. *)
RequestsAreSoon ==
  Running /\ ~refreshing_phase =>
    \A e \in queue : \A c \in CPUs : Request(e, c) => e.time <= currentTime + 1

IInv ==
  /\ TypeOK
  /\ UniquePointers
  /\ NoEventInThePast
  /\ BusProtocol
  /\ OneContinuation
  /\ RefreshSchedule
  /\ RequestsAreSoon
  /\ NoRequestOutlivesRefresh
  /\ NoFailureExit

-----------------------------------------------------------------------------
(* The abstract specification *)

(* The memory as the CPUs see it: a posted write counts as done. *)
ram ==
  IF bus.busy /\ bus.request = "WRITE"
    THEN [dram EXCEPT ![CellOf(bus.address)] = bus.data]
    ELSE dram

NoWord == "no word"

(* What c is going to be answered: the word on the bus if its answer is on *)
(* the way, else the word in the cell it has asked for.                    *)
expects ==
  [c \in CPUs |->
    IF Running /\ \E e \in queue : Response(e, c) THEN bus.data
    ELSE IF Running /\ \E e \in queue : Request(e, c) /\ CarriesRead(e, c)
           THEN ram[CellOf(Current(c).address)]
    ELSE NoWord]

program ==
  [c \in CPUs |-> [i \in DOMAIN test_requests[c] |->
    [request |-> test_requests[c][i].request,
     cell    |-> CellOf(test_requests[c][i].address)]]]

RAM == INSTANCE SharedRAM WITH
         Written <- WriteData, issued <- op_counter, stopped <- ~Running

(* The bus, the events, the postponements and the rows are an              *)
(* implementation of one shared memory: every read is answered with the    *)
(* word its cell held, as the program sees it, when the read was issued.   *)
ImplementsSharedRAM == RAM!Spec

=============================================================================
