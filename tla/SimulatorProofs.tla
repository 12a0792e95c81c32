-------------------------- MODULE SimulatorProofs ---------------------------
(***************************************************************************)
(* Proofs about Simulator, for every set of CPUs, every request list and   *)
(* every timing.                                                           *)
(*                                                                         *)
(* The proof goes by the inductive invariant IInv.  First come the facts   *)
(* about a dispatched event and the effect of each action in terms of the  *)
(* events it removes and sends; then, one lemma per conjunct, that every   *)
(* action preserves IInv; then the theorems, and last the refinement of    *)
(* SharedRAM.                                                              *)
(***************************************************************************)
EXTENDS Simulator, TLAPS

Event(p, t, src, dst) == [ptr |-> p, time |-> t, source |-> src, dest |-> dst]

(* The addresses that "new" can return. *)
Free == Pointers \ Addresses(queue)

-----------------------------------------------------------------------------
(* What a handler sends with a delay that is not negative is inserted. *)

LEMMA SendsOne ==
  ASSUME NEW p, NEW now \in Nat, NEW src, NEW dst, NEW delay \in Nat
  PROVE  insertable(sendWithDelay(p, now, src, dst, delay), now)
           = {Event(p, now + delay, src, dst)}
  BY DEF insertable, sendWithDelay, Event

LEMMA AddressesAdd ==
  ASSUME NEW events, NEW x
  PROVE  Addresses(events \cup {x}) = Addresses(events) \cup {x.ptr}
  BY DEF Addresses

LEMMA AllocatesFree ==
  ASSUME NEW p, Allocates(p, queue)
  PROVE  p \in Free
  BY DEF Allocates, Free

-----------------------------------------------------------------------------
(* Facts about the event that is dispatched *)

LEMMA Dispatched ==
  ASSUME IInv, NEW e \in queue, NEW m, Notifies(e, m)
  PROVE  /\ Running
         /\ e \in EventType
         /\ e.dest = m
         /\ e.time \in Nat
         /\ currentTime \in Nat
         /\ currentTime <= e.time
         /\ \A f \in queue : e.time <= f.time
  BY DEF IInv, TypeOK, EventType, NoEventInThePast, Notifies

(* A CPU is woken up by its beep, or by the answer to its read; that is    *)
(* its only continuation, and an answer is the only event on the bus.      *)
LEMMA DispatchedToCPU ==
  ASSUME IInv, NEW c \in CPUs, NEW e \in queue, Notifies(e, c)
  PROVE  /\ Continuations(c) = {e}
         /\ \/ Beep(e, c) /\ BusAfterAnswer(c, e) = bus
            \/ /\ Response(e, c) /\ CarriesRead(e, c)
               /\ BusEvents = {e}
               /\ bus.busy
               /\ BusAfterAnswer(c, e) = Get(bus)
<1>1. /\ Running /\ e.dest = c /\ e.source \in CPUs \cup {MEM} /\ c # MEM
  BY Dispatched, BusAssumption DEF EventType
<1>2. CASE e.source = c
  <2>1. Beep(e, c) /\ BusAfterAnswer(c, e) = bus
    BY <1>1, <1>2 DEF Beep, BusAfterAnswer
  <2>2. e \in Continuations(c)
    BY <2>1 DEF Continuations
  <2>3. Continuations(c) = {e}
    BY <2>2, <1>1 DEF IInv, OneContinuation
  <2> QED BY <2>1, <2>3
<1>3. CASE e.source # c
  <2>1. e \in BusEvents
    BY <1>1, <1>3 DEF BusEvents, BusEvent
  <2>2. BusEvents = {e} /\ bus.busy
    BY <2>1, <1>1 DEF IInv, BusProtocol
  <2>3. PICK d \in CPUs :
          /\ Request(e, d) \/ Response(e, d)
          /\ bus.request = Current(d).request
          /\ Response(e, d) => bus.request = "READ"
    BY <2>1, <1>1 DEF IInv, BusProtocol
  <2>4. Response(e, d) /\ d = c
    BY <2>3, <1>1 DEF Request, Response
  <2>5. Response(e, c) /\ CarriesRead(e, c)
    BY <2>3, <2>4 DEF CarriesRead
  <2>6. Continuations(c) = {e}
    BY <2>5, <1>1 DEF IInv, OneContinuation, Continuations
  <2>7. BusAfterAnswer(c, e) = Get(bus)
    BY <1>3 DEF BusAfterAnswer
  <2> QED BY <2>2, <2>5, <2>6, <2>7
<1> QED BY <1>2, <1>3

(* A message of another module reaches the memory with a transaction of    *)
(* its sender on the bus.                                                  *)
LEMMA DispatchedToMemory ==
  ASSUME IInv, NEW e \in queue, Notifies(e, MEM), ~isSelfMessage(e)
  PROVE  /\ BusEvents = {e}
         /\ bus.busy
         /\ \E c \in CPUs :
              /\ Request(e, c)
              /\ e.source = c
              /\ op_counter[c] \in DOMAIN test_requests[c]
              /\ bus.request = Current(c).request
              /\ bus.address = Current(c).address
<1>1. /\ Running /\ e.dest = MEM /\ e.source # MEM
  BY Dispatched DEF isSelfMessage
<1>2. e \in BusEvents
  BY <1>1 DEF BusEvents, BusEvent
<1>3. BusEvents = {e} /\ bus.busy
  BY <1>1, <1>2 DEF IInv, BusProtocol
<1>4. PICK c \in CPUs :
        /\ Request(e, c) \/ Response(e, c)
        /\ op_counter[c] \in DOMAIN test_requests[c]
        /\ bus.request = Current(c).request
        /\ bus.address = Current(c).address
  BY <1>1, <1>2 DEF IInv, BusProtocol
<1>5. Request(e, c) /\ e.source = c
  BY <1>1, <1>4 DEF Request, Response
<1> QED BY <1>3, <1>4, <1>5

(* A message of the memory to itself is the refresh timer. *)
LEMMA DispatchedTimer ==
  ASSUME IInv, NEW e \in queue, Notifies(e, MEM), isSelfMessage(e)
  PROVE  RefreshTimers = {e} /\ RefreshTimer(e)
<1>1. Running /\ RefreshTimer(e)
  BY Dispatched DEF RefreshTimer, isSelfMessage
<1>2. e \in RefreshTimers
  BY <1>1 DEF RefreshTimers
<1> QED BY <1>1, <1>2 DEF IInv, RefreshSchedule

-----------------------------------------------------------------------------
(* The effect of each action: the events it removes and sends *)

LEMMA BackOffEffect ==
  ASSUME IInv, NEW c \in CPUs, NEW e \in queue, BackOff(c, e)
  PROVE  /\ Beep(e, c) /\ bus.busy
         /\ \E p \in Free :
              queue' = (queue \ {e}) \cup {Event(p, e.time + 1, c, c)}
         /\ currentTime' = e.time
         /\ UNCHANGED <<exit_status, bus, test_requests, op_counter>>
<1>1. Notifies(e, c) /\ ~SetSucceeds(BusAfterAnswer(c, e))
  BY DEF BackOff
<1>2. e.time \in Nat
  BY <1>1, Dispatched
<1>3. bus \in [busy : BOOLEAN, request : {"READ", "WRITE", "UNDEFINED"},
              address : AddressRange, data : Words]
  BY DEF IInv, TypeOK
<1>4. ~SetSucceeds(bus) => bus.busy
  BY <1>3 DEF SetSucceeds
<1>5. SetSucceeds(Get(bus))
  BY <1>3 DEF SetSucceeds, Get
<1>6. Beep(e, c) /\ BusAfterAnswer(c, e) = bus
  BY <1>1, <1>5, DispatchedToCPU
<1>7. PICK p \in Pointers :
        /\ Allocates(p, queue)
        /\ Tick(e, sendWithDelay(p, e.time, c, c, 1))
  BY DEF BackOff
<1>8. queue' = (queue \ {e}) \cup {Event(p, e.time + 1, c, c)} /\ p \in Free
  BY <1>2, <1>7, SendsOne, AllocatesFree DEF Tick
<1>9. currentTime' = e.time
  BY <1>7 DEF Tick
<1> QED BY <1>1, <1>4, <1>6, <1>8, <1>9 DEF BackOff, cpuVars

(* A request is issued on a free bus. *)
LEMMA IssueEffect ==
  ASSUME IInv, NEW c \in CPUs, NEW e \in queue, Notifies(e, c), ~AllIssued(c),
         SetSucceeds(BusAfterAnswer(c, e))
  PROVE  /\ BusEvents \subseteq {e}
         /\ op_counter[c] \in Nat
         /\ op_counter[c] + 1 \in DOMAIN test_requests[c]
         /\ NextRequest(c) \in Transaction
         /\ Set(BusAfterAnswer(c, e), BusStatus(c))
              = [busy |-> TRUE, request |-> NextRequest(c).request,
                 address |-> NextRequest(c).address, data |-> WriteData]
<1>1. /\ bus \in [busy : BOOLEAN, request : {"READ", "WRITE", "UNDEFINED"},
                  address : AddressRange, data : Words]
      /\ op_counter[c] \in Nat
      /\ test_requests[c] \in Seq(Transaction)
  BY DEF IInv, TypeOK
<1>2. Running
  BY Dispatched
<1>3. op_counter[c] + 1 \in DOMAIN test_requests[c]
  BY <1>1 DEF AllIssued
<1>4. NextRequest(c) \in Transaction
  BY <1>1, <1>3 DEF NextRequest
<1>5. BusEvents \subseteq {e}
  <2>1. CASE BusEvents = {e}
    BY <2>1
  <2>2. CASE BusAfterAnswer(c, e) = bus
    BY <1>1, <1>2, <2>2 DEF SetSucceeds, IInv, BusProtocol
  <2> QED BY <2>1, <2>2, DispatchedToCPU
<1>6. Set(BusAfterAnswer(c, e), BusStatus(c))
        = [busy |-> TRUE, request |-> NextRequest(c).request,
           address |-> NextRequest(c).address, data |-> WriteData]
  BY DEF Set, BusStatus
<1> QED BY <1>1, <1>3, <1>4, <1>5, <1>6

LEMMA IssueReadEffect ==
  ASSUME IInv, NEW c \in CPUs, NEW e \in queue, IssueRead(c, e)
  PROVE  /\ BusEvents \subseteq {e}
         /\ op_counter[c] \in Nat
         /\ op_counter[c] + 1 \in DOMAIN test_requests[c]
         /\ NextRequest(c) \in Transaction /\ NextRequest(c).request = "READ"
         /\ \E p \in Free :
              queue' = (queue \ {e}) \cup {Event(p, e.time + 1, c, MEM)}
         /\ currentTime' = e.time
         /\ bus' = [busy |-> TRUE, request |-> NextRequest(c).request,
                    address |-> NextRequest(c).address, data |-> WriteData]
         /\ op_counter' = [op_counter EXCEPT ![c] = @ + 1]
         /\ UNCHANGED <<exit_status, test_requests>>
<1>1. /\ Notifies(e, c) /\ ~AllIssued(c) /\ NextRequest(c).request = "READ"
      /\ SetSucceeds(BusAfterAnswer(c, e))
      /\ bus' = Set(BusAfterAnswer(c, e), BusStatus(c))
      /\ op_counter' = [op_counter EXCEPT ![c] = @ + 1]
      /\ UNCHANGED <<exit_status, test_requests>>
  BY DEF IssueRead
<1>2. e.time \in Nat
  BY <1>1, Dispatched
<1>3. PICK p \in Pointers :
        /\ Allocates(p, queue)
        /\ Tick(e, sendWithDelay(p, e.time, c, MEM, 1))
  BY DEF IssueRead
<1>4. queue' = (queue \ {e}) \cup {Event(p, e.time + 1, c, MEM)} /\ p \in Free
  BY <1>2, <1>3, SendsOne, AllocatesFree DEF Tick
<1>5. currentTime' = e.time
  BY <1>3 DEF Tick
<1> QED BY <1>1, <1>4, <1>5, IssueEffect

LEMMA IssueWriteEffect ==
  ASSUME IInv, NEW c \in CPUs, NEW e \in queue, IssueWrite(c, e)
  PROVE  /\ BusEvents \subseteq {e}
         /\ op_counter[c] \in Nat
         /\ op_counter[c] + 1 \in DOMAIN test_requests[c]
         /\ NextRequest(c) \in Transaction /\ NextRequest(c).request = "WRITE"
         /\ \E p, q \in Free :
              /\ p # q /\ p < q
              /\ queue' = (queue \ {e}) \cup {Event(p, e.time + 1, c, MEM),
                                             Event(q, e.time + 1, c, c)}
         /\ currentTime' = e.time
         /\ bus' = [busy |-> TRUE, request |-> NextRequest(c).request,
                    address |-> NextRequest(c).address, data |-> WriteData]
         /\ op_counter' = [op_counter EXCEPT ![c] = @ + 1]
         /\ UNCHANGED <<exit_status, test_requests>>
<1>1. /\ Notifies(e, c) /\ ~AllIssued(c) /\ NextRequest(c).request = "WRITE"
      /\ SetSucceeds(BusAfterAnswer(c, e))
      /\ bus' = Set(BusAfterAnswer(c, e), BusStatus(c))
      /\ op_counter' = [op_counter EXCEPT ![c] = @ + 1]
      /\ UNCHANGED <<exit_status, test_requests>>
  BY DEF IssueWrite
<1>2. e.time \in Nat
  BY <1>1, Dispatched
<1>3. PICK p \in Pointers, q \in Pointers :
        /\ Allocates(p, queue)
        /\ Allocates(q, queue \cup sendWithDelay(p, e.time, c, MEM, 1))
        /\ Tick(e, sendWithDelay(p, e.time, c, MEM, 1)
                     \cup sendWithDelay(q, e.time, c, c, 1))
  BY DEF IssueWrite
<1>4. sendWithDelay(p, e.time, c, MEM, 1) = {Event(p, e.time + 1, c, MEM)}
  BY <1>2 DEF sendWithDelay, Event
<1>5. p \in Free
  BY <1>3, AllocatesFree
<1>6. q \in Free /\ p # q
  <2>1. Allocates(q, queue \cup {Event(p, e.time + 1, c, MEM)})
    BY <1>3, <1>4
  <2>2. q \notin Addresses(queue \cup {Event(p, e.time + 1, c, MEM)})
    BY <2>1 DEF Allocates
  <2>3. q # Event(p, e.time + 1, c, MEM).ptr /\ q \notin Addresses(queue)
    BY <2>2, AddressesAdd
  <2> QED BY <2>3 DEF Event, Free
<1>7. p < q
  <2>1. ~(q < p)
    BY <1>3, <1>6 DEF Allocates, Free
  <2>2. p \in Nat /\ q \in Nat
    BY PointersAssumption
  <2> QED BY <1>6, <2>1, <2>2
<1>8. queue' = (queue \ {e}) \cup {Event(p, e.time + 1, c, MEM),
                                  Event(q, e.time + 1, c, c)}
  <2>1. insertable(sendWithDelay(p, e.time, c, MEM, 1)
                     \cup sendWithDelay(q, e.time, c, c, 1), e.time)
          = {Event(p, e.time + 1, c, MEM), Event(q, e.time + 1, c, c)}
    BY <1>2 DEF insertable, sendWithDelay, Event
  <2> QED BY <1>3, <2>1 DEF Tick
<1>9. currentTime' = e.time
  BY <1>3 DEF Tick
<1> QED BY <1>1, <1>5, <1>6, <1>7, <1>8, <1>9, IssueEffect

LEMMA startRefreshEffect ==
  ASSUME IInv, NEW e \in queue, startRefresh(e)
  PROVE  /\ RefreshTimers = {e} /\ RefreshTimer(e) /\ ~refreshing_phase
         /\ \E p \in Free :
              queue' = (queue \ {e})
                         \cup {Event(p, e.time + REFRESHING_TIME, MEM, MEM)}
         /\ currentTime' = e.time
         /\ refreshing_phase' = TRUE
         /\ refreshing_phase_started_at' = e.time
         /\ UNCHANGED <<accessVars, bus, exit_status>>
<1>1. Notifies(e, MEM) /\ isSelfMessage(e)
  BY DEF startRefresh
<1>2. e.time \in Nat
  BY <1>1, Dispatched
<1>3. PICK p \in Pointers :
        /\ Allocates(p, queue)
        /\ Tick(e, sendWithDelay(p, e.time, MEM, MEM, REFRESHING_TIME))
  BY DEF startRefresh
<1>4. REFRESHING_TIME \in Nat
  BY MemoryAssumption
<1>5. /\ queue' = (queue \ {e})
                    \cup {Event(p, e.time + REFRESHING_TIME, MEM, MEM)}
      /\ p \in Free
  BY <1>2, <1>3, <1>4, SendsOne, AllocatesFree DEF Tick
<1>6. currentTime' = e.time
  BY <1>3 DEF Tick
<1> QED BY <1>1, <1>5, <1>6, DispatchedTimer DEF startRefresh

LEMMA endRefreshEffect ==
  ASSUME IInv, NEW e \in queue, endRefresh(e)
  PROVE  /\ RefreshTimers = {e} /\ RefreshTimer(e) /\ refreshing_phase
         /\ \E p \in Free :
              queue' = (queue \ {e})
                         \cup {Event(p, e.time + REFRESHING_INTERVAL, MEM, MEM)}
         /\ currentTime' = e.time
         /\ refreshing_phase' = FALSE
         /\ UNCHANGED <<accessVars, refreshing_phase_started_at, bus, exit_status>>
<1>1. Notifies(e, MEM) /\ isSelfMessage(e)
  BY DEF endRefresh
<1>2. e.time \in Nat
  BY <1>1, Dispatched
<1>3. PICK p \in Pointers :
        /\ Allocates(p, queue)
        /\ Tick(e, sendWithDelay(p, e.time, MEM, MEM, REFRESHING_INTERVAL))
  BY DEF endRefresh
<1>4. REFRESHING_INTERVAL \in Nat
  BY MemoryAssumption
<1>5. /\ queue' = (queue \ {e})
                    \cup {Event(p, e.time + REFRESHING_INTERVAL, MEM, MEM)}
      /\ p \in Free
  BY <1>2, <1>3, <1>4, SendsOne, AllocatesFree DEF Tick
<1>6. currentTime' = e.time
  BY <1>3 DEF Tick
<1> QED BY <1>1, <1>5, <1>6, DispatchedTimer DEF endRefresh

(* A postponed request is due exactly when the phase ends. *)
LEMMA PostponeEffect ==
  ASSUME IInv, NEW e \in queue, PostponeRequest(e)
  PROVE  /\ BusEvents = {e} /\ refreshing_phase
         /\ refreshing_phase_started_at + REFRESHING_TIME >= e.time
         /\ refreshing_phase_started_at + REFRESHING_TIME \in Nat
         /\ \E c \in CPUs, p \in Free :
              /\ Request(e, c)
              /\ queue' = (queue \ {e})
                   \cup {Event(p, refreshing_phase_started_at + REFRESHING_TIME,
                               c, MEM)}
         /\ currentTime' = e.time
         /\ UNCHANGED <<memVars, bus, exit_status>>
<1>1. Notifies(e, MEM) /\ ~isSelfMessage(e) /\ refreshing_phase
  BY DEF PostponeRequest
<1>2. e.time \in Nat /\ Running /\ \A f \in queue : e.time <= f.time
  BY <1>1, Dispatched
<1>3. /\ refreshing_phase_started_at \in Nat
      /\ REFRESHING_TIME \in Nat
  BY MemoryAssumption DEF IInv, TypeOK
<1>4. PICK t \in queue : t.time = refreshing_phase_started_at + REFRESHING_TIME
  BY <1>1, <1>2 DEF IInv, RefreshSchedule, RefreshTimers
<1>5. refreshing_phase_started_at + REFRESHING_TIME >= e.time
  BY <1>2, <1>4
<1>6. /\ RetryDelay(e.time) \in Nat
      /\ e.time + RetryDelay(e.time) = refreshing_phase_started_at + REFRESHING_TIME
  BY <1>2, <1>3, <1>5 DEF RetryDelay
<1>7. PICK c \in CPUs : Request(e, c) /\ e.source = c
  BY <1>1, DispatchedToMemory
<1>8. PICK p \in Pointers :
        /\ Allocates(p, queue)
        /\ Tick(e, sendWithDelay(p, e.time, c, MEM, RetryDelay(e.time)))
  BY <1>7 DEF PostponeRequest
<1>9. /\ queue' = (queue \ {e})
                   \cup {Event(p, refreshing_phase_started_at + REFRESHING_TIME,
                               c, MEM)}
      /\ p \in Free
  BY <1>2, <1>6, <1>8, SendsOne, AllocatesFree DEF Tick
<1>10. currentTime' = e.time
  BY <1>8 DEF Tick
<1>11. BusEvents = {e}
  BY <1>1, DispatchedToMemory
<1> QED BY <1>1, <1>3, <1>5, <1>7, <1>9, <1>10, <1>11 DEF PostponeRequest

LEMMA AccessTimeNat ==
  ASSUME NEW row PROVE AccessTime(row) \in Nat
  BY MemoryAssumption DEF AccessTime, defaultBehavior, optimizedBehavior

(* A read is answered by a message that leaves the word on the bus. *)
LEMMA onReadRequestEffect ==
  ASSUME IInv, NEW e \in queue, onReadRequest(e)
  PROVE  /\ BusEvents = {e} /\ ~refreshing_phase
         /\ \E c \in CPUs, p \in Free, t \in Nat :
              /\ Request(e, c)
              /\ op_counter[c] \in DOMAIN test_requests[c]
              /\ Current(c).request = "READ"
              /\ bus.address = Current(c).address
              /\ t >= e.time
              /\ t = e.time + AccessTime(RowOf(CellOf(bus.address)))
              /\ queue' = (queue \ {e}) \cup {Event(p, t, MEM, c)}
         /\ currentTime' = e.time
         /\ bus' = [busy |-> TRUE, request |-> "READ",
                    address |-> bus.address, data |-> dram[CellOf(bus.address)]]
         /\ last_row_addressed' = RowOf(CellOf(bus.address))
         /\ first_access' = FALSE
         /\ UNCHANGED <<dram, refreshVars, exit_status>>
<1> DEFINE row    == RowOf(CellOf(bus.address))
           taken  == Get(bus)
           answer == [request |-> "READ", address |-> bus.address,
                      data |-> dram[CellOf(bus.address)]]
<1>1. /\ Notifies(e, MEM) /\ ~isSelfMessage(e) /\ ~refreshing_phase
      /\ bus.request = "READ"
      /\ bus' = Set(taken, answer)
      /\ UNCHANGED <<dram, refreshVars>>
  BY DEF onReadRequest
<1>2. bus \in [busy : BOOLEAN, request : {"READ", "WRITE", "UNDEFINED"},
              address : AddressRange, data : Words]
  BY DEF IInv, TypeOK
<1>3. SetSucceeds(taken)
  BY <1>2 DEF SetSucceeds, Get
<1>4. bus' = [busy |-> TRUE, request |-> "READ", address |-> bus.address,
              data |-> dram[CellOf(bus.address)]]
  BY <1>1, <1>3 DEF Set
<1>5. /\ \E p \in Pointers :
           /\ Allocates(p, queue)
           /\ Tick(e, sendWithDelay(p, e.time, MEM, e.source, AccessTime(row)))
      /\ OpensRow(row)
      /\ UNCHANGED exit_status
  BY <1>3 DEF onReadRequest
<1>6. PICK p \in Pointers :
        /\ Allocates(p, queue)
        /\ Tick(e, sendWithDelay(p, e.time, MEM, e.source, AccessTime(row)))
  BY <1>5
<1>7. PICK c \in CPUs :
        /\ Request(e, c) /\ e.source = c
        /\ op_counter[c] \in DOMAIN test_requests[c]
        /\ bus.request = Current(c).request
        /\ bus.address = Current(c).address
  BY <1>1, DispatchedToMemory
<1>8. e.time \in Nat /\ AccessTime(row) \in Nat
  BY <1>1, Dispatched, AccessTimeNat
<1>9. /\ queue' = (queue \ {e})
                   \cup {Event(p, e.time + AccessTime(row), MEM, c)}
      /\ p \in Free
  BY <1>6, <1>7, <1>8, SendsOne, AllocatesFree DEF Tick
<1>10. e.time + AccessTime(row) \in Nat /\ e.time + AccessTime(row) >= e.time
  BY <1>8
<1>11. \E d \in CPUs, r \in Free, t \in Nat :
         /\ Request(e, d)
         /\ op_counter[d] \in DOMAIN test_requests[d]
         /\ Current(d).request = "READ"
         /\ bus.address = Current(d).address
         /\ t >= e.time /\ t = e.time + AccessTime(row)
         /\ queue' = (queue \ {e}) \cup {Event(r, t, MEM, d)}
  BY <1>1, <1>7, <1>9, <1>10
<1>12. currentTime' = e.time
  BY <1>6 DEF Tick
<1>13. BusEvents = {e}
  BY <1>1, DispatchedToMemory
<1> QED BY <1>1, <1>4, <1>5, <1>11, <1>12, <1>13 DEF OpensRow

(* Any other request of a CPU is a write, and ends the transaction. *)
LEMMA onOtherRequestEffect ==
  ASSUME IInv, NEW e \in queue, onOtherRequest(e)
  PROVE  /\ BusEvents = {e} /\ ~refreshing_phase
         /\ bus.request = "WRITE" /\ bus.busy
         /\ \E c \in CPUs :
              /\ Request(e, c)
              /\ op_counter[c] \in DOMAIN test_requests[c]
              /\ Current(c).request = "WRITE"
              /\ bus.address = Current(c).address
         /\ queue' = queue \ {e}
         /\ currentTime' = e.time
         /\ bus' = [bus EXCEPT !.busy = FALSE]
         /\ dram' = [dram EXCEPT ![CellOf(bus.address)] = bus.data]
         /\ last_row_addressed' = RowOf(CellOf(bus.address))
         /\ first_access' = FALSE
         /\ UNCHANGED <<refreshVars, exit_status>>
<1>1. /\ Notifies(e, MEM) /\ ~isSelfMessage(e) /\ ~refreshing_phase
      /\ ~(bus.busy /\ bus.request = "READ")
      /\ bus' = [bus EXCEPT !.busy = FALSE]
      /\ UNCHANGED refreshVars
  BY DEF onOtherRequest, GetSucceeds, Get
<1>2. PICK c \in CPUs :
        /\ Request(e, c) /\ e.source = c
        /\ op_counter[c] \in DOMAIN test_requests[c]
        /\ bus.request = Current(c).request
        /\ bus.address = Current(c).address
  BY <1>1, DispatchedToMemory
<1>3. bus.busy /\ BusEvents = {e}
  BY <1>1, DispatchedToMemory
<1>4. Current(c) \in Transaction
  <2>1. test_requests[c] \in Seq(Transaction)
    BY DEF IInv, TypeOK
  <2> QED BY <1>2, <2>1 DEF Current
<1>5. bus.request = "WRITE"
  BY <1>1, <1>2, <1>3, <1>4 DEF Transaction
<1>6. /\ dram' = [dram EXCEPT ![CellOf(bus.address)] = bus.data]
      /\ OpensRow(RowOf(CellOf(bus.address)))
      /\ Tick(e, {}) /\ UNCHANGED exit_status
  BY <1>3, <1>5 DEF onOtherRequest, GetSucceeds
<1>7. queue' = queue \ {e} /\ currentTime' = e.time
  BY <1>6 DEF Tick, insertable
<1> QED BY <1>1, <1>2, <1>3, <1>5, <1>6, <1>7 DEF OpensRow

-----------------------------------------------------------------------------
(* The queue after a step: types, addresses and times *)

QueueInv ==
  /\ currentTime \in Nat
  /\ queue \subseteq EventType
  /\ UniquePointers
  /\ NoEventInThePast

LEMMA FreeIsFree ==
  ASSUME NEW p \in Free, NEW f \in queue
  PROVE  p \in Pointers /\ f.ptr # p
  BY DEF Free, Addresses

LEMMA EventFields ==
  ASSUME NEW p \in Pointers, NEW t \in Nat,
         NEW src \in CPUs \cup {MEM}, NEW dst \in CPUs \cup {MEM}
  PROVE  /\ Event(p, t, src, dst) \in EventType
         /\ Event(p, t, src, dst).ptr = p
         /\ Event(p, t, src, dst).time = t
         /\ Event(p, t, src, dst).source = src
         /\ Event(p, t, src, dst).dest = dst
  BY DEF Event, EventType

LEMMA QueueStep ==
  ASSUME IInv, NEW e \in queue, NEW m, Notifies(e, m), NEW new,
         new \subseteq EventType,
         \A x \in new : x.time >= e.time /\ x.ptr \in Free,
         \A x, y \in new : x.ptr = y.ptr => x = y,
         queue' = (queue \ {e}) \cup new, currentTime' = e.time
  PROVE  QueueInv'
<1>1. /\ e.time \in Nat /\ \A f \in queue : e.time <= f.time
      /\ queue \subseteq EventType
      /\ \A f, g \in queue : f.ptr = g.ptr => f = g
  BY Dispatched DEF IInv, TypeOK, UniquePointers
<1>2. queue' \subseteq EventType /\ currentTime' \in Nat
  BY <1>1
<1>3. UniquePointers'
  <2> SUFFICES ASSUME NEW x \in queue', NEW y \in queue', x.ptr = y.ptr
               PROVE  x = y
    BY DEF UniquePointers
  <2>1. \A f \in queue, g \in new : f.ptr # g.ptr
    BY FreeIsFree
  <2> QED BY <1>1, <2>1
<1>4. NoEventInThePast'
  BY <1>1 DEF NoEventInThePast
<1> QED BY <1>2, <1>3, <1>4 DEF QueueInv

LEMMA QueueStepOne ==
  ASSUME IInv, NEW e \in queue, NEW m, Notifies(e, m),
         NEW p \in Free, NEW t \in Nat, t >= e.time,
         NEW src \in CPUs \cup {MEM}, NEW dst \in CPUs \cup {MEM},
         queue' = (queue \ {e}) \cup {Event(p, t, src, dst)},
         currentTime' = e.time
  PROVE  QueueInv'
<1> DEFINE new == {Event(p, t, src, dst)}
<1>1. p \in Pointers
  BY DEF Free
<1>2. \A x \in new : x \in EventType /\ x.time >= e.time /\ x.ptr \in Free
  BY <1>1, EventFields
<1>3. \A x, y \in new : x.ptr = y.ptr => x = y
  OBVIOUS
<1>4. queue' = (queue \ {e}) \cup new
  OBVIOUS
<1> HIDE DEF new
<1> QED BY <1>2, <1>3, <1>4, QueueStep

LEMMA QueueInvNext ==
  ASSUME IInv, tick PROVE QueueInv'
<1>1. PICK e \in queue :
        \/ \E c \in CPUs : CPUStep(c, e) /\ UNCHANGED memVars
        \/ MemoryStep(e) /\ UNCHANGED cpuVars
  BY DEF tick, notify_all
<1>2. MEM \in CPUs \cup {MEM} /\ CPUs \subseteq CPUs \cup {MEM}
  OBVIOUS
<1>3. ASSUME NEW c \in CPUs, Finish(c, e) PROVE QueueInv'
  <2>1. queue' = queue /\ currentTime' = e.time /\ exit_status' = "success"
    BY <1>3 DEF Finish, Exits
  <2>2. e.time \in Nat
    BY <1>3, Dispatched DEF Finish
  <2>3. UniquePointers' /\ NoEventInThePast' /\ queue' \subseteq EventType
    BY <2>1 DEF IInv, TypeOK, UniquePointers, NoEventInThePast, Running
  <2> QED BY <2>1, <2>2, <2>3 DEF QueueInv
<1>4. ASSUME NEW c \in CPUs, BackOff(c, e) PROVE QueueInv'
  <2>1. PICK p \in Free :
          queue' = (queue \ {e}) \cup {Event(p, e.time + 1, c, c)}
    BY <1>4, BackOffEffect
  <2>2. Notifies(e, c) /\ e.time + 1 \in Nat /\ e.time + 1 >= e.time
    BY <1>4, Dispatched DEF BackOff
  <2> QED BY <1>4, <1>2, <2>1, <2>2, QueueStepOne, BackOffEffect
<1>5. ASSUME NEW c \in CPUs, IssueRead(c, e) PROVE QueueInv'
  <2>1. PICK p \in Free :
          queue' = (queue \ {e}) \cup {Event(p, e.time + 1, c, MEM)}
    BY <1>5, IssueReadEffect
  <2>2. Notifies(e, c) /\ e.time + 1 \in Nat /\ e.time + 1 >= e.time
    BY <1>5, Dispatched DEF IssueRead
  <2> QED BY <1>5, <1>2, <2>1, <2>2, QueueStepOne, IssueReadEffect
<1>6. ASSUME NEW c \in CPUs, IssueWrite(c, e) PROVE QueueInv'
  <2>1. PICK p \in Free, q \in Free :
          /\ p # q
          /\ queue' = (queue \ {e}) \cup {Event(p, e.time + 1, c, MEM),
                                         Event(q, e.time + 1, c, c)}
    BY <1>6, IssueWriteEffect
  <2>2. Notifies(e, c) /\ e.time \in Nat
    BY <1>6, Dispatched DEF IssueWrite
  <2> DEFINE new == {Event(p, e.time + 1, c, MEM), Event(q, e.time + 1, c, c)}
  <2>3. \A x \in new : x \in EventType /\ x.time >= e.time /\ x.ptr \in Free
    BY <2>2, EventFields DEF Free
  <2>4. \A x, y \in new : x.ptr = y.ptr => x = y
    BY <2>1, <2>2, EventFields DEF Free
  <2>5. queue' = (queue \ {e}) \cup new /\ currentTime' = e.time
    BY <1>6, <2>1, IssueWriteEffect
  <2> HIDE DEF new
  <2> QED BY <2>2, <2>3, <2>4, <2>5, QueueStep
<1>7. ASSUME startRefresh(e) PROVE QueueInv'
  <2>1. PICK p \in Free :
          queue' = (queue \ {e})
                     \cup {Event(p, e.time + REFRESHING_TIME, MEM, MEM)}
    BY <1>7, startRefreshEffect
  <2>2. /\ Notifies(e, MEM)
        /\ e.time + REFRESHING_TIME \in Nat
        /\ e.time + REFRESHING_TIME >= e.time
    BY <1>7, Dispatched, MemoryAssumption DEF startRefresh
  <2> QED BY <1>7, <1>2, <2>1, <2>2, QueueStepOne, startRefreshEffect
<1>8. ASSUME endRefresh(e) PROVE QueueInv'
  <2>1. PICK p \in Free :
          queue' = (queue \ {e})
                     \cup {Event(p, e.time + REFRESHING_INTERVAL, MEM, MEM)}
    BY <1>8, endRefreshEffect
  <2>2. /\ Notifies(e, MEM)
        /\ e.time + REFRESHING_INTERVAL \in Nat
        /\ e.time + REFRESHING_INTERVAL >= e.time
    BY <1>8, Dispatched, MemoryAssumption DEF endRefresh
  <2> QED BY <1>8, <1>2, <2>1, <2>2, QueueStepOne, endRefreshEffect
<1>9. ASSUME PostponeRequest(e) PROVE QueueInv'
  <2> DEFINE t == refreshing_phase_started_at + REFRESHING_TIME
  <2>1. PICK c \in CPUs, p \in Free :
          queue' = (queue \ {e}) \cup {Event(p, t, c, MEM)}
    BY <1>9, PostponeEffect
  <2>2. Notifies(e, MEM) /\ t \in Nat /\ t >= e.time
    BY <1>9, PostponeEffect DEF PostponeRequest
  <2> HIDE DEF t
  <2> QED BY <1>9, <1>2, <2>1, <2>2, QueueStepOne, PostponeEffect
<1>10. ASSUME onReadRequest(e) PROVE QueueInv'
  <2>1. PICK c \in CPUs, p \in Free, t \in Nat :
          /\ t >= e.time
          /\ queue' = (queue \ {e}) \cup {Event(p, t, MEM, c)}
    BY <1>10, onReadRequestEffect
  <2>2. Notifies(e, MEM)
    BY <1>10 DEF onReadRequest
  <2> QED BY <1>10, <1>2, <2>1, <2>2, QueueStepOne, onReadRequestEffect
<1>11. ASSUME onOtherRequest(e) PROVE QueueInv'
  <2>1. Notifies(e, MEM)
    BY <1>11 DEF onOtherRequest
  <2> DEFINE new == {}
  <2>2. queue' = (queue \ {e}) \cup new /\ currentTime' = e.time
    BY <1>11, onOtherRequestEffect
  <2>3. /\ new \subseteq EventType
        /\ \A x \in new : x.time >= e.time /\ x.ptr \in Free
        /\ \A x, y \in new : x.ptr = y.ptr => x = y
    OBVIOUS
  <2> HIDE DEF new
  <2> QED BY <2>1, <2>2, <2>3, QueueStep
<1> QED BY <1>1, <1>3, <1>4, <1>5, <1>6, <1>7, <1>8, <1>9, <1>10, <1>11
         DEF CPUStep, MemoryStep

-----------------------------------------------------------------------------
(* The other variables keep their types *)

LEMMA CellsAndRows ==
  ASSUME NEW a \in AddressRange
  PROVE  CellOf(a) \in Cells /\ CellOf(a) \in Nat /\ RowOf(CellOf(a)) \in Nat
<1>1. a \in Nat
  BY MemoryAssumption
<1>2. CellOf(a) \in Nat
  BY <1>1 DEF CellOf
<1>3. RowOf(CellOf(a)) \in Nat
  BY <1>2 DEF RowOf
<1> QED BY <1>2, <1>3 DEF Cells

LEMMA BusyBusTyped ==
  ASSUME NEW r \in {"READ", "WRITE"}, NEW a \in AddressRange, NEW d \in Words
  PROVE  [busy |-> TRUE, request |-> r, address |-> a, data |-> d]
           \in [busy : BOOLEAN, request : {"READ", "WRITE", "UNDEFINED"},
               address : AddressRange, data : Words]
  OBVIOUS

LEMMA TypeNext ==
  ASSUME IInv, tick PROVE TypeOK'
<1>1. PICK e \in queue :
        \/ \E c \in CPUs : CPUStep(c, e) /\ UNCHANGED memVars
        \/ MemoryStep(e) /\ UNCHANGED cpuVars
  BY DEF tick, notify_all
<1>2. QueueInv'
  BY QueueInvNext
<1> DEFINE BusType == [busy : BOOLEAN, request : {"READ", "WRITE", "UNDEFINED"},
                       address : AddressRange, data : Words]
<1>3. TypeOK
  BY DEF IInv
<1>4. WriteData \in Words
  BY DEF Words
<1>5. ASSUME NEW c \in CPUs, Finish(c, e), UNCHANGED memVars PROVE TypeOK'
  <2>1. bus' \in BusType
    BY <1>3, <1>5 DEF Finish, TypeOK, BusAfterAnswer, Get
  <2> QED BY <1>2, <1>3, <1>5, <2>1
          DEF TypeOK, QueueInv, Finish, Exits, cpuVars, memVars, accessVars,
              refreshVars
<1>6. ASSUME NEW c \in CPUs, BackOff(c, e), UNCHANGED memVars PROVE TypeOK'
  BY <1>2, <1>3, <1>6, BackOffEffect
  DEF TypeOK, QueueInv, memVars, accessVars, refreshVars
<1>7. ASSUME NEW c \in CPUs, IssueRead(c, e), UNCHANGED memVars PROVE TypeOK'
  <2>1. bus' \in BusType
    <3>1. /\ bus' = [busy |-> TRUE, request |-> NextRequest(c).request,
                     address |-> NextRequest(c).address, data |-> WriteData]
          /\ NextRequest(c) \in Transaction
      BY <1>7, IssueReadEffect
    <3>2. /\ NextRequest(c).request \in {"READ", "WRITE"}
          /\ NextRequest(c).address \in AddressRange
      BY <3>1 DEF Transaction
    <3> QED BY <1>4, <3>1, <3>2, BusyBusTyped
  <2>2. op_counter' \in [CPUs -> Nat]
    BY <1>3, <1>7, IssueReadEffect DEF TypeOK
  <2> QED BY <1>2, <1>3, <1>7, <2>1, <2>2, IssueReadEffect
          DEF TypeOK, QueueInv, memVars, accessVars, refreshVars
<1>8. ASSUME NEW c \in CPUs, IssueWrite(c, e), UNCHANGED memVars PROVE TypeOK'
  <2>1. bus' \in BusType
    <3>1. /\ bus' = [busy |-> TRUE, request |-> NextRequest(c).request,
                     address |-> NextRequest(c).address, data |-> WriteData]
          /\ NextRequest(c) \in Transaction
      BY <1>8, IssueWriteEffect
    <3>2. /\ NextRequest(c).request \in {"READ", "WRITE"}
          /\ NextRequest(c).address \in AddressRange
      BY <3>1 DEF Transaction
    <3> QED BY <1>4, <3>1, <3>2, BusyBusTyped
  <2>2. op_counter' \in [CPUs -> Nat]
    BY <1>3, <1>8, IssueWriteEffect DEF TypeOK
  <2> QED BY <1>2, <1>3, <1>8, <2>1, <2>2, IssueWriteEffect
          DEF TypeOK, QueueInv, memVars, accessVars, refreshVars
<1>9. ASSUME startRefresh(e), UNCHANGED cpuVars PROVE TypeOK'
  <2>1. e.time \in Nat
    BY <1>9, Dispatched DEF startRefresh
  <2> QED BY <1>2, <1>3, <1>9, <2>1, startRefreshEffect
          DEF TypeOK, QueueInv, cpuVars, accessVars
<1>10. ASSUME endRefresh(e), UNCHANGED cpuVars PROVE TypeOK'
  BY <1>2, <1>3, <1>10, endRefreshEffect DEF TypeOK, QueueInv, cpuVars, accessVars
<1>11. ASSUME PostponeRequest(e), UNCHANGED cpuVars PROVE TypeOK'
  BY <1>2, <1>3, <1>11, PostponeEffect
  DEF TypeOK, QueueInv, cpuVars, memVars, accessVars, refreshVars
<1>12. bus.address \in AddressRange /\ bus.data \in Words
  BY <1>3 DEF TypeOK
<1>13. ASSUME onReadRequest(e), UNCHANGED cpuVars PROVE TypeOK'
  <2>1. dram[CellOf(bus.address)] \in Words
    BY <1>3, <1>12, CellsAndRows DEF TypeOK
  <2>2. bus' \in BusType
    <3>1. bus' = [busy |-> TRUE, request |-> "READ", address |-> bus.address,
                  data |-> dram[CellOf(bus.address)]]
      BY <1>13, onReadRequestEffect
    <3> QED BY <1>12, <2>1, <3>1, BusyBusTyped
  <2>3. last_row_addressed' \in Nat
    BY <1>12, <1>13, CellsAndRows, onReadRequestEffect
  <2> QED BY <1>2, <1>3, <1>13, <2>2, <2>3, onReadRequestEffect
          DEF TypeOK, QueueInv, cpuVars, refreshVars
<1>14. ASSUME onOtherRequest(e), UNCHANGED cpuVars PROVE TypeOK'
  <2>1. dram' \in [Cells -> Words]
    BY <1>3, <1>12, <1>14, onOtherRequestEffect DEF TypeOK
  <2>2. bus' \in BusType
    BY <1>3, <1>14, onOtherRequestEffect DEF TypeOK
  <2>3. last_row_addressed' \in Nat
    BY <1>12, <1>14, CellsAndRows, onOtherRequestEffect
  <2> QED BY <1>2, <1>3, <1>14, <2>1, <2>2, <2>3, onOtherRequestEffect
          DEF TypeOK, QueueInv, cpuVars, refreshVars
<1> QED BY <1>1, <1>5, <1>6, <1>7, <1>8, <1>9, <1>10, <1>11, <1>13, <1>14
         DEF CPUStep, MemoryStep

LEMMA NoFailureNext ==
  ASSUME IInv, tick PROVE NoFailureExit'
<1>1. exit_status # "failure"
  BY DEF IInv, NoFailureExit
<1> QED BY <1>1, BackOffEffect, IssueReadEffect, IssueWriteEffect,
           startRefreshEffect, endRefreshEffect, PostponeEffect,
           onReadRequestEffect, onOtherRequestEffect
        DEF tick, notify_all, CPUStep, MemoryStep, Finish, Exits, NoFailureExit

-----------------------------------------------------------------------------
(* The bus protocol is preserved *)

(* The transaction that an event e between modules stands for. *)
Carries(e, c) ==
  /\ Request(e, c) \/ Response(e, c)
  /\ op_counter[c] \in DOMAIN test_requests[c]
  /\ bus.request = Current(c).request
  /\ bus.address = Current(c).address
  /\ Response(e, c) => bus.request = "READ"

(* The protocol after a step that leaves no event on the bus, or just x. *)
LEMMA BusIdle ==
  ASSUME BusEvents' = {}, ~bus'.busy PROVE BusProtocol'
  BY DEF BusProtocol

LEMMA BusTaken ==
  ASSUME NEW x, BusEvents' = {x}, bus'.busy = TRUE, NEW c \in CPUs,
         Carries(x, c)'
  PROVE  BusProtocol'
  BY DEF BusProtocol, Carries

LEMMA BusProtocolNext ==
  ASSUME IInv, tick PROVE BusProtocol'
<1>1. PICK e \in queue :
        \/ \E c \in CPUs : CPUStep(c, e) /\ UNCHANGED memVars
        \/ MemoryStep(e) /\ UNCHANGED cpuVars
  BY DEF tick, notify_all
<1>2. BusProtocol
  BY DEF IInv
<1>3. ASSUME NEW c \in CPUs, Finish(c, e) PROVE BusProtocol'
  BY <1>3 DEF Finish, Exits, BusProtocol, Running
<1>4. ASSUME NEW c \in CPUs, BackOff(c, e) PROVE BusProtocol'
  <2>1. PICK p \in Free :
          queue' = (queue \ {e}) \cup {Event(p, e.time + 1, c, c)}
    BY <1>4, BackOffEffect
  <2>2. BusEvents' = BusEvents
    BY <1>4, <2>1, BackOffEffect DEF BusEvents, BusEvent, Beep, Event
  <2> QED BY <1>2, <1>4, <2>2, BackOffEffect DEF BusProtocol, Running, Current
<1>5. ASSUME NEW c \in CPUs, NEW x, Request(x, c),
             BusEvents \subseteq {e}, BusEvents' = {x},
             op_counter[c] \in Nat,
             op_counter[c] + 1 \in DOMAIN test_requests[c],
             bus' = [busy |-> TRUE, request |-> NextRequest(c).request,
                     address |-> NextRequest(c).address, data |-> WriteData],
             op_counter' = [op_counter EXCEPT ![c] = @ + 1],
             UNCHANGED test_requests
      PROVE  BusProtocol'
  <2>1. op_counter'[c] = op_counter[c] + 1
    BY <1>5 DEF IInv, TypeOK
  <2>2. Current(c)' = NextRequest(c)
    BY <1>5, <2>1 DEF Current, NextRequest
  <2>3. ~Response(x, c)
    BY <1>5, BusAssumption DEF Request, Response
  <2>4. bus'.request = NextRequest(c).request /\ bus'.address = NextRequest(c).address
    BY <1>5
  <2>5. Carries(x, c)'
    BY <1>5, <2>1, <2>2, <2>3, <2>4 DEF Carries, Request, Response
  <2>6. bus'.busy = TRUE
    BY <1>5
  <2> QED BY <1>5, <2>5, <2>6, BusTaken
<1>6. ASSUME NEW c \in CPUs, IssueRead(c, e) PROVE BusProtocol'
  <2>1. PICK p \in Free :
          queue' = (queue \ {e}) \cup {Event(p, e.time + 1, c, MEM)}
    BY <1>6, IssueReadEffect
  <2> DEFINE x == Event(p, e.time + 1, c, MEM)
  <2>2. Request(x, c) /\ BusEvent(x)
    BY BusAssumption DEF Request, BusEvent, Event
  <2>3. BusEvents' = {x}
    BY <1>6, <2>1, <2>2, IssueReadEffect DEF BusEvents
  <2> HIDE DEF x
  <2> QED BY <1>5, <1>6, <2>2, <2>3, IssueReadEffect
<1>7. ASSUME NEW c \in CPUs, IssueWrite(c, e) PROVE BusProtocol'
  <2>1. PICK p \in Free, q \in Free :
          queue' = (queue \ {e}) \cup {Event(p, e.time + 1, c, MEM),
                                      Event(q, e.time + 1, c, c)}
    BY <1>7, IssueWriteEffect
  <2> DEFINE x == Event(p, e.time + 1, c, MEM)
             y == Event(q, e.time + 1, c, c)
  <2>2. Request(x, c) /\ BusEvent(x) /\ ~BusEvent(y)
    BY BusAssumption DEF Request, BusEvent, Event
  <2>3. BusEvents' = {x}
    BY <1>7, <2>1, <2>2, IssueWriteEffect DEF BusEvents
  <2> HIDE DEF x
  <2> QED BY <1>5, <1>7, <2>2, <2>3, IssueWriteEffect
<1>8. ASSUME NEW p, NEW t, queue' = (queue \ {e}) \cup {Event(p, t, MEM, MEM)},
             RefreshTimer(e), UNCHANGED <<bus, exit_status, cpuVars>>
      PROVE  BusProtocol'
  <2>1. BusEvents' = BusEvents
    BY <1>8 DEF BusEvents, BusEvent, RefreshTimer, Event
  <2> QED BY <1>2, <1>8, <2>1 DEF BusProtocol, Running, Current, cpuVars
<1>9. ASSUME startRefresh(e), UNCHANGED cpuVars PROVE BusProtocol'
  BY <1>8, <1>9, startRefreshEffect
<1>10. ASSUME endRefresh(e), UNCHANGED cpuVars PROVE BusProtocol'
  BY <1>8, <1>10, endRefreshEffect
<1>11. ASSUME PostponeRequest(e), UNCHANGED cpuVars PROVE BusProtocol'
  <2>1. PICK d \in CPUs, p \in Free, t \in Nat :
          /\ Request(e, d)
          /\ queue' = (queue \ {e}) \cup {Event(p, t, d, MEM)}
    BY <1>11, PostponeEffect
  <2> DEFINE x == Event(p, t, d, MEM)
  <2>2. Request(x, d) /\ BusEvent(x)
    BY BusAssumption DEF Request, BusEvent, Event
  <2>3. BusEvents' = {x}
    BY <1>11, <2>1, <2>2, PostponeEffect DEF BusEvents
  <2>4. Notifies(e, MEM) /\ ~isSelfMessage(e)
    BY <1>11 DEF PostponeRequest
  <2>5. bus.busy /\ Carries(e, d)
    BY <2>1, <2>4, DispatchedToMemory, BusAssumption DEF Carries, Request, Response
  <2>6. Carries(x, d)'
    BY <1>11, <2>1, <2>2, <2>5, PostponeEffect, BusAssumption
    DEF Carries, Current, Request, Response, cpuVars
  <2>7. bus'.busy = TRUE
    BY <1>11, <2>5, PostponeEffect DEF IInv, TypeOK
  <2> HIDE DEF x
  <2> QED BY <2>3, <2>6, <2>7, BusTaken
<1>12. ASSUME onReadRequest(e), UNCHANGED cpuVars PROVE BusProtocol'
  <2>1. PICK d \in CPUs, p \in Free, t \in Nat :
          /\ op_counter[d] \in DOMAIN test_requests[d]
          /\ Current(d).request = "READ"
          /\ bus.address = Current(d).address
          /\ queue' = (queue \ {e}) \cup {Event(p, t, MEM, d)}
    BY <1>12, onReadRequestEffect
  <2> DEFINE x == Event(p, t, MEM, d)
  <2>2. Response(x, d) /\ BusEvent(x)
    BY BusAssumption DEF Response, BusEvent, Event
  <2>3. BusEvents' = {x}
    BY <1>12, <2>1, <2>2, onReadRequestEffect DEF BusEvents
  <2>4. bus'.busy = TRUE /\ bus'.request = "READ" /\ bus'.address = bus.address
    <3>1. bus' = [busy |-> TRUE, request |-> "READ", address |-> bus.address,
                  data |-> dram[CellOf(bus.address)]]
      BY <1>12, onReadRequestEffect
    <3> QED BY <3>1
  <2>5. Carries(x, d)'
    BY <1>12, <2>1, <2>2, <2>4 DEF Carries, Current, Request, Response, cpuVars
  <2> HIDE DEF x
  <2> QED BY <2>3, <2>4, <2>5, BusTaken
<1>13. ASSUME onOtherRequest(e), UNCHANGED cpuVars PROVE BusProtocol'
  <2>1. BusEvents' = {}
    BY <1>13, onOtherRequestEffect DEF BusEvents
  <2>2. ~bus'.busy
    BY <1>13, onOtherRequestEffect DEF IInv, TypeOK
  <2> QED BY <2>1, <2>2, BusIdle
<1> QED BY <1>1, <1>3, <1>4, <1>6, <1>7, <1>9, <1>10, <1>11, <1>12, <1>13
         DEF CPUStep, MemoryStep

-----------------------------------------------------------------------------
(* Every CPU keeps one continuation *)

Concerns(e, c) == c \in {e.source, e.dest}

(* Events of others do not touch the continuations of d. *)
LEMMA OthersContinue ==
  ASSUME NEW d \in CPUs, NEW e, NEW new, queue' = (queue \ {e}) \cup new,
         ~Concerns(e, d), \A x \in new : ~Concerns(x, d),
         Current(d)' = Current(d)
  PROVE  Continuations(d)' = Continuations(d)
<1>1. \A f : Beep(f, d) \/ CarriesRead(f, d) => Concerns(f, d)
  BY DEF Beep, CarriesRead, Request, Response, Concerns
<1>2. \A f : CarriesRead(f, d)' <=> CarriesRead(f, d)
  BY DEF CarriesRead, Request, Response
<1> QED BY <1>1, <1>2 DEF Continuations, Beep

LEMMA EventConcerns ==
  ASSUME NEW c \in CPUs, NEW d \in CPUs, d # c, NEW f,
         f.source \in {c, MEM}, f.dest \in {c, MEM}
  PROVE  ~Concerns(f, d)
  BY BusAssumption DEF Concerns

LEMMA OneContinuationNext ==
  ASSUME IInv, tick PROVE OneContinuation'
<1>1. PICK e \in queue :
        \/ \E c \in CPUs : CPUStep(c, e) /\ UNCHANGED memVars
        \/ MemoryStep(e) /\ UNCHANGED cpuVars
  BY DEF tick, notify_all
<1>2. /\ op_counter \in [CPUs -> Nat]
      /\ Running => \A d \in CPUs : \E f : Continuations(d) = {f}
  BY DEF IInv, TypeOK, OneContinuation
<1>3. ASSUME \A d \in CPUs : \E f : Continuations(d)' = {f}
      PROVE  OneContinuation'
  BY <1>3 DEF OneContinuation
<1>4. ASSUME NEW c \in CPUs, Finish(c, e) PROVE OneContinuation'
  BY <1>4 DEF Finish, Exits, OneContinuation, Running
<1>5. ASSUME NEW c \in CPUs, BackOff(c, e) PROVE OneContinuation'
  <2>1. PICK p \in Free, t \in Nat :
          queue' = (queue \ {e}) \cup {Event(p, t, c, c)}
    <3>1. Notifies(e, c)
      BY <1>5 DEF BackOff
    <3>2. e.time + 1 \in Nat
      BY <3>1, Dispatched
    <3> QED BY <1>5, <3>2, BackOffEffect
  <2> DEFINE x == Event(p, t, c, c)
  <2>2. /\ Running /\ Continuations(c) = {e} /\ Beep(e, c)
        /\ \A d \in CPUs : Current(d)' = Current(d)
    BY <1>5, Dispatched, DispatchedToCPU, BackOffEffect DEF BackOff, Current
  <2>3. Beep(x, c) /\ x.source = c /\ x.dest = c
    BY DEF Beep, Event
  <2> HIDE DEF x
  <2>4. Continuations(c)' = {x}
    BY <2>1, <2>2, <2>3 DEF Continuations, CarriesRead, x
  <2>5. ASSUME NEW d \in CPUs, d # c PROVE Continuations(d)' = Continuations(d)
    <3>1. ~Concerns(e, d) /\ ~Concerns(x, d)
      BY <2>2, <2>3, <2>5, EventConcerns DEF Beep
    <3>2. queue' = (queue \ {e}) \cup {x}
      BY <2>1 DEF x
    <3> QED BY <2>2, <3>1, <3>2, OthersContinue
  <2> QED BY <1>2, <1>3, <2>2, <2>4, <2>5
<1>6. ASSUME NEW c \in CPUs, Notifies(e, c),
             BusEvents \subseteq {e},
             op_counter[c] + 1 \in DOMAIN test_requests[c],
             op_counter' = [op_counter EXCEPT ![c] = @ + 1],
             UNCHANGED test_requests,
             NEW new, queue' = (queue \ {e}) \cup new,
             \A x \in new : x.source \in {c, MEM} /\ x.dest \in {c, MEM},
             NEW y \in new,
             \A x \in new : x = y <=> (Beep(x, c) \/ CarriesRead(x, c)')
      PROVE  OneContinuation'
  <2>1. Running /\ Continuations(c) = {e}
    BY <1>6, Dispatched, DispatchedToCPU
  <2>2. e.source \in {c, MEM} /\ e.dest \in {c, MEM}
    BY <1>6, DispatchedToCPU DEF Beep, Response
  <2>3. Continuations(c)' = {y}
    <3>1. ASSUME NEW f \in queue \ {e} PROVE ~Beep(f, c) /\ ~CarriesRead(f, c)'
      <4>1. ~Beep(f, c)
        BY <2>1, <3>1 DEF Continuations
      <4>2. ~BusEvent(f)
        BY <1>6, <3>1 DEF BusEvents
      <4>3. ~Request(f, c) /\ ~Response(f, c)
        BY <4>2, BusAssumption DEF BusEvent, Request, Response
      <4> QED BY <4>1, <4>3 DEF CarriesRead, Request, Response
    <3> QED BY <1>6, <3>1 DEF Continuations, Beep
  <2>4. ASSUME NEW d \in CPUs, d # c PROVE Continuations(d)' = Continuations(d)
    <3>1. ~Concerns(e, d) /\ \A x \in new : ~Concerns(x, d)
      BY <1>6, <2>2, <2>4, EventConcerns
    <3>2. Current(d)' = Current(d)
      BY <1>2, <1>6, <2>4 DEF Current
    <3> QED BY <1>6, <3>1, <3>2, OthersContinue
  <2> QED BY <1>2, <1>3, <2>1, <2>3, <2>4
<1>7. ASSUME NEW c \in CPUs, IssueRead(c, e) PROVE OneContinuation'
  <2>1. /\ Notifies(e, c) /\ e.time + 1 \in Nat /\ op_counter[c] \in Nat
    BY <1>2, <1>7, Dispatched DEF IssueRead
  <2>2. PICK p \in Free, t \in Nat :
          queue' = (queue \ {e}) \cup {Event(p, t, c, MEM)}
    BY <1>7, <2>1, IssueReadEffect
  <2> DEFINE x == Event(p, t, c, MEM)
  <2>3. x.source = c /\ x.dest = MEM /\ Request(x, c)
    BY DEF Event, Request
  <2>4. op_counter'[c] = op_counter[c] + 1
    BY <1>2, <1>7, IssueReadEffect
  <2>5. Current(c)'.request = "READ"
    BY <1>7, <2>4, IssueReadEffect DEF Current, NextRequest
  <2>6. CarriesRead(x, c)'
    BY <2>3, <2>5 DEF CarriesRead, Request
  <2> HIDE DEF x
  <2> DEFINE new == {x}
  <2>7. queue' = (queue \ {e}) \cup new /\ x \in new
    BY <2>2 DEF x
  <2>8. /\ \A z \in new : z.source \in {c, MEM} /\ z.dest \in {c, MEM}
        /\ \A z \in new : z = x <=> (Beep(z, c) \/ CarriesRead(z, c)')
    BY <2>3, <2>6
  <2> HIDE DEF new
  <2> QED BY <1>6, <1>7, <2>1, <2>7, <2>8, IssueReadEffect
<1>8. ASSUME NEW c \in CPUs, IssueWrite(c, e) PROVE OneContinuation'
  <2>1. /\ Notifies(e, c) /\ e.time + 1 \in Nat /\ op_counter[c] \in Nat
    BY <1>2, <1>8, Dispatched DEF IssueWrite
  <2>2. PICK p \in Free, q \in Free, t \in Nat :
          queue' = (queue \ {e}) \cup {Event(p, t, c, MEM), Event(q, t, c, c)}
    BY <1>8, <2>1, IssueWriteEffect
  <2> DEFINE x == Event(p, t, c, MEM)
             y == Event(q, t, c, c)
  <2>3. /\ x.source = c /\ x.dest = MEM
        /\ y.source = c /\ y.dest = c /\ Beep(y, c)
    BY DEF Event, Beep
  <2>4. op_counter'[c] = op_counter[c] + 1
    BY <1>2, <1>8, IssueWriteEffect
  <2>5. Current(c)'.request = "WRITE"
    BY <1>8, <2>4, IssueWriteEffect DEF Current, NextRequest
  <2>6. ~Beep(x, c) /\ ~CarriesRead(x, c)'
    BY <2>3, <2>5, BusAssumption DEF CarriesRead, Beep
  <2> HIDE DEF x, y
  <2> DEFINE new == {x, y}
  <2>7. queue' = (queue \ {e}) \cup new /\ y \in new
    BY <2>2 DEF x, y
  <2>8. /\ \A z \in new : z.source \in {c, MEM} /\ z.dest \in {c, MEM}
        /\ \A z \in new : z = y <=> (Beep(z, c) \/ CarriesRead(z, c)')
    BY <2>3, <2>6
  <2> HIDE DEF new
  <2> QED BY <1>6, <1>8, <2>1, <2>7, <2>8, IssueWriteEffect
<1>9. ASSUME NEW p, NEW t, queue' = (queue \ {e}) \cup {Event(p, t, MEM, MEM)},
             RefreshTimer(e), UNCHANGED <<exit_status, cpuVars>>
      PROVE  OneContinuation'
  <2> DEFINE x == Event(p, t, MEM, MEM)
  <2>1. \A d \in CPUs : ~Concerns(e, d) /\ ~Concerns(x, d)
    <3>1. e.source = MEM /\ e.dest = MEM /\ x.source = MEM /\ x.dest = MEM
      BY <1>9 DEF RefreshTimer, Event
    <3> QED BY <3>1, BusAssumption DEF Concerns
  <2>2. \A d \in CPUs : Current(d)' = Current(d)
    BY <1>9 DEF Current, cpuVars
  <2> HIDE DEF x
  <2> DEFINE new == {x}
  <2>3. queue' = (queue \ {e}) \cup new
    BY <1>9 DEF x
  <2>4. ASSUME NEW d \in CPUs PROVE Continuations(d)' = Continuations(d)
    <3>1. \A z \in new : ~Concerns(z, d)
      BY <2>1
    <3> HIDE DEF new
    <3> QED BY <2>1, <2>2, <2>3, <3>1, OthersContinue
  <2> QED BY <1>2, <1>9, <2>4 DEF OneContinuation, Running
<1>10. ASSUME startRefresh(e), UNCHANGED cpuVars PROVE OneContinuation'
  BY <1>9, <1>10, startRefreshEffect
<1>11. ASSUME endRefresh(e), UNCHANGED cpuVars PROVE OneContinuation'
  BY <1>9, <1>11, endRefreshEffect
<1>12. ASSUME NEW c \in CPUs, Request(e, c), Running, UNCHANGED cpuVars,
              NEW new, queue' = (queue \ {e}) \cup new,
              \A x \in new : x.source \in {c, MEM} /\ x.dest \in {c, MEM},
              \/ /\ ~CarriesRead(e, c)
                 /\ \A x \in new : ~Beep(x, c) /\ ~CarriesRead(x, c)
              \/ CarriesRead(e, c) /\ \E x : new = {x} /\ CarriesRead(x, c)
       PROVE  OneContinuation'
  <2>1. \A d \in CPUs : Current(d)' = Current(d)
    BY <1>12 DEF Current, cpuVars
  <2>2. ~Beep(e, c) /\ e.source = c /\ e.dest = MEM
    BY <1>12, BusAssumption DEF Beep, Request
  <2>3. \A f : CarriesRead(f, c)' <=> CarriesRead(f, c)
    BY <2>1 DEF CarriesRead, Request, Response
  <2>4. \E f : Continuations(c)' = {f}
    <3>1. CASE ~CarriesRead(e, c)
      <4>1. \A x \in new : ~Beep(x, c) /\ ~CarriesRead(x, c)
        BY <1>12, <3>1
      <4>2. Continuations(c)' = Continuations(c)
        BY <1>12, <2>2, <2>3, <3>1, <4>1 DEF Continuations, Beep
      <4> QED BY <1>2, <1>12, <4>2
    <3>2. CASE CarriesRead(e, c)
      <4>1. Continuations(c) = {e}
        BY <1>2, <1>12, <3>2 DEF Continuations
      <4>2. PICK x : new = {x} /\ CarriesRead(x, c)
        BY <1>12, <3>2
      <4>3. Continuations(c)' = {x}
        BY <1>12, <2>3, <4>1, <4>2 DEF Continuations, Beep
      <4> QED BY <4>3
    <3> QED BY <3>1, <3>2
  <2>5. ASSUME NEW d \in CPUs, d # c PROVE Continuations(d)' = Continuations(d)
    <3>1. ~Concerns(e, d) /\ \A x \in new : ~Concerns(x, d)
      BY <1>12, <2>2, <2>5, EventConcerns
    <3> QED BY <1>12, <2>1, <3>1, OthersContinue
  <2> QED BY <1>2, <1>3, <1>12, <2>4, <2>5
<1>13. ASSUME PostponeRequest(e), UNCHANGED cpuVars PROVE OneContinuation'
  <2>1. PICK c \in CPUs, p \in Free, t \in Nat :
          /\ Request(e, c)
          /\ queue' = (queue \ {e}) \cup {Event(p, t, c, MEM)}
    BY <1>13, PostponeEffect
  <2> DEFINE x == Event(p, t, c, MEM)
  <2>2. x.source = c /\ x.dest = MEM /\ ~Beep(x, c)
    BY BusAssumption DEF Event, Beep
  <2>3. CarriesRead(x, c) <=> CarriesRead(e, c)
    BY <2>1, <2>2 DEF CarriesRead, Request
  <2>4. Running
    BY <1>13, Dispatched DEF PostponeRequest
  <2> HIDE DEF x
  <2> DEFINE new == {x}
  <2>5. /\ queue' = (queue \ {e}) \cup new
        /\ \A z \in new : z.source \in {c, MEM} /\ z.dest \in {c, MEM}
        /\ \/ /\ ~CarriesRead(e, c)
              /\ \A z \in new : ~Beep(z, c) /\ ~CarriesRead(z, c)
           \/ CarriesRead(e, c) /\ \E z : new = {z} /\ CarriesRead(z, c)
    BY <2>1, <2>2, <2>3 DEF x
  <2> HIDE DEF new
  <2> QED BY <1>12, <1>13, <2>1, <2>4, <2>5
<1>14. ASSUME onReadRequest(e), UNCHANGED cpuVars PROVE OneContinuation'
  <2>1. PICK c \in CPUs, p \in Free, t \in Nat :
          /\ Request(e, c)
          /\ Current(c).request = "READ"
          /\ queue' = (queue \ {e}) \cup {Event(p, t, MEM, c)}
    BY <1>14, onReadRequestEffect
  <2> DEFINE x == Event(p, t, MEM, c)
  <2>2. x.source = MEM /\ x.dest = c
    BY DEF Event
  <2>3. CarriesRead(x, c) /\ CarriesRead(e, c)
    BY <2>1, <2>2 DEF CarriesRead, Request, Response
  <2>4. Running
    BY <1>14, Dispatched DEF onReadRequest
  <2> HIDE DEF x
  <2> DEFINE new == {x}
  <2>5. /\ queue' = (queue \ {e}) \cup new
        /\ \A z \in new : z.source \in {c, MEM} /\ z.dest \in {c, MEM}
        /\ CarriesRead(e, c) /\ \E z : new = {z} /\ CarriesRead(z, c)
    BY <2>1, <2>2, <2>3 DEF x
  <2> HIDE DEF new
  <2> QED BY <1>12, <1>14, <2>1, <2>4, <2>5
<1>15. ASSUME onOtherRequest(e), UNCHANGED cpuVars PROVE OneContinuation'
  <2>1. PICK c \in CPUs : Request(e, c) /\ Current(c).request = "WRITE"
    BY <1>15, onOtherRequestEffect
  <2>2. ~CarriesRead(e, c)
    BY <2>1 DEF CarriesRead
  <2>3. Running
    BY <1>15, Dispatched DEF onOtherRequest
  <2> DEFINE new == {}
  <2>4. /\ queue' = (queue \ {e}) \cup new
        /\ \A z \in new : z.source \in {c, MEM} /\ z.dest \in {c, MEM}
        /\ \A z \in new : ~Beep(z, c) /\ ~CarriesRead(z, c)
    BY <1>15, onOtherRequestEffect
  <2> HIDE DEF new
  <2> QED BY <1>12, <1>15, <2>1, <2>2, <2>3, <2>4
<1> QED BY <1>1, <1>4, <1>5, <1>7, <1>8, <1>10, <1>11, <1>13, <1>14, <1>15
         DEF CPUStep, MemoryStep

-----------------------------------------------------------------------------
(* The refresh timer, and the times of the requests *)

(* A step that leaves the refresh alone. *)
LEMMA RefreshUndisturbed ==
  ASSUME IInv, NEW e \in queue, NEW m, Notifies(e, m), ~RefreshTimer(e),
         NEW new, queue' = (queue \ {e}) \cup new,
         \A x \in new : ~RefreshTimer(x),
         currentTime' = e.time, UNCHANGED <<exit_status, refreshVars>>
  PROVE  RefreshSchedule'
<1>1. Running /\ e.time \in Nat /\ \A f \in queue : e.time <= f.time
  BY Dispatched
<1>2. RefreshTimers' = RefreshTimers
  BY DEF RefreshTimers, RefreshTimer
<1>3. PICK t \in queue :
        /\ RefreshTimers = {t}
        /\ refreshing_phase =>
             t.time = refreshing_phase_started_at + REFRESHING_TIME
        /\ ~refreshing_phase => t.time = NextRefresh
        /\ refreshing_phase => /\ 0 < refreshing_phase_started_at
                               /\ refreshing_phase_started_at <= currentTime
  BY <1>1 DEF IInv, RefreshSchedule, RefreshTimers
<1>4. /\ refreshing_phase_started_at \in Nat
      /\ REFRESHING_TIME \in Nat
      /\ currentTime \in Nat /\ currentTime <= e.time
  BY Dispatched, MemoryAssumption DEF IInv, TypeOK
<1>5. e.time <= t.time
  BY <1>1
<1>6. refreshing_phase =>
        /\ refreshing_phase_started_at <= e.time
        /\ refreshing_phase_started_at + REFRESHING_TIME - e.time >= 0
  BY <1>1, <1>3, <1>4, <1>5
<1>7. NextRefresh' = NextRefresh
  BY DEF NextRefresh, refreshVars
<1> QED BY <1>2, <1>3, <1>6, <1>7 DEF RefreshSchedule, RetryDelay, refreshVars

LEMMA RefreshScheduleNext ==
  ASSUME IInv, tick PROVE RefreshSchedule'
<1>1. PICK e \in queue :
        \/ \E c \in CPUs : CPUStep(c, e) /\ UNCHANGED memVars
        \/ MemoryStep(e) /\ UNCHANGED cpuVars
  BY DEF tick, notify_all
<1>2. ASSUME NEW c \in CPUs, Finish(c, e) PROVE RefreshSchedule'
  BY <1>2 DEF Finish, Exits, RefreshSchedule, Running
<1>3. ASSUME NEW c \in CPUs, NEW new, queue' = (queue \ {e}) \cup new,
             \A x \in new : x.source = c \/ x.dest = c,
             e.source = c \/ e.dest = c
      PROVE  ~RefreshTimer(e) /\ \A x \in new : ~RefreshTimer(x)
  BY <1>3, BusAssumption DEF RefreshTimer
<1>4. ASSUME NEW c \in CPUs, BackOff(c, e), UNCHANGED memVars
      PROVE  RefreshSchedule'
  <2>1. PICK p \in Free :
          queue' = (queue \ {e}) \cup {Event(p, e.time + 1, c, c)}
    BY <1>4, BackOffEffect
  <2> DEFINE new == {Event(p, e.time + 1, c, c)}
  <2>2. \A x \in new : x.source = c
    BY DEF Event
  <2>3. Notifies(e, c) /\ e.dest = c
    BY <1>4, Dispatched DEF BackOff
  <2>4. queue' = (queue \ {e}) \cup new
    BY <2>1
  <2> HIDE DEF new
  <2>5. ~RefreshTimer(e) /\ \A x \in new : ~RefreshTimer(x)
    BY <1>3, <2>2, <2>3, <2>4
  <2> QED BY <1>4, <2>3, <2>4, <2>5, BackOffEffect, RefreshUndisturbed DEF memVars
<1>5. ASSUME NEW c \in CPUs, IssueRead(c, e), UNCHANGED memVars
      PROVE  RefreshSchedule'
  <2>1. PICK p \in Free :
          queue' = (queue \ {e}) \cup {Event(p, e.time + 1, c, MEM)}
    BY <1>5, IssueReadEffect
  <2> DEFINE new == {Event(p, e.time + 1, c, MEM)}
  <2>2. \A x \in new : x.source = c
    BY DEF Event
  <2>3. Notifies(e, c) /\ e.dest = c
    BY <1>5, Dispatched DEF IssueRead
  <2>4. queue' = (queue \ {e}) \cup new
    BY <2>1
  <2> HIDE DEF new
  <2>5. ~RefreshTimer(e) /\ \A x \in new : ~RefreshTimer(x)
    BY <1>3, <2>2, <2>3, <2>4
  <2> QED BY <1>5, <2>3, <2>4, <2>5, IssueReadEffect, RefreshUndisturbed DEF memVars
<1>6. ASSUME NEW c \in CPUs, IssueWrite(c, e), UNCHANGED memVars
      PROVE  RefreshSchedule'
  <2>1. PICK p \in Free, q \in Free :
          queue' = (queue \ {e}) \cup {Event(p, e.time + 1, c, MEM),
                                      Event(q, e.time + 1, c, c)}
    BY <1>6, IssueWriteEffect
  <2> DEFINE new == {Event(p, e.time + 1, c, MEM), Event(q, e.time + 1, c, c)}
  <2>2. \A x \in new : x.source = c
    BY DEF Event
  <2>3. Notifies(e, c) /\ e.dest = c
    BY <1>6, Dispatched DEF IssueWrite
  <2>4. queue' = (queue \ {e}) \cup new
    BY <2>1
  <2> HIDE DEF new
  <2>5. ~RefreshTimer(e) /\ \A x \in new : ~RefreshTimer(x)
    BY <1>3, <2>2, <2>3, <2>4
  <2> QED BY <1>6, <2>3, <2>4, <2>5, IssueWriteEffect, RefreshUndisturbed DEF memVars
<1>7. ASSUME PostponeRequest(e) PROVE RefreshSchedule'
  <2>1. PICK c \in CPUs, p \in Free, t \in Nat :
          /\ Request(e, c)
          /\ queue' = (queue \ {e}) \cup {Event(p, t, c, MEM)}
    BY <1>7, PostponeEffect
  <2> DEFINE new == {Event(p, t, c, MEM)}
  <2>2. \A x \in new : x.source = c
    BY DEF Event
  <2>3. Notifies(e, MEM) /\ e.source = c
    BY <1>7, <2>1 DEF PostponeRequest, Request
  <2>4. queue' = (queue \ {e}) \cup new
    BY <2>1
  <2> HIDE DEF new
  <2>5. ~RefreshTimer(e) /\ \A x \in new : ~RefreshTimer(x)
    BY <1>3, <2>2, <2>3, <2>4
  <2> QED BY <1>7, <2>3, <2>4, <2>5, PostponeEffect, RefreshUndisturbed DEF memVars
<1>8. ASSUME onReadRequest(e) PROVE RefreshSchedule'
  <2>1. PICK c \in CPUs, p \in Free, t \in Nat :
          /\ Request(e, c)
          /\ queue' = (queue \ {e}) \cup {Event(p, t, MEM, c)}
    BY <1>8, onReadRequestEffect
  <2> DEFINE new == {Event(p, t, MEM, c)}
  <2>2. \A x \in new : x.dest = c
    BY DEF Event
  <2>3. Notifies(e, MEM) /\ e.source = c
    BY <1>8, <2>1 DEF onReadRequest, Request
  <2>4. queue' = (queue \ {e}) \cup new
    BY <2>1
  <2> HIDE DEF new
  <2>5. ~RefreshTimer(e) /\ \A x \in new : ~RefreshTimer(x)
    BY <1>3, <2>2, <2>3, <2>4
  <2> QED BY <1>8, <2>3, <2>4, <2>5, onReadRequestEffect, RefreshUndisturbed
<1>9. ASSUME onOtherRequest(e) PROVE RefreshSchedule'
  <2>1. PICK c \in CPUs : Request(e, c)
    BY <1>9, onOtherRequestEffect
  <2> DEFINE new == {}
  <2>2. queue' = (queue \ {e}) \cup new /\ \A x \in new : ~RefreshTimer(x)
    BY <1>9, onOtherRequestEffect
  <2>3. Notifies(e, MEM) /\ ~RefreshTimer(e)
    BY <1>9, <2>1, BusAssumption DEF onOtherRequest, Request, RefreshTimer
  <2> HIDE DEF new
  <2> QED BY <1>9, <2>2, <2>3, onOtherRequestEffect, RefreshUndisturbed
<1>10. e.time \in Nat /\ refreshing_phase_started_at \in Nat
  BY DEF IInv, TypeOK, EventType
<1>11. ASSUME startRefresh(e) PROVE RefreshSchedule'
  <2>1. PICK p \in Free :
          queue' = (queue \ {e})
                     \cup {Event(p, e.time + REFRESHING_TIME, MEM, MEM)}
    BY <1>11, startRefreshEffect
  <2> DEFINE t == e.time + REFRESHING_TIME
             x == Event(p, t, MEM, MEM)
  <2>2. x.time = t /\ RefreshTimer(x)
    BY DEF Event, RefreshTimer
  <2>3. RefreshTimers' = {x}
    BY <1>11, <2>1, <2>2, startRefreshEffect DEF RefreshTimers, RefreshTimer
  <2>4. /\ refreshing_phase'
        /\ refreshing_phase_started_at' = e.time /\ currentTime' = e.time
    BY <1>11, startRefreshEffect
  <2>5. RetryDelay(currentTime)' >= 0
    BY <1>10, <2>4, MemoryAssumption DEF RetryDelay
  <2>6. /\ x.time = refreshing_phase_started_at' + REFRESHING_TIME
        /\ refreshing_phase_started_at' <= currentTime'
    BY <1>10, <2>2, <2>4
  <2>7. 0 < e.time
    <3>1. Running /\ ~refreshing_phase
      BY <1>11, Dispatched, startRefreshEffect DEF startRefresh
    <3>2. e.time = NextRefresh
      BY <1>11, <3>1, startRefreshEffect DEF IInv, RefreshSchedule
    <3> QED BY <1>10, <3>2, MemoryAssumption DEF NextRefresh
  <2> HIDE DEF x, t
  <2> QED BY <2>3, <2>4, <2>5, <2>6, <2>7 DEF RefreshSchedule
<1>12. ASSUME endRefresh(e) PROVE RefreshSchedule'
  <2>1. PICK p \in Free :
          queue' = (queue \ {e})
                     \cup {Event(p, e.time + REFRESHING_INTERVAL, MEM, MEM)}
    BY <1>12, endRefreshEffect
  <2> DEFINE t == e.time + REFRESHING_INTERVAL
             x == Event(p, t, MEM, MEM)
  <2>2. x.time = t /\ RefreshTimer(x)
    BY DEF Event, RefreshTimer
  <2>3. RefreshTimers' = {x}
    BY <1>12, <2>1, <2>2, endRefreshEffect DEF RefreshTimers, RefreshTimer
  <2>4. /\ e.time = refreshing_phase_started_at + REFRESHING_TIME
        /\ 0 < refreshing_phase_started_at
    <3>1. Running
      BY <1>12, Dispatched DEF endRefresh
    <3> QED BY <1>12, <3>1, endRefreshEffect DEF IInv, RefreshSchedule
  <2>5. t = NextRefresh'
    <3>1. UNCHANGED refreshing_phase_started_at
      BY <1>12, endRefreshEffect
    <3> QED BY <1>10, <2>4, <3>1, MemoryAssumption DEF NextRefresh
  <2> HIDE DEF x
  <2> QED BY <1>12, <2>2, <2>3, <2>5, endRefreshEffect DEF RefreshSchedule
<1> QED BY <1>1, <1>2, <1>4, <1>5, <1>6, <1>7, <1>8, <1>9, <1>11, <1>12
         DEF CPUStep, MemoryStep

(* How late a request may be due. *)
RequestBound ==
  IF refreshing_phase THEN refreshing_phase_started_at + REFRESHING_TIME + 1
                      ELSE currentTime + 1

LEMMA RequestTimes ==
  /\ IInv /\ Running =>
       \A f \in queue : \A c \in CPUs : Request(f, c) => f.time <= RequestBound
  /\ (Running' => \A f \in queue' : \A c \in CPUs :
                    Request(f, c) => f.time <= RequestBound')
       => RequestsAreSoon' /\ NoRequestOutlivesRefresh'
  BY DEF IInv, RequestsAreSoon, NoRequestOutlivesRefresh, RequestBound

LEMMA RequestTimesNext ==
  ASSUME IInv, tick PROVE RequestsAreSoon' /\ NoRequestOutlivesRefresh'
<1> DEFINE Bounded(f, b) == \A c \in CPUs : Request(f, c) => f.time <= b
<1>1. PICK e \in queue :
        \/ \E c \in CPUs : CPUStep(c, e) /\ UNCHANGED memVars
        \/ MemoryStep(e) /\ UNCHANGED cpuVars
  BY DEF tick, notify_all
<1>2. SUFFICES ASSUME Running'
               PROVE  \A f \in queue' : Bounded(f, RequestBound')
  BY RequestTimes
<1>3. /\ e.time \in Nat /\ currentTime \in Nat
      /\ refreshing_phase_started_at \in Nat /\ REFRESHING_TIME \in Nat
      /\ \A f \in queue : f.time \in Nat
  BY MemoryAssumption DEF IInv, TypeOK, EventType
<1>4. ASSUME NEW m, Notifies(e, m)
      PROVE  /\ \A f \in queue : Bounded(f, RequestBound)
             /\ currentTime <= e.time
             /\ refreshing_phase =>
                  e.time <= refreshing_phase_started_at + REFRESHING_TIME
  <2>1. Running /\ currentTime <= e.time /\ \A f \in queue : e.time <= f.time
    BY <1>4, Dispatched
  <2>2. refreshing_phase => \E t \in queue :
          t.time = refreshing_phase_started_at + REFRESHING_TIME
    BY <2>1 DEF IInv, RefreshSchedule, RefreshTimers
  <2> QED BY <2>1, <2>2, RequestTimes
<1>5. ASSUME NEW m, Notifies(e, m), NEW new, queue' = (queue \ {e}) \cup new,
             \A x \in new : \A c \in CPUs : Request(x, c) =>
                x.time \in Nat /\ x.time <= e.time + 1,
             currentTime' = e.time, UNCHANGED refreshVars
      PROVE  \A f \in queue' : Bounded(f, RequestBound')
  <2>1. RequestBound' \in Nat /\ RequestBound \in Nat
    BY <1>3, <1>5 DEF RequestBound, refreshVars
  <2>2. RequestBound <= RequestBound' /\ e.time + 1 <= RequestBound'
    BY <1>3, <1>4, <1>5 DEF RequestBound, refreshVars
  <2> QED BY <1>3, <1>4, <1>5, <2>1, <2>2
<1>6. ASSUME NEW c \in CPUs, Finish(c, e)
      PROVE  \A f \in queue' : Bounded(f, RequestBound')
  BY <1>2, <1>6 DEF Finish, Exits, Running
<1>7. ASSUME NEW c \in CPUs, BackOff(c, e), UNCHANGED memVars
      PROVE  \A f \in queue' : Bounded(f, RequestBound')
  <2>1. PICK p \in Free :
          queue' = (queue \ {e}) \cup {Event(p, e.time + 1, c, c)}
    BY <1>7, BackOffEffect
  <2> DEFINE new == {Event(p, e.time + 1, c, c)}
  <2>2. queue' = (queue \ {e}) \cup new /\ \A x \in new : x.time = e.time + 1
    BY <2>1 DEF Event
  <2> HIDE DEF new
  <2>3. /\ Notifies(e, c) /\ currentTime' = e.time
        /\ UNCHANGED refreshVars
    BY <1>7, BackOffEffect DEF BackOff, memVars
  <2>4. \A x \in new : \A d \in CPUs : Request(x, d) =>
          x.time \in Nat /\ x.time <= e.time + 1
    BY <1>3, <2>2
  <2> QED BY <1>5, <2>2, <2>3, <2>4
<1>8. ASSUME NEW c \in CPUs, IssueRead(c, e), UNCHANGED memVars
      PROVE  \A f \in queue' : Bounded(f, RequestBound')
  <2>1. PICK p \in Free :
          queue' = (queue \ {e}) \cup {Event(p, e.time + 1, c, MEM)}
    BY <1>8, IssueReadEffect
  <2> DEFINE new == {Event(p, e.time + 1, c, MEM)}
  <2>2. queue' = (queue \ {e}) \cup new /\ \A x \in new : x.time = e.time + 1
    BY <2>1 DEF Event
  <2> HIDE DEF new
  <2>3. /\ Notifies(e, c) /\ currentTime' = e.time
        /\ UNCHANGED refreshVars
    BY <1>8, IssueReadEffect DEF IssueRead, memVars
  <2>4. \A x \in new : \A d \in CPUs : Request(x, d) =>
          x.time \in Nat /\ x.time <= e.time + 1
    BY <1>3, <2>2
  <2> QED BY <1>5, <2>2, <2>3, <2>4
<1>9. ASSUME NEW c \in CPUs, IssueWrite(c, e), UNCHANGED memVars
      PROVE  \A f \in queue' : Bounded(f, RequestBound')
  <2>1. PICK p \in Free, q \in Free :
          queue' = (queue \ {e}) \cup {Event(p, e.time + 1, c, MEM),
                                      Event(q, e.time + 1, c, c)}
    BY <1>9, IssueWriteEffect
  <2> DEFINE new == {Event(p, e.time + 1, c, MEM), Event(q, e.time + 1, c, c)}
  <2>2. queue' = (queue \ {e}) \cup new /\ \A x \in new : x.time = e.time + 1
    BY <2>1 DEF Event
  <2> HIDE DEF new
  <2>3. /\ Notifies(e, c) /\ currentTime' = e.time
        /\ UNCHANGED refreshVars
    BY <1>9, IssueWriteEffect DEF IssueWrite, memVars
  <2>4. \A x \in new : \A d \in CPUs : Request(x, d) =>
          x.time \in Nat /\ x.time <= e.time + 1
    BY <1>3, <2>2
  <2> QED BY <1>5, <2>2, <2>3, <2>4
<1>10. ASSUME startRefresh(e) PROVE \A f \in queue' : Bounded(f, RequestBound')
  <2>1. PICK p \in Free :
          queue' = (queue \ {e})
                     \cup {Event(p, e.time + REFRESHING_TIME, MEM, MEM)}
    BY <1>10, startRefreshEffect
  <2> DEFINE x == Event(p, e.time + REFRESHING_TIME, MEM, MEM)
  <2>2. Bounded(x, RequestBound')
    BY BusAssumption DEF Event, Request
  <2>3. RequestBound' = e.time + REFRESHING_TIME + 1 /\ RequestBound = currentTime + 1
    BY <1>10, startRefreshEffect DEF RequestBound
  <2>4. Notifies(e, MEM)
    BY <1>10 DEF startRefresh
  <2>5. \A f \in queue : Bounded(f, RequestBound) /\ currentTime <= e.time
    BY <1>4, <2>4
  <2> HIDE DEF x
  <2>6. \A f \in queue : Bounded(f, RequestBound')
    BY <1>3, <2>3, <2>5
  <2> QED BY <2>1, <2>2, <2>6 DEF x
<1>11. ASSUME endRefresh(e) PROVE \A f \in queue' : Bounded(f, RequestBound')
  <2>1. PICK p \in Free :
          queue' = (queue \ {e})
                     \cup {Event(p, e.time + REFRESHING_INTERVAL, MEM, MEM)}
    BY <1>11, endRefreshEffect
  <2> DEFINE x == Event(p, e.time + REFRESHING_INTERVAL, MEM, MEM)
  <2>2. Bounded(x, RequestBound')
    BY BusAssumption DEF Event, Request
  <2>3. Notifies(e, MEM) /\ Running
    BY <1>11, Dispatched DEF endRefresh
  <2>4. e.time = refreshing_phase_started_at + REFRESHING_TIME
    BY <1>11, <2>3, endRefreshEffect DEF IInv, RefreshSchedule
  <2>5. RequestBound' = RequestBound
    BY <1>11, <2>4, endRefreshEffect DEF RequestBound
  <2>6. \A f \in queue : Bounded(f, RequestBound)
    BY <1>4, <2>3
  <2> HIDE DEF x
  <2> QED BY <2>1, <2>2, <2>5, <2>6 DEF x
<1>12. ASSUME PostponeRequest(e) PROVE \A f \in queue' : Bounded(f, RequestBound')
  <2>1. PICK c \in CPUs, p \in Free, t \in Nat :
          /\ t = refreshing_phase_started_at + REFRESHING_TIME
          /\ queue' = (queue \ {e}) \cup {Event(p, t, c, MEM)}
    BY <1>12, PostponeEffect
  <2> DEFINE x == Event(p, t, c, MEM)
  <2>2. x.time = t
    BY DEF Event
  <2>3. RequestBound' = t + 1 /\ RequestBound = t + 1
    BY <1>12, <2>1, PostponeEffect DEF RequestBound, memVars, refreshVars
  <2>4. Notifies(e, MEM)
    BY <1>12 DEF PostponeRequest
  <2>5. \A f \in queue : Bounded(f, RequestBound)
    BY <1>4, <2>4
  <2> HIDE DEF x
  <2>6. Bounded(x, RequestBound')
    BY <2>2, <2>3
  <2> QED BY <2>1, <2>3, <2>5, <2>6 DEF x
<1>13. ASSUME onReadRequest(e) PROVE \A f \in queue' : Bounded(f, RequestBound')
  <2>1. PICK c \in CPUs, p \in Free, t \in Nat :
          queue' = (queue \ {e}) \cup {Event(p, t, MEM, c)}
    BY <1>13, onReadRequestEffect
  <2> DEFINE new == {Event(p, t, MEM, c)}
  <2>2. \A x \in new : \A d \in CPUs : ~Request(x, d)
    BY BusAssumption DEF Event, Request
  <2>3. queue' = (queue \ {e}) \cup new
    BY <2>1
  <2> HIDE DEF new
  <2> QED BY <1>5, <1>13, <2>2, <2>3, onReadRequestEffect DEF onReadRequest
<1>14. ASSUME onOtherRequest(e) PROVE \A f \in queue' : Bounded(f, RequestBound')
  <2> DEFINE new == {}
  <2>1. /\ queue' = (queue \ {e}) \cup new
        /\ \A x \in new : \A d \in CPUs : ~Request(x, d)
    BY <1>14, onOtherRequestEffect
  <2> HIDE DEF new
  <2> QED BY <1>5, <1>14, <2>1, onOtherRequestEffect DEF onOtherRequest
<1> QED BY <1>1, <1>6, <1>7, <1>8, <1>9, <1>10, <1>11, <1>12, <1>13, <1>14
         DEF CPUStep, MemoryStep

-----------------------------------------------------------------------------
(* The invariant *)

(* At the start every module has one event pending, to itself. *)
LEMMA InitialQueue ==
  ASSUME QueueInit
  PROVE  /\ queue \subseteq EventType
         /\ \A f \in queue :
              /\ f.dest = f.source
              /\ f.source \in CPUs => f.time = 0
              /\ f.source = MEM => f.time = REFRESHING_INTERVAL
         /\ \A f, g \in queue : f.source = g.source \/ f.ptr = g.ptr => f = g
         /\ \A m \in CPUs \cup {MEM} : \E f \in queue : f.source = m
<1>1. PICK address \in [InitialEvents -> Pointers] :
        /\ \A x, y \in InitialEvents : address[x] = address[y] => x = y
        /\ queue = {[ptr |-> address[x], time |-> x.time, source |-> x.source,
                     dest |-> x.dest] : x \in InitialEvents}
  BY DEF QueueInit
<1>2. \A x \in InitialEvents :
        /\ x.dest = x.source /\ x.source \in CPUs \cup {MEM} /\ x.time \in Nat
        /\ x.source \in CPUs => x.time = 0
        /\ x.source = MEM => x.time = REFRESHING_INTERVAL
        /\ address[x] \in Pointers
  BY MemoryAssumption, BusAssumption DEF InitialEvents
<1>3. \A x, y \in InitialEvents : x.source = y.source => x = y
  BY BusAssumption DEF InitialEvents
<1>4. ASSUME NEW m \in CPUs \cup {MEM} PROVE \E x \in InitialEvents : x.source = m
  <2>1. CASE m \in CPUs
    <3>1. [time |-> 0, source |-> m, dest |-> m] \in InitialEvents
      BY <2>1 DEF InitialEvents
    <3> QED BY <3>1
  <2>2. CASE m = MEM
    <3>1. [time |-> REFRESHING_INTERVAL, source |-> MEM, dest |-> MEM]
            \in InitialEvents
      BY DEF InitialEvents
    <3> QED BY <2>2, <3>1
  <2> QED BY <2>1, <2>2
<1>5. ASSUME NEW f \in queue
      PROVE  \E x \in InitialEvents :
               /\ f = [ptr |-> address[x], time |-> x.time, source |-> x.source,
                       dest |-> x.dest]
               /\ f.ptr = address[x] /\ f.time = x.time
               /\ f.source = x.source /\ f.dest = x.dest
  BY <1>1
<1>6. queue \subseteq EventType
  BY <1>2, <1>5 DEF EventType
<1>7. \A f \in queue :
        /\ f.dest = f.source
        /\ f.source \in CPUs => f.time = 0
        /\ f.source = MEM => f.time = REFRESHING_INTERVAL
  BY <1>2, <1>5
<1>8. \A f, g \in queue : f.source = g.source \/ f.ptr = g.ptr => f = g
  BY <1>1, <1>3, <1>5
<1>9. ASSUME NEW m \in CPUs \cup {MEM} PROVE \E f \in queue : f.source = m
  <2>1. PICK x \in InitialEvents : x.source = m
    BY <1>4
  <2>2. [ptr |-> address[x], time |-> x.time, source |-> x.source,
         dest |-> x.dest] \in queue
    BY <1>1
  <2> QED BY <2>1, <2>2
<1> QED BY <1>6, <1>7, <1>8, <1>9

LEMMA InitIInv == Init => IInv
<1> SUFFICES ASSUME Init PROVE IInv
  OBVIOUS
<1>1. /\ queue \subseteq EventType
      /\ \A f \in queue :
           /\ f.dest = f.source
           /\ f.source \in CPUs => f.time = 0
           /\ f.source = MEM => f.time = REFRESHING_INTERVAL
      /\ \A f, g \in queue : f.source = g.source \/ f.ptr = g.ptr => f = g
      /\ \A m \in CPUs \cup {MEM} : \E f \in queue : f.source = m
  BY InitialQueue DEF Init
<1>2. TypeOK
  <2>1. /\ currentTime \in Nat /\ exit_status = "running"
        /\ first_access \in BOOLEAN /\ last_row_addressed \in Nat
        /\ refreshing_phase \in BOOLEAN /\ refreshing_phase_started_at \in Nat
    BY DEF Init, MemoryInit
  <2>2. bus \in [busy : BOOLEAN, request : {"READ", "WRITE", "UNDEFINED"},
                address : AddressRange, data : Words]
    <3>1. PICK address \in AddressRange, data \in InitialWords :
            bus = [busy |-> FALSE, request |-> "UNDEFINED",
                   address |-> address, data |-> data]
      BY DEF Init, BusInit
    <3> QED BY <3>1 DEF Words
  <2>3. test_requests \in [CPUs -> Seq(Transaction)]
    BY SimulatorAssumption DEF Init, CPUInit
  <2>4. op_counter \in [CPUs -> Nat]
    BY CPUAssumption DEF Init, CPUInit
  <2>5. dram \in [Cells -> Words]
    BY DEF Init, MemoryInit, Words
  <2> QED BY <1>1, <2>1, <2>2, <2>3, <2>4, <2>5 DEF TypeOK
<1>3. UniquePointers
  BY <1>1 DEF UniquePointers
<1>4. NoEventInThePast
  <2>1. currentTime = 0
    BY DEF Init
  <2> QED BY <1>1, <2>1 DEF NoEventInThePast, EventType
<1>5. BusEvents = {}
  BY <1>1 DEF BusEvents, BusEvent
<1>6. BusProtocol
  <2>1. ~bus.busy
    BY DEF Init, BusInit
  <2> QED BY <1>5, <2>1 DEF BusProtocol
<1>7. OneContinuation
  <2> SUFFICES ASSUME NEW c \in CPUs PROVE \E f : Continuations(c) = {f}
    BY DEF OneContinuation
  <2>1. PICK f \in queue : f.source = c
    BY <1>1
  <2>2. \A g \in queue : Beep(g, c) \/ CarriesRead(g, c) <=> g = f
    BY <1>1, <2>1, BusAssumption
    DEF Beep, CarriesRead, Request, Response
  <2> QED BY <2>2 DEF Continuations
<1>8. RefreshSchedule
  <2>1. PICK f \in queue : f.source = MEM
    BY <1>1
  <2>2. f.time = REFRESHING_INTERVAL
    BY <1>1, <2>1
  <2>3. RefreshTimers = {f}
    BY <1>1, <2>1 DEF RefreshTimers, RefreshTimer
  <2>4. refreshing_phase = FALSE /\ refreshing_phase_started_at = 0
    BY DEF Init, MemoryInit
  <2>5. f.time = NextRefresh
    BY <2>2, <2>4 DEF NextRefresh
  <2> QED BY <2>3, <2>4, <2>5 DEF RefreshSchedule
<1>9. RequestsAreSoon /\ NoRequestOutlivesRefresh
  <2>1. \A f \in queue, c \in CPUs : ~Request(f, c)
    BY <1>1, BusAssumption DEF Request
  <2> QED BY <2>1 DEF RequestsAreSoon, NoRequestOutlivesRefresh
<1>10. NoFailureExit
  BY DEF Init, NoFailureExit
<1> QED BY <1>2, <1>3, <1>4, <1>6, <1>7, <1>8, <1>9, <1>10 DEF IInv

LEMMA StutterIInv ==
  ASSUME IInv, UNCHANGED vars PROVE IInv'
<1> USE DEF vars, systemVars, cpuVars, memVars, accessVars, refreshVars
<1>1. TypeOK' /\ UniquePointers' /\ NoEventInThePast' /\ NoFailureExit'
  BY DEF IInv, TypeOK, UniquePointers, NoEventInThePast, NoFailureExit, Running
<1>2. BusProtocol'
  BY DEF IInv, BusProtocol, BusEvents, Running, Current
<1>3. OneContinuation'
  BY DEF IInv, OneContinuation, Continuations, CarriesRead, Current, Running
<1>4. RefreshSchedule'
  BY DEF IInv, RefreshSchedule, RefreshTimers, RetryDelay, NextRefresh, Running
<1>5. RequestsAreSoon' /\ NoRequestOutlivesRefresh'
  BY DEF IInv, RequestsAreSoon, NoRequestOutlivesRefresh, Running
<1> QED BY <1>1, <1>2, <1>3, <1>4, <1>5 DEF IInv

LEMMA NextIInv == IInv /\ [Next]_vars => IInv'
<1> SUFFICES ASSUME IInv, [Next]_vars PROVE IInv'
  OBVIOUS
<1>1. CASE tick
  <2>1. TypeOK' /\ UniquePointers' /\ NoEventInThePast'
    BY <1>1, TypeNext, QueueInvNext DEF QueueInv
  <2> QED BY <1>1, <2>1, BusProtocolNext, OneContinuationNext,
             RefreshScheduleNext, RequestTimesNext, NoFailureNext DEF IInv
<1>2. CASE UNCHANGED vars
  BY <1>2, StutterIInv
<1> QED BY <1>1, <1>2 DEF Next, Exited

(* IInv is an invariant of the simulator. *)
THEOREM Invariance == Spec => []IInv
  BY InitIInv, NextIInv, PTL DEF Spec

(* Every variable keeps its type; the address on the bus has a cell. *)
THEOREM TypeCorrect == Spec => []TypeOK
<1>1. IInv => TypeOK
  BY DEF IInv
<1> QED BY <1>1, Invariance, PTL

(* The handshake of the bus works for any number of CPUs: one transaction  *)
(* at a time, and it is the one its sender or addressee issued.            *)
THEOREM BusProtocolHolds == Spec => []BusProtocol
<1>1. IInv => BusProtocol
  BY DEF IInv
<1> QED BY <1>1, Invariance, PTL

(* No CPU ever stalls or runs twice. *)
THEOREM OneContinuationHolds == Spec => []OneContinuation
<1>1. IInv => OneContinuation
  BY DEF IInv
<1> QED BY <1>1, Invariance, PTL

(* The refresh timer is unique and exactly on time, in both phases, so a   *)
(* postponed request always has a delay that is not negative.              *)
THEOREM RefreshScheduleHolds == Spec => []RefreshSchedule
<1>1. IInv => RefreshSchedule
  BY DEF IInv
<1> QED BY <1>1, Invariance, PTL

(* A request waits no longer than the phase it ran into. *)
THEOREM NoRequestOutlivesRefreshHolds == Spec => []NoRequestOutlivesRefresh
<1>1. IInv => NoRequestOutlivesRefresh
  BY DEF IInv
<1> QED BY <1>1, Invariance, PTL

(* Neither of the memory's two fatal errors can be reached. *)
THEOREM NoFailureExitHolds == Spec => []NoFailureExit
<1>1. IInv => NoFailureExit
  BY DEF IInv
<1> QED BY <1>1, Invariance, PTL

-----------------------------------------------------------------------------
(* What the simulation leaves behind: the open row after each access, the  *)
(* event list at the exit, and the CPUs that are starved.                  *)

(* A tick leaves the process running, unless its handler is Finish. *)
LEMMA OnlyFinishExits ==
  ASSUME IInv, tick, exit_status' = "success"
  PROVE  \E c \in CPUs, e \in queue : Finish(c, e)
<1>1. PICK e \in queue :
        \/ \E c \in CPUs : CPUStep(c, e) /\ UNCHANGED memVars
        \/ MemoryStep(e) /\ UNCHANGED cpuVars
  BY DEF tick, notify_all
<1>2. exit_status = "running"
  BY <1>1 DEF CPUStep, Finish, BackOff, IssueRead, IssueWrite, MemoryStep,
              startRefresh, endRefresh, PostponeRequest, onReadRequest,
              onOtherRequest, Notifies, Running
<1>3. "running" # "success"
  OBVIOUS
<1>4. ASSUME NEW c \in CPUs, CPUStep(c, e) PROVE Finish(c, e)
  BY <1>2, <1>3, <1>4, BackOffEffect, IssueReadEffect, IssueWriteEffect
  DEF CPUStep
<1>5. ~MemoryStep(e)
  BY <1>2, <1>3, startRefreshEffect, endRefreshEffect, PostponeEffect,
     onReadRequestEffect, onOtherRequestEffect DEF MemoryStep
<1> QED BY <1>1, <1>4, <1>5

(* When a CPU finishes, an event that concerns it, other than the one that *)
(* woke it up, is the request of its last write.                           *)
LEMMA FinishLeavesAWrite ==
  ASSUME IInv, NEW c \in CPUs, NEW e \in queue, Finish(c, e)
  PROVE  \A f \in queue \ {e} : c \in {f.source, f.dest} =>
           Request(f, c) /\ Current(c).request = "WRITE"
<1> SUFFICES ASSUME NEW f \in queue \ {e}, c \in {f.source, f.dest}
             PROVE  Request(f, c) /\ Current(c).request = "WRITE"
  OBVIOUS
<1>1. Notifies(e, c)
  BY DEF Finish
<1>2. Running /\ Continuations(c) = {e}
  BY <1>1, Dispatched, DispatchedToCPU
<1>3. ~Beep(f, c) /\ ~CarriesRead(f, c)
  BY <1>2 DEF Continuations
<1>4. f \in BusEvents
  BY <1>3 DEF BusEvents, BusEvent, Beep
<1>5. PICK d \in CPUs :
        /\ Request(f, d) \/ Response(f, d)
        /\ op_counter[d] \in DOMAIN test_requests[d]
        /\ bus.request = Current(d).request
        /\ Response(f, d) => bus.request = "READ"
  BY <1>2, <1>4 DEF IInv, BusProtocol
<1>6. d = c
  BY <1>5, BusAssumption DEF Request, Response
<1>7. Request(f, c) /\ Current(c).request # "READ"
  BY <1>3, <1>5, <1>6 DEF CarriesRead
<1>8. Current(c) \in Transaction
  BY <1>5, <1>6 DEF IInv, TypeOK, Current
<1> QED BY <1>7, <1>8 DEF Transaction

LEMMA ExitNext ==
  ASSUME IInv, ExitAbandonsOnlyAWrite, [Next]_vars
  PROVE  ExitAbandonsOnlyAWrite'
<1>1. CASE UNCHANGED vars
  BY <1>1 DEF ExitAbandonsOnlyAWrite, AllIssued, Current, vars, systemVars,
              cpuVars
<1>2. CASE tick
  <2> SUFFICES ASSUME exit_status' = "success"
               PROVE  \E c \in CPUs : \E e \in queue' :
                        /\ e.dest = c /\ e.time = currentTime'
                        /\ AllIssued(c)'
                        /\ \A f \in queue' \ {e} : c \in {f.source, f.dest} =>
                             Request(f, c) /\ Current(c)'.request = "WRITE"
    BY DEF ExitAbandonsOnlyAWrite
  <2>1. PICK c \in CPUs, e \in queue : Finish(c, e)
    BY <1>2, OnlyFinishExits
  <2>2. /\ queue' = queue /\ currentTime' = e.time /\ e.dest = c
        /\ AllIssued(c)' /\ Current(c)' = Current(c)
    BY <2>1 DEF Finish, Exits, Notifies, AllIssued, Current, cpuVars
  <2> QED BY <2>1, <2>2, FinishLeavesAWrite
<1> QED BY <1>1, <1>2 DEF Next, Exited

(* exit() abandons at most the last write of the CPU that has finished. *)
THEOREM ExitAbandonsOnlyAWriteHolds == Spec => []ExitAbandonsOnlyAWrite
<1>1. Init => ExitAbandonsOnlyAWrite
  BY DEF Init, ExitAbandonsOnlyAWrite
<1>2. IInv /\ ExitAbandonsOnlyAWrite /\ [Next]_vars => ExitAbandonsOnlyAWrite'
  BY ExitNext
<1> QED BY <1>1, <1>2, Invariance, PTL DEF Spec

-----------------------------------------------------------------------------
(* The open row *)

HasRequest(c) == \E f \in queue : Request(f, c)

(* What OpenRowTracksProgram says of a single CPU. *)
RowIsOpen(c) ==
  /\ Served(c) \in DOMAIN test_requests[c]
  /\ last_row_addressed = RowOf(CellOf(test_requests[c][Served(c)].address))

LEMMA SameServed ==
  ASSUME NEW c \in CPUs, HasRequest(c)' <=> HasRequest(c), UNCHANGED op_counter
  PROVE  Served(c)' = Served(c)
  BY DEF Served, HasRequest

(* A step that serves nothing, and leaves the number of requests served. *)
LEMMA SameRow ==
  ASSUME NEW c \in CPUs, Served(c)' = Served(c), RowIsOpen(c),
         UNCHANGED <<test_requests, last_row_addressed>>
  PROVE  RowIsOpen(c)'
  BY DEF RowIsOpen

(* A step that serves the request that c issued last. *)
LEMMA ServesCurrent ==
  ASSUME NEW c \in CPUs, op_counter[c] \in DOMAIN test_requests[c],
         bus.address = Current(c).address, ~HasRequest(c)',
         last_row_addressed' = RowOf(CellOf(bus.address)), UNCHANGED cpuVars
  PROVE  RowIsOpen(c)'
<1>1. Served(c)' = op_counter[c]
  BY DEF Served, HasRequest, cpuVars
<1> QED BY <1>1 DEF RowIsOpen, Current, cpuVars

(* The messages that wake a CPU up are not requests. *)
LEMMA NoRequestWakesCPU ==
  ASSUME IInv, NEW c \in CPUs, NEW e \in queue, Notifies(e, c)
  PROVE  ~Request(e, c)
  BY BusAssumption DEF Request, Notifies

(* Before c issues, no request of c is on its way; after, one is. *)
LEMMA IssueServesNothing ==
  ASSUME IInv, NEW c \in CPUs, NEW e \in queue, Notifies(e, c),
         BusEvents \subseteq {e}, NEW x \in queue', Request(x, c),
         op_counter' = [op_counter EXCEPT ![c] = @ + 1]
  PROVE  Served(c)' = Served(c)
<1>1. op_counter[c] \in Nat /\ op_counter'[c] = op_counter[c] + 1
  BY DEF IInv, TypeOK
<1>2. ~HasRequest(c)
  BY NoRequestWakesCPU, BusAssumption
  DEF HasRequest, BusEvents, BusEvent, Request
<1>3. HasRequest(c)'
  BY DEF HasRequest
<1> QED BY <1>1, <1>2, <1>3 DEF Served, HasRequest

LEMMA RowCPUStep ==
  ASSUME IInv, NEW c \in CPUs, CPUs = {c}, RowIsOpen(c), NEW e \in queue,
         CPUStep(c, e), UNCHANGED memVars
  PROVE  RowIsOpen(c)'
<1>1. UNCHANGED <<test_requests, last_row_addressed>>
  BY DEF CPUStep, Finish, BackOff, IssueRead, IssueWrite, cpuVars, memVars,
         accessVars
<1>2. Notifies(e, c)
  BY DEF CPUStep, Finish, BackOff, IssueRead, IssueWrite
<1>3. CASE Finish(c, e)
  BY <1>1, <1>3, SameServed, SameRow DEF Finish, Exits, HasRequest, cpuVars
<1>4. CASE BackOff(c, e)
  <2>1. PICK p, t : queue' = (queue \ {e}) \cup {Event(p, t, c, c)}
    BY <1>4, BackOffEffect
  <2>2. ~Request(e, c) /\ ~Request(Event(p, t, c, c), c)
    BY <1>2, NoRequestWakesCPU, BusAssumption DEF Request, Event
  <2>3. HasRequest(c)' <=> HasRequest(c)
    BY <2>1, <2>2 DEF HasRequest
  <2> QED BY <1>1, <1>4, <2>3, BackOffEffect, SameServed, SameRow
<1>5. CASE IssueRead(c, e)
  <2>1. PICK p, t : queue' = (queue \ {e}) \cup {Event(p, t, c, MEM)}
    BY <1>5, IssueReadEffect
  <2>2. Event(p, t, c, MEM) \in queue' /\ Request(Event(p, t, c, MEM), c)
    BY <2>1 DEF Request, Event
  <2>3. /\ BusEvents \subseteq {e}
        /\ op_counter' = [op_counter EXCEPT ![c] = @ + 1]
    BY <1>5, IssueReadEffect
  <2> QED BY <1>1, <1>2, <2>2, <2>3, IssueServesNothing, SameRow
<1>6. CASE IssueWrite(c, e)
  <2>1. PICK p, q, t : queue' = (queue \ {e}) \cup {Event(p, t, c, MEM),
                                                    Event(q, t, c, c)}
    BY <1>6, IssueWriteEffect
  <2>2. Event(p, t, c, MEM) \in queue' /\ Request(Event(p, t, c, MEM), c)
    BY <2>1 DEF Request, Event
  <2>3. /\ BusEvents \subseteq {e}
        /\ op_counter' = [op_counter EXCEPT ![c] = @ + 1]
    BY <1>6, IssueWriteEffect
  <2> QED BY <1>1, <1>2, <2>2, <2>3, IssueServesNothing, SameRow
<1> QED BY <1>3, <1>4, <1>5, <1>6 DEF CPUStep

(* A step of the memory opens the row of the request it serves, or serves  *)
(* nothing.                                                                *)
LEMMA RowMemoryStep ==
  ASSUME IInv, NEW c \in CPUs, CPUs = {c}, ~first_access => RowIsOpen(c),
         ~first_access', NEW e \in queue, MemoryStep(e), UNCHANGED cpuVars
  PROVE  RowIsOpen(c)'
<1>1. ASSUME NEW p, NEW t, RefreshTimer(e), UNCHANGED accessVars,
             queue' = (queue \ {e}) \cup {Event(p, t, MEM, MEM)}
      PROVE  RowIsOpen(c)'
  <2>1. ~Request(e, c) /\ ~Request(Event(p, t, MEM, MEM), c)
    BY <1>1, BusAssumption DEF Request, RefreshTimer, Event
  <2>2. HasRequest(c)' <=> HasRequest(c)
    BY <1>1, <2>1 DEF HasRequest
  <2> QED BY <1>1, <2>2, SameServed, SameRow DEF accessVars, cpuVars
<1>2. CASE startRefresh(e)
  BY <1>1, <1>2, startRefreshEffect
<1>3. CASE endRefresh(e)
  BY <1>1, <1>3, endRefreshEffect
<1>4. CASE PostponeRequest(e)
  <2>1. PICK p, t : /\ Request(e, c)
                    /\ queue' = (queue \ {e}) \cup {Event(p, t, c, MEM)}
    BY <1>4, PostponeEffect
  <2>2. Request(Event(p, t, c, MEM), c)
    BY DEF Request, Event
  <2>3. HasRequest(c)' <=> HasRequest(c)
    BY <2>1, <2>2 DEF HasRequest
  <2>4. UNCHANGED accessVars
    BY <1>4 DEF PostponeRequest, memVars
  <2> QED BY <2>3, <2>4, SameServed, SameRow DEF accessVars, cpuVars
<1>5. ASSUME BusEvents = {e}, NEW new, queue' = (queue \ {e}) \cup new,
             \A x \in new : ~Request(x, c)
      PROVE  ~HasRequest(c)'
  BY <1>5, BusAssumption DEF HasRequest, BusEvents, BusEvent, Request
<1>6. CASE onReadRequest(e)
  <2>1. PICK p, t : /\ op_counter[c] \in DOMAIN test_requests[c]
                    /\ bus.address = Current(c).address
                    /\ queue' = (queue \ {e}) \cup {Event(p, t, MEM, c)}
    BY <1>6, onReadRequestEffect
  <2> DEFINE new == {Event(p, t, MEM, c)}
  <2>2. \A x \in new : ~Request(x, c)
    BY BusAssumption DEF Request, Event
  <2>3. queue' = (queue \ {e}) \cup new
    BY <2>1
  <2> HIDE DEF new
  <2>4. ~HasRequest(c)'
    BY <1>5, <1>6, <2>2, <2>3, onReadRequestEffect
  <2>5. last_row_addressed' = RowOf(CellOf(bus.address))
    BY <1>6, onReadRequestEffect
  <2> QED BY <2>1, <2>4, <2>5, ServesCurrent
<1>7. CASE onOtherRequest(e)
  <2>1. /\ op_counter[c] \in DOMAIN test_requests[c]
        /\ bus.address = Current(c).address
        /\ queue' = queue \ {e}
    BY <1>7, onOtherRequestEffect
  <2> DEFINE new == {}
  <2>2. queue' = (queue \ {e}) \cup new /\ \A x \in new : ~Request(x, c)
    BY <2>1
  <2> HIDE DEF new
  <2>3. ~HasRequest(c)'
    BY <1>5, <1>7, <2>2, onOtherRequestEffect
  <2>4. last_row_addressed' = RowOf(CellOf(bus.address))
    BY <1>7, onOtherRequestEffect
  <2> QED BY <2>1, <2>3, <2>4, ServesCurrent
<1> QED BY <1>2, <1>3, <1>4, <1>6, <1>7 DEF MemoryStep

LEMMA OpenRowNext ==
  ASSUME IInv, OpenRowTracksProgram, [Next]_vars
  PROVE  OpenRowTracksProgram'
<1> SUFFICES ASSUME NEW c \in CPUs, CPUs = {c}, Running', ~first_access'
             PROVE  RowIsOpen(c)'
  BY DEF OpenRowTracksProgram, RowIsOpen
<1>1. CASE UNCHANGED vars
  <2>1. RowIsOpen(c)
    BY <1>1 DEF OpenRowTracksProgram, RowIsOpen, Running, vars, systemVars,
                memVars, accessVars
  <2> QED BY <1>1, <2>1, SameServed, SameRow
          DEF HasRequest, vars, systemVars, cpuVars, memVars, accessVars
<1>2. CASE tick
  <2>1. PICK e \in queue :
          \/ CPUStep(c, e) /\ UNCHANGED memVars
          \/ MemoryStep(e) /\ UNCHANGED cpuVars
    BY <1>2 DEF tick, notify_all
  <2>2. Running
    BY <2>1 DEF CPUStep, Finish, BackOff, IssueRead, IssueWrite, MemoryStep,
                startRefresh, endRefresh, PostponeRequest, onReadRequest,
                onOtherRequest, Notifies
  <2>3. ~first_access => RowIsOpen(c)
    BY <2>2 DEF OpenRowTracksProgram, RowIsOpen
  <2>4. CASE CPUStep(c, e) /\ UNCHANGED memVars
    BY <2>3, <2>4, RowCPUStep DEF memVars, accessVars
  <2>5. CASE MemoryStep(e) /\ UNCHANGED cpuVars
    BY <2>3, <2>5, RowMemoryStep
  <2> QED BY <2>1, <2>4, <2>5
<1> QED BY <1>1, <1>2 DEF Next, Exited

(* With one CPU the open row is that of the last request served, whatever  *)
(* was posted, postponed or refreshed: the access times rest on it.        *)
THEOREM OpenRowTracksProgramHolds == Spec => []OpenRowTracksProgram
<1>1. Init => OpenRowTracksProgram
  BY DEF Init, MemoryInit, OpenRowTracksProgram
<1>2. IInv /\ OpenRowTracksProgram /\ [Next]_vars => OpenRowTracksProgram'
  BY OpenRowNext
<1> QED BY <1>1, <1>2, Invariance, PTL DEF Spec

-----------------------------------------------------------------------------
(* Each request is served once, in the order of its program *)

(* A write that is on the bus carries the word every write carries. *)
PostedWord == bus.busy /\ bus.request = "WRITE" => bus.data = WriteData

LEMMA PostedWordNext ==
  ASSUME IInv, PostedWord, [Next]_vars PROVE PostedWord'
<1>1. CASE UNCHANGED vars
  BY <1>1 DEF PostedWord, vars
<1>2. ASSUME UNCHANGED bus PROVE PostedWord'
  BY <1>2 DEF PostedWord
<1>3. ASSUME bus' = Get(bus) PROVE PostedWord'
  <2>1. ~bus'.busy
    BY <1>3 DEF Get, IInv, TypeOK
  <2> QED BY <2>1 DEF PostedWord
<1>4. ASSUME NEW c \in CPUs, NEW e \in queue, CPUStep(c, e) PROVE PostedWord'
  <2>1. CASE Finish(c, e)
    BY <1>2, <1>3, <2>1 DEF Finish, BusAfterAnswer
  <2>2. CASE BackOff(c, e)
    BY <1>2, <2>2, BackOffEffect
  <2>3. CASE IssueRead(c, e)
    BY <2>3, IssueReadEffect DEF PostedWord
  <2>4. CASE IssueWrite(c, e)
    BY <2>4, IssueWriteEffect DEF PostedWord
  <2> QED BY <1>4, <2>1, <2>2, <2>3, <2>4 DEF CPUStep
<1>5. ASSUME NEW e \in queue, MemoryStep(e) PROVE PostedWord'
  <2>1. CASE startRefresh(e) \/ endRefresh(e) \/ PostponeRequest(e)
    BY <1>2, <2>1 DEF startRefresh, endRefresh, PostponeRequest
  <2>2. CASE onReadRequest(e)
    <3>1. bus' = [busy |-> TRUE, request |-> "READ", address |-> bus.address,
                  data |-> dram[CellOf(bus.address)]]
      BY <2>2, onReadRequestEffect
    <3>2. bus'.request = "READ"
      BY <3>1
    <3> QED BY <3>2 DEF PostedWord
  <2>3. CASE onOtherRequest(e)
    BY <1>3, <2>3 DEF onOtherRequest
  <2> QED BY <1>5, <2>1, <2>2, <2>3 DEF MemoryStep
<1> QED BY <1>1, <1>4, <1>5 DEF Next, Exited, tick, notify_all

(* A step of a CPU serves nobody: at most it sends a request of its own. *)
LEMMA CPUServesNobody ==
  ASSUME IInv, NEW c \in CPUs, NEW e \in queue, CPUStep(c, e)
  PROVE  ServesNobody
<1>1. Notifies(e, c)
  BY DEF CPUStep, Finish, BackOff, IssueRead, IssueWrite
<1>2. \A d \in CPUs : ~Request(e, d)
  BY <1>1, BusAssumption DEF Notifies, Request
<1>3. ASSUME NEW d \in CPUs, NEW new, queue' = (queue \ {e}) \cup new,
             \A x \in new : ~Request(x, d), op_counter'[d] = op_counter[d]
      PROVE  Served(d)' = Served(d)
  BY <1>2, <1>3 DEF Served
<1>4. ASSUME NEW new, queue' = (queue \ {e}) \cup new,
             \A x \in new : x.source = c,
             NEW x \in new, Request(x, c), BusEvents \subseteq {e},
             op_counter' = [op_counter EXCEPT ![c] = @ + 1]
      PROVE  ServesNobody
  <2>1. Served(c)' = Served(c)
    <3>1. x \in queue'
      BY <1>4
    <3> QED BY <1>1, <1>4, <3>1, IssueServesNothing
  <2>2. ASSUME NEW d \in CPUs \ {c} PROVE Served(d)' = Served(d)
    <3>1. \A y \in new : ~Request(y, d)
      BY <1>4, <2>2 DEF Request
    <3>2. op_counter'[d] = op_counter[d]
      BY <1>4, <2>2 DEF IInv, TypeOK
    <3> QED BY <1>3, <1>4, <3>1, <3>2
  <2> QED BY <2>1, <2>2 DEF ServesNobody
<1>5. CASE Finish(c, e)
  BY <1>5 DEF Finish, Exits, cpuVars, ServesNobody, Served
<1>6. CASE BackOff(c, e)
  <2>1. PICK p, t : queue' = (queue \ {e}) \cup {Event(p, t, c, c)}
    BY <1>6, BackOffEffect
  <2> DEFINE new == {Event(p, t, c, c)}
  <2>2. \A d \in CPUs, x \in new : ~Request(x, d)
    BY BusAssumption DEF Request, Event
  <2>3. UNCHANGED op_counter
    BY <1>6, BackOffEffect
  <2>4. queue' = (queue \ {e}) \cup new
    BY <2>1
  <2> HIDE DEF new
  <2> QED BY <1>3, <2>2, <2>3, <2>4 DEF ServesNobody
<1>7. CASE IssueRead(c, e)
  <2>1. PICK p, t : queue' = (queue \ {e}) \cup {Event(p, t, c, MEM)}
    BY <1>7, IssueReadEffect
  <2>2. Request(Event(p, t, c, MEM), c) /\ Event(p, t, c, MEM).source = c
    BY DEF Request, Event
  <2>3. /\ BusEvents \subseteq {e}
        /\ op_counter' = [op_counter EXCEPT ![c] = @ + 1]
    BY <1>7, IssueReadEffect
  <2> QED BY <1>4, <2>1, <2>2, <2>3
<1>8. CASE IssueWrite(c, e)
  <2>1. PICK p, q, t : queue' = (queue \ {e}) \cup {Event(p, t, c, MEM),
                                                    Event(q, t, c, c)}
    BY <1>8, IssueWriteEffect
  <2>2. /\ Request(Event(p, t, c, MEM), c) /\ Event(p, t, c, MEM).source = c
        /\ Event(q, t, c, c).source = c
    BY DEF Request, Event
  <2>3. /\ BusEvents \subseteq {e}
        /\ op_counter' = [op_counter EXCEPT ![c] = @ + 1]
    BY <1>8, IssueWriteEffect
  <2> QED BY <1>4, <2>1, <2>2, <2>3
<1> QED BY <1>5, <1>6, <1>7, <1>8 DEF CPUStep

(* The memory serves the request it takes from the bus, the one that its   *)
(* sender issued last, and no other.                                       *)
LEMMA TakesCurrent ==
  ASSUME IInv, NEW c \in CPUs, NEW e \in queue, Request(e, c),
         BusEvents = {e}, NEW new, queue' = (queue \ {e}) \cup new,
         \A x \in new : x.source = MEM,
         op_counter[c] \in DOMAIN test_requests[c], UNCHANGED op_counter,
         Serves(Current(c))
  PROVE  /\ \A d \in CPUs : ServesInOrder(d)
         /\ ~ServesNobody
<1>1. op_counter[c] \in Nat
  BY DEF IInv, TypeOK
<1>2. \A f \in queue', d \in CPUs : ~Request(f, d)
  BY BusAssumption DEF BusEvents, BusEvent, Request
<1>3. Served(c) = op_counter[c] - 1 /\ Served(c)' = op_counter[c]
  BY <1>2 DEF Served
<1>4. ServesInOrder(c) /\ Served(c)' # Served(c)
  BY <1>1, <1>3 DEF ServesInOrder, Current
<1>5. ASSUME NEW d \in CPUs \ {c} PROVE Served(d)' = Served(d)
  <2>1. \A f \in queue : ~Request(f, d)
    BY <1>5, BusAssumption DEF BusEvents, BusEvent, Request
  <2> QED BY <1>2, <2>1 DEF Served
<1> QED BY <1>4, <1>5 DEF ServesInOrder, ServesNobody

LEMMA MemoryServesInOrder ==
  ASSUME IInv, PostedWord, NEW e \in queue, MemoryStep(e), UNCHANGED cpuVars
  PROVE  /\ \A c \in CPUs : ServesInOrder(c)
         /\ ServesNobody => UNCHANGED accessVars
<1>1. UNCHANGED op_counter
  BY DEF cpuVars
<1>2. ASSUME ServesNobody, UNCHANGED accessVars
      PROVE  /\ \A c \in CPUs : ServesInOrder(c)
             /\ ServesNobody => UNCHANGED accessVars
  BY <1>2 DEF ServesNobody, ServesInOrder
<1>3. ASSUME NEW p, NEW t, RefreshTimer(e), UNCHANGED accessVars,
             queue' = (queue \ {e}) \cup {Event(p, t, MEM, MEM)}
      PROVE  ServesNobody
  <2>1. \A d \in CPUs :
          ~Request(e, d) /\ ~Request(Event(p, t, MEM, MEM), d)
    BY <1>3, BusAssumption DEF Request, RefreshTimer, Event
  <2> QED BY <1>1, <1>3, <2>1 DEF ServesNobody, Served
<1>4. CASE startRefresh(e)
  BY <1>2, <1>3, <1>4, startRefreshEffect
<1>5. CASE endRefresh(e)
  BY <1>2, <1>3, <1>5, endRefreshEffect
<1>6. CASE PostponeRequest(e)
  <2>1. PICK c \in CPUs, p \in Free, t \in Nat :
          /\ Request(e, c)
          /\ queue' = (queue \ {e}) \cup {Event(p, t, c, MEM)}
    BY <1>6, PostponeEffect
  <2>2. \A d \in CPUs : Request(e, d) <=> Request(Event(p, t, c, MEM), d)
    BY <2>1 DEF Request, Event
  <2>3. ServesNobody
    BY <1>1, <2>1, <2>2 DEF ServesNobody, Served
  <2>4. UNCHANGED accessVars
    BY <1>6, PostponeEffect DEF memVars
  <2> QED BY <1>2, <2>3, <2>4
<1>7. CASE onReadRequest(e)
  <2>1. PICK c \in CPUs, p \in Free, t \in Nat :
          /\ Request(e, c)
          /\ op_counter[c] \in DOMAIN test_requests[c]
          /\ Current(c).request = "READ"
          /\ bus.address = Current(c).address
          /\ queue' = (queue \ {e}) \cup {Event(p, t, MEM, c)}
    BY <1>7, onReadRequestEffect
  <2>2. Serves(Current(c))
    <3>1. bus.busy
      BY <1>7 DEF onReadRequest, GetSucceeds
    <3>2. bus' = [busy |-> TRUE, request |-> "READ", address |-> bus.address,
                  data |-> dram[CellOf(bus.address)]]
      BY <1>7, onReadRequestEffect
    <3>3. UNCHANGED dram
      BY <1>7, onReadRequestEffect
    <3>4. bus'.busy /\ bus'.data = dram[CellOf(bus.address)]
      BY <3>2
    <3> QED BY <2>1, <3>1, <3>3, <3>4 DEF Serves
  <2>3. BusEvents = {e}
    BY <1>7, onReadRequestEffect
  <2>4. Event(p, t, MEM, c).source = MEM
    BY DEF Event
  <2> QED BY <1>1, <2>1, <2>2, <2>3, <2>4, TakesCurrent
<1>8. CASE onOtherRequest(e)
  <2>1. PICK c \in CPUs :
          /\ Request(e, c)
          /\ op_counter[c] \in DOMAIN test_requests[c]
          /\ Current(c).request = "WRITE"
          /\ bus.address = Current(c).address
    BY <1>8, onOtherRequestEffect
  <2>2. /\ BusEvents = {e} /\ bus.busy /\ bus.request = "WRITE"
        /\ bus' = [bus EXCEPT !.busy = FALSE]
        /\ dram' = [dram EXCEPT ![CellOf(bus.address)] = bus.data]
    BY <1>8, onOtherRequestEffect
  <2>3. bus.data = WriteData
    BY <2>2 DEF PostedWord
  <2>4. ~bus'.busy
    BY <2>2 DEF IInv, TypeOK
  <2>5. Serves(Current(c))
    BY <2>1, <2>2, <2>3, <2>4 DEF Serves
  <2> DEFINE new == {}
  <2>6. queue' = (queue \ {e}) \cup new /\ \A x \in new : x.source = MEM
    BY <1>8, onOtherRequestEffect
  <2> HIDE DEF new
  <2> QED BY <1>1, <2>1, <2>2, <2>5, <2>6, TakesCurrent
<1> QED BY <1>4, <1>5, <1>6, <1>7, <1>8 DEF MemoryStep

(* Every request is served once and in the order of its program, or is     *)
(* still on its way, however often it was postponed; the memory changes    *)
(* for nothing else.                                                       *)
THEOREM ServedOnceInOrderHolds == Spec => ServedOnceInOrder
<1>1. Init => PostedWord
  BY DEF Init, BusInit, PostedWord
<1>2. IInv /\ PostedWord /\ [Next]_vars => PostedWord'
  BY PostedWordNext
<1>3. ASSUME IInv, PostedWord, [Next]_vars
      PROVE  [/\ \A c \in CPUs : ServesInOrder(c)
              /\ ServesNobody => UNCHANGED accessVars]_vars
  <2> SUFFICES ASSUME tick
               PROVE  /\ \A c \in CPUs : ServesInOrder(c)
                      /\ ServesNobody => UNCHANGED accessVars
    BY <1>3 DEF Next, Exited
  <2>1. PICK e \in queue : notify_all(e)
    BY DEF tick
  <2>2. CASE MemoryStep(e) /\ UNCHANGED cpuVars
    BY <1>3, <2>2, MemoryServesInOrder
  <2>3. CASE \E c \in CPUs : CPUStep(c, e) /\ UNCHANGED memVars
    <3>1. ServesNobody
      BY <1>3, <2>3, CPUServesNobody
    <3>2. UNCHANGED accessVars
      BY <2>3 DEF memVars
    <3> QED BY <3>1, <3>2 DEF ServesNobody, ServesInOrder
  <2> QED BY <2>1, <2>2, <2>3 DEF notify_all
<1> QED BY <1>1, <1>2, <1>3, Invariance, PTL DEF Spec, ServedOnceInOrder

-----------------------------------------------------------------------------
(* Starvation *)

(* While a CPU waits for a word its read has the bus. *)
LEMMA ReadHasTheBus ==
  ASSUME IInv, Running, NEW c \in CPUs, NEW r \in queue, CarriesRead(r, c)
  PROVE  BusEvents = {r} /\ bus.busy /\ Continuations(c) = {r}
<1>1. r \in BusEvents
  BY BusAssumption DEF CarriesRead, Request, Response, BusEvents, BusEvent
<1>2. r \in Continuations(c)
  BY DEF Continuations
<1> QED BY <1>1, <1>2 DEF IInv, BusProtocol, OneContinuation

(* What is left of OnlyReadsAhead after a step that carries the read on. *)
LEMMA StillAhead ==
  ASSUME NEW c \in CPUs, OnlyReadsAhead(c), UNCHANGED cpuVars,
         NEW x \in queue', Request(x, c) \/ Response(x, c),
         Current(c).request = "READ"
  PROVE  OnlyReadsAhead(c)'
<1>1. Current(c)' = Current(c)
  BY DEF Current, cpuVars
<1>2. CarriesRead(x, c)'
  BY <1>1 DEF CarriesRead, Request, Response
<1> QED BY <1>2 DEF OnlyReadsAhead, cpuVars

LEMMA ReaderCPUStep ==
  ASSUME IInv, Running, NEW c \in CPUs, OnlyReadsAhead(c),
         NEW d \in CPUs, NEW e \in queue, CPUStep(d, e)
  PROVE  /\ \A a \in CPUs \ {c} : op_counter'[a] = op_counter[a]
         /\ Running' => OnlyReadsAhead(c)'
<1>1. PICK r \in queue : CarriesRead(r, c)
  BY DEF OnlyReadsAhead
<1>2. /\ BusEvents = {r} /\ bus.busy /\ Continuations(c) = {r}
      /\ Current(c).request = "READ"
      /\ Request(r, c) \/ Response(r, c)
  BY <1>1, ReadHasTheBus DEF CarriesRead
<1>3. Notifies(e, d)
  BY DEF CPUStep, Finish, BackOff, IssueRead, IssueWrite
<1>4. CASE Finish(d, e)
  BY <1>4 DEF Finish, Exits, Running, cpuVars
<1>5. CASE BackOff(d, e)
  <2>1. Beep(e, d)
    BY <1>5, BackOffEffect
  <2>2. UNCHANGED cpuVars
    BY <1>5 DEF BackOff
  <2>3. r # e
    BY <1>2, <2>1 DEF BusEvents, BusEvent, Beep
  <2>4. r \in queue'
    BY <1>5, <2>3, BackOffEffect
  <2>5. OnlyReadsAhead(c)'
    BY <1>2, <2>2, <2>4, StillAhead
  <2> QED BY <2>2, <2>5 DEF cpuVars
<1>6. ASSUME BusEvents \subseteq {e} PROVE d = c
  <2>1. r = e /\ e.dest = d
    BY <1>2, <1>3, <1>6 DEF Notifies
  <2> QED BY <1>2, <2>1, BusAssumption DEF Request, Response
<1>7. CASE IssueRead(d, e)
  <2>1. /\ d = c /\ op_counter[c] \in Nat
        /\ op_counter[c] + 1 \in DOMAIN test_requests[c]
        /\ NextRequest(c).request = "READ"
        /\ op_counter' = [op_counter EXCEPT ![c] = @ + 1]
        /\ UNCHANGED test_requests
    BY <1>6, <1>7, IssueReadEffect
  <2>2. op_counter'[c] = op_counter[c] + 1
    BY <2>1 DEF IInv, TypeOK
  <2>3. PICK p, t : Event(p, t, c, MEM) \in queue'
    <3>1. PICK p : queue' = (queue \ {e}) \cup {Event(p, e.time + 1, d, MEM)}
      BY <1>7, IssueReadEffect
    <3> QED BY <2>1, <3>1
  <2>4. Current(c)'.request = "READ"
    BY <2>1, <2>2 DEF Current, NextRequest
  <2>5. CarriesRead(Event(p, t, c, MEM), c)'
    BY <2>4 DEF CarriesRead, Request, Event
  <2>6. \A k \in DOMAIN test_requests'[c] :
          k > op_counter'[c] => test_requests'[c][k].request = "READ"
    <3>1. test_requests[c] \in Seq(Transaction)
      BY DEF IInv, TypeOK
    <3>2. \A k \in DOMAIN test_requests[c] : k \in Nat
      BY <3>1
    <3> QED BY <2>1, <2>2, <3>2 DEF OnlyReadsAhead
  <2>7. OnlyReadsAhead(c)'
    BY <2>3, <2>5, <2>6 DEF OnlyReadsAhead
  <2>8. \A a \in CPUs \ {c} : op_counter'[a] = op_counter[a]
    BY <2>1 DEF IInv, TypeOK
  <2> QED BY <2>7, <2>8
<1>8. ~IssueWrite(d, e)
  <2> SUFFICES ASSUME IssueWrite(d, e) PROVE FALSE
    OBVIOUS
  <2>1. /\ d = c /\ op_counter[c] \in Nat
        /\ op_counter[c] + 1 \in DOMAIN test_requests[c]
        /\ NextRequest(c).request = "WRITE"
    BY <1>6, IssueWriteEffect
  <2>2. NextRequest(c).request = "READ"
    BY <2>1 DEF OnlyReadsAhead, NextRequest
  <2> QED BY <2>1, <2>2
<1> QED BY <1>4, <1>5, <1>7, <1>8 DEF CPUStep

LEMMA ReaderMemoryStep ==
  ASSUME IInv, Running, NEW c \in CPUs, OnlyReadsAhead(c),
         NEW e \in queue, MemoryStep(e), UNCHANGED cpuVars
  PROVE  OnlyReadsAhead(c)'
<1>1. PICK r \in queue : CarriesRead(r, c)
  BY DEF OnlyReadsAhead
<1>2. /\ BusEvents = {r} /\ Current(c).request = "READ"
      /\ Request(r, c) \/ Response(r, c)
  BY <1>1, ReadHasTheBus DEF CarriesRead
<1>3. ASSUME RefreshTimer(e), r \in queue' \/ r = e PROVE OnlyReadsAhead(c)'
  <2>1. r # e
    BY <1>2, <1>3 DEF BusEvents, BusEvent, RefreshTimer
  <2> QED BY <1>2, <1>3, <2>1, StillAhead
<1>4. CASE startRefresh(e)
  BY <1>3, <1>4, startRefreshEffect
<1>5. CASE endRefresh(e)
  BY <1>3, <1>5, endRefreshEffect
<1>6. ASSUME BusEvents = {e}, NEW a \in CPUs, Request(e, a) PROVE a = c
  BY <1>2, <1>6, BusAssumption DEF Request, Response
<1>7. CASE PostponeRequest(e)
  <2>1. PICK a \in CPUs :
          Request(e, a) /\ \E p, t : Event(p, t, a, MEM) \in queue'
    BY <1>7, PostponeEffect
  <2>2. a = c
    BY <1>6, <1>7, <2>1, PostponeEffect
  <2>3. PICK p, t : Event(p, t, c, MEM) \in queue'
    BY <2>1, <2>2
  <2>4. Request(Event(p, t, c, MEM), c)
    BY DEF Request, Event
  <2> QED BY <1>2, <2>3, <2>4, StillAhead
<1>8. CASE onReadRequest(e)
  <2>1. PICK a \in CPUs :
          Request(e, a) /\ \E p, t : Event(p, t, MEM, a) \in queue'
    BY <1>8, onReadRequestEffect
  <2>2. a = c
    BY <1>6, <1>8, <2>1, onReadRequestEffect
  <2>3. PICK p, t : Event(p, t, MEM, c) \in queue'
    BY <2>1, <2>2
  <2>4. Response(Event(p, t, MEM, c), c)
    BY DEF Response, Event
  <2> QED BY <1>2, <2>3, <2>4, StillAhead
<1>9. ~onOtherRequest(e)
  <2> SUFFICES ASSUME onOtherRequest(e) PROVE FALSE
    OBVIOUS
  <2>1. PICK a \in CPUs : Request(e, a) /\ Current(a).request = "WRITE"
    BY onOtherRequestEffect
  <2>2. a = c
    BY <1>6, <2>1, onOtherRequestEffect
  <2> QED BY <1>2, <2>1, <2>2
<1> QED BY <1>4, <1>5, <1>7, <1>8, <1>9 DEF MemoryStep

(* A CPU with nothing but reads ahead starves all others, however many     *)
(* there are and whatever they want.                                       *)
THEOREM ReaderKeepsTheBusHolds == Spec => ReaderKeepsTheBus
<1>1. ASSUME IInv, [Next]_vars
      PROVE  [Running => \A c \in CPUs : OnlyReadsAhead(c) =>
                /\ \A d \in CPUs \ {c} : op_counter'[d] = op_counter[d]
                /\ Running' => OnlyReadsAhead(c)']_vars
  <2> SUFFICES ASSUME Next, Running, NEW c \in CPUs, OnlyReadsAhead(c)
               PROVE  /\ \A d \in CPUs \ {c} : op_counter'[d] = op_counter[d]
                      /\ Running' => OnlyReadsAhead(c)'
    BY <1>1
  <2>1. PICK e \in queue : notify_all(e)
    BY DEF Next, Exited, tick
  <2>2. CASE MemoryStep(e) /\ UNCHANGED cpuVars
    BY <1>1, <2>2, ReaderMemoryStep DEF cpuVars
  <2>3. CASE \E d \in CPUs : CPUStep(d, e)
    BY <1>1, <2>3, ReaderCPUStep
  <2> QED BY <2>1, <2>2, <2>3 DEF notify_all
<1> QED BY <1>1, Invariance, PTL DEF Spec, ReaderKeepsTheBus

-----------------------------------------------------------------------------
(* That the simulator implements SharedRAM: each step either issues one    *)
(* request of one program atomically, or ends the simulation, or is not    *)
(* seen by the programs.                                                   *)


Answering(c) == \E f \in queue : Response(f, c)
Asking(c)    == \E f \in queue : Request(f, c) /\ Current(c).request = "READ"

(* expects[c], where the process is running. *)
Expected(c) ==
  IF Answering(c) THEN bus.data
  ELSE IF Asking(c) THEN ram[CellOf(Current(c).address)]
  ELSE NoWord

-----------------------------------------------------------------------------
(* The mapped variables *)

LEMMA ExpectsRunning ==
  /\ Running => expects = [c \in CPUs |-> Expected(c)]
  /\ Running' => expects' = [c \in CPUs |-> Expected(c)']
<1>1. \A c \in CPUs : Asking(c) <=>
        \E f \in queue : Request(f, c) /\ CarriesRead(f, c)
  BY DEF Asking, CarriesRead
<1>2. \A c \in CPUs : Asking(c)' <=>
        \E f \in queue' : Request(f, c) /\ CarriesRead(f, c)'
  BY DEF Asking, CarriesRead
<1>3. Running => expects = [c \in CPUs |-> Expected(c)]
  BY <1>1 DEF expects, Expected, Answering
<1>4. Running' => expects' = [c \in CPUs |-> Expected(c)']
  BY <1>2 DEF expects, Expected, Answering
<1> QED BY <1>3, <1>4

LEMMA ExpectsExited ==
  ~Running' => expects' = [c \in CPUs |-> NoWord]
  BY DEF expects

LEMMA ExpectsNothing ==
  ASSUME NEW c
  PROVE  /\ ~Answering(c) /\ ~Asking(c) => Expected(c) = NoWord
         /\ ~Answering(c)' /\ ~Asking(c)' => Expected(c)' = NoWord
  BY DEF Expected

(* The memory as the programs see it is dram, unless a write is on the bus. *)
LEMMA NoPostedWrite ==
  /\ ~(bus.busy /\ bus.request = "WRITE") => ram = dram
  /\ ~(bus'.busy /\ bus'.request = "WRITE") => ram' = dram'
  BY DEF ram

LEMMA SameProgram ==
  ASSUME UNCHANGED test_requests PROVE program' = program
  BY DEF program

(* A request of a list is a request of the program. *)
LEMMA ProgramRequest ==
  ASSUME TypeOK, NEW c \in CPUs
  PROVE  /\ Len(program[c]) = Len(test_requests[c])
         /\ \A i \in DOMAIN test_requests[c] :
              program[c][i] = [request |-> test_requests[c][i].request,
                               cell |-> CellOf(test_requests[c][i].address)]
<1>1. test_requests[c] \in Seq(Transaction)
  BY DEF TypeOK
<1>2. program[c] = [i \in DOMAIN test_requests[c] |->
                      [request |-> test_requests[c][i].request,
                       cell |-> CellOf(test_requests[c][i].address)]]
  BY DEF program
<1>3. Len(program[c]) = Len(test_requests[c])
  BY <1>1, <1>2
<1> QED BY <1>2, <1>3

(* Where the events between modules all concern c, no other CPU asks, or   *)
(* is answered.                                                            *)
LEMMA OthersAreIdle ==
  ASSUME NEW S, NEW c \in CPUs, NEW d \in CPUs, d # c,
         \A f \in S : BusEvent(f) =>
           f.source \in {c, MEM} /\ f.dest \in {c, MEM}
  PROVE  \A f \in S : ~Request(f, d) /\ ~Response(f, d)
  BY BusAssumption DEF Request, Response, BusEvent

-----------------------------------------------------------------------------
(* Steps that the programs do not see *)

LEMMA Unseen ==
  ASSUME Running, UNCHANGED <<exit_status, test_requests, op_counter>>,
         ram' = ram, \A c \in CPUs : Expected(c)' = Expected(c)
  PROVE  UNCHANGED RAM!vars
<1>1. expects' = expects
  BY ExpectsRunning DEF Running
<1> QED BY <1>1, SameProgram DEF RAM!vars, Running

(* The events to and from the memory stay, or are replaced by the like.    *)
LEMMA SameExpected ==
  ASSUME NEW c \in CPUs, ram' = ram, UNCHANGED <<bus, test_requests, op_counter>>,
         (\E f \in queue' : Request(f, c)) <=> (\E f \in queue : Request(f, c)),
         (\E f \in queue' : Response(f, c)) <=> (\E f \in queue : Response(f, c))
  PROVE  Expected(c)' = Expected(c)
<1>1. Current(c)' = Current(c)
  BY DEF Current
<1>2. (Answering(c)' <=> Answering(c)) /\ (Asking(c)' <=> Asking(c))
  BY <1>1 DEF Answering, Asking
<1> QED BY <1>1, <1>2 DEF Expected

(* An event that no CPU waits for comes and goes. *)
LEMMA InternalEvent ==
  ASSUME NEW e, NEW x, queue' = (queue \ {e}) \cup {x},
         e.source = e.dest, x.source = x.dest,
         Running, UNCHANGED <<exit_status, bus, test_requests, op_counter, dram>>
  PROVE  UNCHANGED RAM!vars
<1>1. ram' = ram
  BY DEF ram
<1>2. \A c \in CPUs : /\ ~Request(e, c) /\ ~Response(e, c)
                      /\ ~Request(x, c) /\ ~Response(x, c)
  BY BusAssumption DEF Request, Response
<1>3. \A c \in CPUs :
        /\ (\E f \in queue' : Request(f, c)) <=> (\E f \in queue : Request(f, c))
        /\ (\E f \in queue' : Response(f, c)) <=> (\E f \in queue : Response(f, c))
  BY <1>2
<1> QED BY <1>1, <1>3, SameExpected, Unseen

LEMMA BackOffUnseen ==
  ASSUME IInv, NEW c \in CPUs, NEW e \in queue, BackOff(c, e), UNCHANGED memVars
  PROVE  UNCHANGED RAM!vars
<1>1. PICK p, t : queue' = (queue \ {e}) \cup {Event(p, t, c, c)}
  BY BackOffEffect
<1>2. e.source = e.dest /\ Event(p, t, c, c).source = Event(p, t, c, c).dest
  BY BackOffEffect DEF Beep, Event
<1>3. Running
  BY Dispatched DEF BackOff
<1>4. UNCHANGED <<exit_status, bus, test_requests, op_counter, dram>>
  BY BackOffEffect DEF memVars, accessVars
<1> QED BY <1>1, <1>2, <1>3, <1>4, InternalEvent

LEMMA RefreshUnseen ==
  ASSUME IInv, NEW e \in queue, startRefresh(e) \/ endRefresh(e),
         UNCHANGED cpuVars
  PROVE  UNCHANGED RAM!vars
<1>1. PICK p, t : queue' = (queue \ {e}) \cup {Event(p, t, MEM, MEM)}
  BY startRefreshEffect, endRefreshEffect
<1>2. /\ e.source = e.dest
      /\ Event(p, t, MEM, MEM).source = Event(p, t, MEM, MEM).dest
  BY startRefreshEffect, endRefreshEffect DEF RefreshTimer, Event
<1>3. Running
  BY Dispatched DEF startRefresh, endRefresh
<1>4. UNCHANGED <<exit_status, bus, test_requests, op_counter, dram>>
  BY startRefreshEffect, endRefreshEffect DEF accessVars, cpuVars
<1> QED BY <1>1, <1>2, <1>3, <1>4, InternalEvent

LEMMA PostponeUnseen ==
  ASSUME IInv, NEW e \in queue, PostponeRequest(e), UNCHANGED cpuVars
  PROVE  UNCHANGED RAM!vars
<1>1. PICK c \in CPUs, p \in Free, t \in Nat :
        /\ Request(e, c)
        /\ queue' = (queue \ {e}) \cup {Event(p, t, c, MEM)}
  BY PostponeEffect
<1> DEFINE x == Event(p, t, c, MEM)
<1>2. x.source = e.source /\ x.dest = e.dest
  BY <1>1 DEF Request, Event
<1>3. \A d \in CPUs : /\ Request(x, d) <=> Request(e, d)
                      /\ Response(x, d) <=> Response(e, d)
  BY <1>2 DEF Request, Response
<1> HIDE DEF x
<1>4. queue' = (queue \ {e}) \cup {x}
  BY <1>1 DEF x
<1>5. \A d \in CPUs :
        /\ (\E f \in queue' : Request(f, d)) <=> (\E f \in queue : Request(f, d))
        /\ (\E f \in queue' : Response(f, d)) <=> (\E f \in queue : Response(f, d))
  BY <1>3, <1>4
<1>6. /\ Running
      /\ UNCHANGED <<exit_status, bus, test_requests, op_counter, dram>>
  BY Dispatched DEF PostponeRequest, memVars, accessVars, cpuVars
<1>7. ram' = ram
  BY <1>6 DEF ram
<1> QED BY <1>5, <1>6, <1>7, SameExpected, Unseen

(* The event e is the only one on the bus, and it concerns c alone.        *)
LEMMA OnlyOnBus ==
  ASSUME NEW c \in CPUs, NEW e, BusEvents \subseteq {e},
         e.source \in {c, MEM}, e.dest \in {c, MEM}
  PROVE  /\ \A d \in CPUs \ {c} : Expected(d) = NoWord
         /\ \A f \in queue \ {e} : ~BusEvent(f)
<1>1. \A f \in queue \ {e} : ~BusEvent(f)
  BY DEF BusEvents
<1>2. \A f \in queue : BusEvent(f) =>
        f.source \in {c, MEM} /\ f.dest \in {c, MEM}
  BY <1>1
<1>3. ASSUME NEW d \in CPUs \ {c} PROVE Expected(d) = NoWord
  BY <1>2, <1>3, OthersAreIdle, ExpectsNothing DEF Answering, Asking
<1> QED BY <1>1, <1>3

(* After the step, that holds of the events that replace e. *)
LEMMA OnlyOnBusNext ==
  ASSUME NEW c \in CPUs, NEW e, BusEvents \subseteq {e}, NEW new,
         queue' = (queue \ {e}) \cup new,
         \A x \in new : x.source \in {c, MEM} /\ x.dest \in {c, MEM}
  PROVE  /\ \A d \in CPUs \ {c} : Expected(d)' = NoWord
         /\ Answering(c)' <=> \E x \in new : Response(x, c)
         /\ Asking(c)' <=> Current(c)'.request = "READ"
                             /\ \E x \in new : Request(x, c)
<1>1. \A f \in queue \ {e} : ~BusEvent(f)
  BY DEF BusEvents
<1>2. \A f \in queue' : BusEvent(f) =>
        f.source \in {c, MEM} /\ f.dest \in {c, MEM}
  BY <1>1
<1>3. ASSUME NEW d \in CPUs \ {c} PROVE Expected(d)' = NoWord
  <2>1. \A f \in queue' : ~Request(f, d) /\ ~Response(f, d)
    BY <1>2, <1>3, OthersAreIdle
  <2>2. ~Answering(d)' /\ ~Asking(d)'
    BY <2>1 DEF Answering, Asking
  <2> QED BY <2>2, ExpectsNothing
<1>4. \A f \in queue \ {e} : ~Request(f, c) /\ ~Response(f, c)
  BY <1>1, BusAssumption DEF Request, Response, BusEvent
<1> QED BY <1>3, <1>4 DEF Answering, Asking

(* The word a read is answered with is the one its CPU expects. *)
LEMMA ReadServiceUnseen ==
  ASSUME IInv, NEW e \in queue, onReadRequest(e), UNCHANGED cpuVars
  PROVE  UNCHANGED RAM!vars
<1>1. PICK c \in CPUs, p \in Free, t \in Nat :
        /\ Request(e, c)
        /\ Current(c).request = "READ"
        /\ bus.address = Current(c).address
        /\ queue' = (queue \ {e}) \cup {Event(p, t, MEM, c)}
  BY onReadRequestEffect
<1> DEFINE new == {Event(p, t, MEM, c)}
<1>2. /\ \A x \in new : x.source \in {c, MEM} /\ x.dest \in {c, MEM}
      /\ \E x \in new : Response(x, c)
  BY DEF Event, Response
<1>3. queue' = (queue \ {e}) \cup new
  BY <1>1
<1> HIDE DEF new
<1>4. /\ Running /\ bus.request = "READ"
      /\ BusEvents \subseteq {e}
      /\ e.source \in {c, MEM} /\ e.dest \in {c, MEM}
  BY <1>1, Dispatched, onReadRequestEffect DEF onReadRequest, Request
<1>5. /\ bus'.request = "READ" /\ bus'.data = dram[CellOf(bus.address)]
      /\ UNCHANGED <<dram, exit_status>>
  <2>1. bus' = [busy |-> TRUE, request |-> "READ", address |-> bus.address,
                data |-> dram[CellOf(bus.address)]]
    BY onReadRequestEffect
  <2>2. UNCHANGED <<dram, exit_status>>
    BY onReadRequestEffect
  <2> QED BY <2>1, <2>2
<1>6. ram = dram /\ ram' = ram
  <2>1. "READ" # "WRITE"
    OBVIOUS
  <2> QED BY <1>4, <1>5, <2>1, NoPostedWrite
<1>7. \A d \in CPUs \ {c} : Expected(d)' = Expected(d)
  BY <1>2, <1>3, <1>4, OnlyOnBus, OnlyOnBusNext
<1>8. Expected(c)' = dram[CellOf(bus.address)]
  <2>1. Answering(c)'
    BY <1>2, <1>3, <1>4, OnlyOnBusNext
  <2> QED BY <1>5, <2>1 DEF Expected
<1>9. Expected(c) = dram[CellOf(bus.address)]
  <2>1. \A f \in queue \ {e} : ~BusEvent(f)
    BY <1>4, OnlyOnBus
  <2>2. ~Answering(c) /\ Asking(c)
    BY <1>1, <2>1, BusAssumption
    DEF Answering, Asking, Request, Response, BusEvent
  <2> QED BY <1>1, <1>6, <2>2 DEF Expected
<1>10. \A d \in CPUs : Expected(d)' = Expected(d)
  BY <1>7, <1>8, <1>9
<1> QED BY <1>4, <1>5, <1>6, <1>10, Unseen DEF cpuVars

(* A posted write is done already, to the programs. *)
LEMMA WriteServiceUnseen ==
  ASSUME IInv, NEW e \in queue, onOtherRequest(e), UNCHANGED cpuVars
  PROVE  UNCHANGED RAM!vars
<1>1. PICK c \in CPUs : Request(e, c) /\ Current(c).request = "WRITE"
  BY onOtherRequestEffect
<1> DEFINE new == {}
<1>2. /\ queue' = (queue \ {e}) \cup new
      /\ \A x \in new : x.source \in {c, MEM} /\ x.dest \in {c, MEM}
      /\ ~\E x \in new : Request(x, c) \/ Response(x, c)
  BY onOtherRequestEffect
<1> HIDE DEF new
<1>3. /\ Running
      /\ BusEvents \subseteq {e}
      /\ e.source \in {c, MEM} /\ e.dest \in {c, MEM}
      /\ UNCHANGED exit_status
  BY <1>1, Dispatched, onOtherRequestEffect DEF onOtherRequest, Request
<1>4. bus \in [busy : BOOLEAN, request : {"READ", "WRITE", "UNDEFINED"},
               address : AddressRange, data : Words]
  BY DEF IInv, TypeOK
<1>5. ~bus'.busy
  BY <1>4, onOtherRequestEffect
<1>6. ram' = ram
  BY <1>5, NoPostedWrite, onOtherRequestEffect DEF ram
<1>7. \A d \in CPUs \ {c} : Expected(d)' = Expected(d)
  BY <1>2, <1>3, OnlyOnBus, OnlyOnBusNext
<1>8. Expected(c)' = NoWord
  <2>1. ~Answering(c)' /\ ~Asking(c)'
    BY <1>2, <1>3, OnlyOnBusNext
  <2> QED BY <2>1, ExpectsNothing
<1>9. Expected(c) = NoWord
  <2>1. \A f \in queue \ {e} : ~BusEvent(f)
    BY <1>3, OnlyOnBus
  <2>2. ~Answering(c) /\ ~Asking(c)
    BY <1>1, <2>1, BusAssumption
    DEF Answering, Asking, Request, Response, BusEvent
  <2> QED BY <2>2, ExpectsNothing
<1>10. \A d \in CPUs : Expected(d)' = Expected(d)
  BY <1>7, <1>8, <1>9
<1> QED BY <1>3, <1>6, <1>10, Unseen DEF cpuVars

-----------------------------------------------------------------------------
(* Steps that the programs see *)

(* A CPU can only set a bus that carries no posted write. *)
LEMMA IssueFinds ==
  ASSUME IInv, NEW c \in CPUs, NEW e \in queue, Notifies(e, c),
         SetSucceeds(BusAfterAnswer(c, e))
  PROVE  ram = dram
<1>1. ~bus.busy \/ (Response(e, c) /\ BusEvents = {e})
  BY DispatchedToCPU DEF SetSucceeds
<1>2. CASE ~bus.busy
  BY <1>2, NoPostedWrite
<1>3. CASE Response(e, c) /\ BusEvents = {e}
  <2>1. bus.request = "READ"
    BY <1>3, Dispatched, BusAssumption
    DEF IInv, BusProtocol, Response, Request
  <2>2. "READ" # "WRITE"
    OBVIOUS
  <2> QED BY <2>1, <2>2, NoPostedWrite
<1> QED BY <1>1, <1>2, <1>3

(* The next request of c is the one its program has next. *)
LEMMA IssuesNext ==
  ASSUME IInv, Running, NEW c \in CPUs,
         op_counter[c] + 1 \in DOMAIN test_requests[c],
         op_counter' = [op_counter EXCEPT ![c] = @ + 1],
         UNCHANGED <<exit_status, test_requests>>
  PROVE  /\ CellOf(NextRequest(c).address) \in Cells
         /\ RAM!Issues(c, NextRequest(c).request,
                       CellOf(NextRequest(c).address))
         /\ Current(c)' = NextRequest(c)
<1>1. /\ TypeOK /\ op_counter[c] \in Nat
      /\ test_requests[c] \in Seq(Transaction)
  BY DEF IInv, TypeOK
<1>2. NextRequest(c).address \in AddressRange
  <2>1. test_requests[c][op_counter[c] + 1] \in Transaction
    BY <1>1
  <2> QED BY <2>1 DEF NextRequest, Transaction
<1>3. /\ op_counter[c] < Len(program[c])
      /\ program[c][op_counter[c] + 1]
           = [request |-> NextRequest(c).request,
              cell |-> CellOf(NextRequest(c).address)]
  <2>1. /\ Len(program[c]) = Len(test_requests[c])
        /\ program[c][op_counter[c] + 1]
             = [request |-> test_requests[c][op_counter[c] + 1].request,
                cell |-> CellOf(test_requests[c][op_counter[c] + 1].address)]
    BY <1>1, ProgramRequest
  <2>2. op_counter[c] < Len(test_requests[c])
    BY <1>1
  <2> QED BY <2>1, <2>2 DEF NextRequest
<1>4. UNCHANGED <<program, ~Running>> /\ ~~Running
  BY SameProgram DEF Running
<1>5. Current(c)' = NextRequest(c)
  BY <1>1 DEF Current, NextRequest, IInv, TypeOK
<1>6. CellOf(NextRequest(c).address) \in Cells
  BY <1>2 DEF Cells
<1> QED BY <1>3, <1>4, <1>5, <1>6 DEF RAM!Issues

(* After an issue c alone may expect a word. *)
LEMMA ExpectsAfterIssue ==
  ASSUME NEW c \in CPUs, Running, Running', NEW w, Expected(c)' = w,
         \A d \in CPUs \ {c} : Expected(d) = NoWord /\ Expected(d)' = NoWord
  PROVE  expects' = [expects EXCEPT ![c] = w]
<1>1. expects = [d \in CPUs |-> Expected(d)]
  BY ExpectsRunning
<1>2. expects' = [d \in CPUs |-> Expected(d)']
  BY ExpectsRunning
<1> QED BY <1>1, <1>2

LEMMA IssueReadSeen ==
  ASSUME IInv, NEW c \in CPUs, NEW e \in queue, IssueRead(c, e),
         UNCHANGED memVars
  PROVE  RAM!Read(c, CellOf(NextRequest(c).address))
<1> DEFINE cell == CellOf(NextRequest(c).address)
<1>1. PICK p, t : queue' = (queue \ {e}) \cup {Event(p, t, c, MEM)}
  BY IssueReadEffect
<1> DEFINE new == {Event(p, t, c, MEM)}
<1>2. /\ queue' = (queue \ {e}) \cup new
      /\ \A x \in new : x.source \in {c, MEM} /\ x.dest \in {c, MEM}
      /\ \E x \in new : Request(x, c)
      /\ ~\E x \in new : Response(x, c)
  BY <1>1, BusAssumption DEF Event, Request, Response
<1> HIDE DEF new
<1>3. /\ Running /\ Notifies(e, c) /\ SetSucceeds(BusAfterAnswer(c, e))
      /\ NextRequest(c).request = "READ"
  BY DEF IssueRead, Notifies
<1>4. /\ BusEvents \subseteq {e}
      /\ e.source \in {c, MEM} /\ e.dest \in {c, MEM}
      /\ op_counter[c] + 1 \in DOMAIN test_requests[c]
      /\ op_counter' = [op_counter EXCEPT ![c] = @ + 1]
      /\ UNCHANGED <<exit_status, test_requests>>
  BY <1>3, IssueReadEffect, DispatchedToCPU DEF Beep, Response
<1>5. RAM!Issues(c, "READ", cell) /\ Current(c)' = NextRequest(c)
  BY <1>3, <1>4, IssuesNext
<1>6. ram = dram /\ ram' = dram
  <2>1. bus'.request = "READ"
    <3>1. bus' = [busy |-> TRUE, request |-> NextRequest(c).request,
                  address |-> NextRequest(c).address, data |-> WriteData]
      BY IssueReadEffect
    <3> QED BY <1>3, <3>1
  <2>2. "READ" # "WRITE" /\ dram' = dram
    BY DEF memVars, accessVars
  <2> QED BY <1>3, <2>1, <2>2, IssueFinds, NoPostedWrite
<1>7. Expected(c)' = ram[cell]
  <2>1. ~Answering(c)' /\ Asking(c)'
    BY <1>2, <1>3, <1>4, <1>5, OnlyOnBusNext
  <2> QED BY <1>5, <1>6, <2>1 DEF Expected
<1>8. \A d \in CPUs \ {c} : Expected(d) = NoWord /\ Expected(d)' = NoWord
  BY <1>2, <1>4, OnlyOnBus, OnlyOnBusNext
<1>9. Running'
  BY <1>3, <1>4 DEF Running
<1>10. expects' = [expects EXCEPT ![c] = ram[cell]]
  BY <1>3, <1>7, <1>8, <1>9, ExpectsAfterIssue
<1> QED BY <1>5, <1>6, <1>10 DEF RAM!Read

LEMMA IssueWriteSeen ==
  ASSUME IInv, NEW c \in CPUs, NEW e \in queue, IssueWrite(c, e),
         UNCHANGED memVars
  PROVE  RAM!Write(c, CellOf(NextRequest(c).address))
<1> DEFINE cell == CellOf(NextRequest(c).address)
<1>1. PICK p, q, t : queue' = (queue \ {e}) \cup {Event(p, t, c, MEM),
                                                 Event(q, t, c, c)}
  BY IssueWriteEffect
<1> DEFINE new == {Event(p, t, c, MEM), Event(q, t, c, c)}
<1>2. /\ queue' = (queue \ {e}) \cup new
      /\ \A x \in new : x.source \in {c, MEM} /\ x.dest \in {c, MEM}
      /\ ~\E x \in new : Response(x, c)
  BY <1>1, BusAssumption DEF Event, Response
<1> HIDE DEF new
<1>3. /\ Running /\ Notifies(e, c) /\ SetSucceeds(BusAfterAnswer(c, e))
      /\ NextRequest(c).request = "WRITE"
  BY DEF IssueWrite, Notifies
<1>4. /\ BusEvents \subseteq {e}
      /\ e.source \in {c, MEM} /\ e.dest \in {c, MEM}
      /\ op_counter[c] + 1 \in DOMAIN test_requests[c]
      /\ op_counter' = [op_counter EXCEPT ![c] = @ + 1]
      /\ UNCHANGED <<exit_status, test_requests>>
  BY <1>3, IssueWriteEffect, DispatchedToCPU DEF Beep, Response
<1>5. RAM!Issues(c, "WRITE", cell) /\ Current(c)' = NextRequest(c)
  BY <1>3, <1>4, IssuesNext
<1>6. ram' = [ram EXCEPT ![cell] = WriteData]
  <2>1. /\ bus'.busy = TRUE /\ bus'.request = "WRITE"
        /\ bus'.address = NextRequest(c).address /\ bus'.data = WriteData
    <3>1. bus' = [busy |-> TRUE, request |-> NextRequest(c).request,
                  address |-> NextRequest(c).address, data |-> WriteData]
      BY IssueWriteEffect
    <3> QED BY <1>3, <3>1
  <2>2. ram' = [dram EXCEPT ![cell] = WriteData]
    BY <2>1 DEF ram, memVars, accessVars
  <2> QED BY <1>3, <2>2, IssueFinds
<1>7. Expected(c)' = NoWord
  <2>1. ~Answering(c)'
    BY <1>2, <1>4, OnlyOnBusNext
  <2>2. ~Asking(c)'
    <3>1. "WRITE" # "READ"
      OBVIOUS
    <3> QED BY <1>2, <1>3, <1>4, <1>5, <3>1, OnlyOnBusNext
  <2> QED BY <2>1, <2>2, ExpectsNothing
<1>8. \A d \in CPUs \ {c} : Expected(d) = NoWord /\ Expected(d)' = NoWord
  BY <1>2, <1>4, OnlyOnBus, OnlyOnBusNext
<1>9. Running'
  BY <1>3, <1>4 DEF Running
<1>10. expects' = [expects EXCEPT ![c] = NoWord]
  BY <1>3, <1>7, <1>8, <1>9, ExpectsAfterIssue
<1> QED BY <1>5, <1>6, <1>10 DEF RAM!Write

(* The simulation ends with a CPU that has issued its whole program. *)
LEMMA FinishSeen ==
  ASSUME IInv, NEW c \in CPUs, NEW e \in queue, Finish(c, e),
         UNCHANGED memVars
  PROVE  RAM!Stop(c)
<1>1. /\ Notifies(e, c) /\ Running /\ op_counter[c] >= Len(test_requests[c])
      /\ bus' = BusAfterAnswer(c, e)
      /\ exit_status' = "success"
      /\ UNCHANGED <<test_requests, op_counter, dram>>
  BY DEF Finish, Exits, AllIssued, Notifies, cpuVars, memVars, accessVars
<1>2. op_counter[c] >= Len(program[c])
  BY <1>1, ProgramRequest DEF IInv
<1>3. ~Running'
  BY <1>1 DEF Running
<1>4. ram' = ram
  <2>1. CASE bus' = bus
    BY <1>1, <2>1 DEF ram
  <2>2. CASE Response(e, c) /\ BusEvents = {e} /\ bus' = Get(bus)
    <3>1. bus.request = "READ"
      BY <1>1, <2>2, BusAssumption DEF IInv, BusProtocol, Response, Request
    <3>2. bus \in [busy : BOOLEAN, request : {"READ", "WRITE", "UNDEFINED"},
                   address : AddressRange, data : Words]
      BY DEF IInv, TypeOK
    <3>3. ~bus'.busy
      BY <2>2, <3>2 DEF Get
    <3>4. "READ" # "WRITE"
      OBVIOUS
    <3> QED BY <1>1, <3>1, <3>3, <3>4, NoPostedWrite
  <2> QED BY <1>1, <2>1, <2>2, DispatchedToCPU
<1>5. expects' = [d \in CPUs |-> NoWord]
  BY <1>3, ExpectsExited
<1>6. program' = program
  BY <1>1, SameProgram
<1> QED BY <1>1, <1>2, <1>3, <1>4, <1>5, <1>6 DEF RAM!Stop

-----------------------------------------------------------------------------
(* The refinement *)

LEMMA InitSeen == Init => RAM!Init
<1> SUFFICES ASSUME Init PROVE RAM!Init
  OBVIOUS
<1>1. op_counter \in [CPUs -> Nat] /\ Running
  BY InitIInv DEF IInv, TypeOK, Init, Running
<1>2. \A f \in queue : f.dest = f.source
  BY InitialQueue DEF Init
<1>3. \A c \in CPUs : ~Answering(c) /\ ~Asking(c)
  BY <1>2, BusAssumption DEF Answering, Asking, Request, Response
<1>4. \A c \in CPUs : Expected(c) = NoWord
  BY <1>3, ExpectsNothing
<1>5. expects = [c \in CPUs |-> NoWord]
  BY <1>1, <1>4, ExpectsRunning
<1> QED BY <1>1, <1>5 DEF RAM!Init

LEMMA StutterUnseen ==
  ASSUME UNCHANGED vars PROVE UNCHANGED RAM!vars
<1> USE DEF vars, systemVars, cpuVars, memVars, accessVars
<1>1. ram' = ram
  BY DEF ram
<1>2. expects' = expects
  BY <1>1 DEF expects, Running, CarriesRead, Current
<1> QED BY <1>1, <1>2, SameProgram DEF RAM!vars, Running

LEMMA CPUStepSeen ==
  ASSUME IInv, NEW c \in CPUs, NEW e \in queue, CPUStep(c, e),
         UNCHANGED memVars
  PROVE  RAM!Next \/ UNCHANGED RAM!vars
<1>1. CASE Finish(c, e)
  BY <1>1, FinishSeen DEF RAM!Next
<1>2. CASE BackOff(c, e)
  BY <1>2, BackOffUnseen
<1>3. CASE IssueRead(c, e) \/ IssueWrite(c, e)
  <2>1. CellOf(NextRequest(c).address) \in Cells
    <3>1. NextRequest(c) \in Transaction
      BY <1>3, IssueReadEffect, IssueWriteEffect
    <3> QED BY <3>1 DEF Transaction, Cells
  <2>2. \/ RAM!Read(c, CellOf(NextRequest(c).address))
        \/ RAM!Write(c, CellOf(NextRequest(c).address))
    BY <1>3, IssueReadSeen, IssueWriteSeen
  <2> QED BY <2>1, <2>2 DEF RAM!Next
<1> QED BY <1>1, <1>2, <1>3 DEF CPUStep

LEMMA NextSeen == IInv /\ [Next]_vars => [RAM!Next]_(RAM!vars)
<1> SUFFICES ASSUME IInv, [Next]_vars PROVE RAM!Next \/ UNCHANGED RAM!vars
  OBVIOUS
<1>1. CASE tick
  <2>1. PICK e \in queue : notify_all(e)
    BY <1>1 DEF tick
  <2>2. CASE \E c \in CPUs : CPUStep(c, e) /\ UNCHANGED memVars
    BY <2>2, CPUStepSeen
  <2>3. CASE MemoryStep(e) /\ UNCHANGED cpuVars
    BY <2>3, RefreshUnseen, PostponeUnseen, ReadServiceUnseen,
       WriteServiceUnseen DEF MemoryStep
  <2> QED BY <2>1, <2>2, <2>3 DEF notify_all
<1>2. CASE UNCHANGED vars
  BY <1>2, StutterUnseen
<1> QED BY <1>1, <1>2 DEF Next, Exited

(* The simulator is an implementation of one shared memory.  Whatever is   *)
(* postponed, and whichever CPU wins the bus, a read is answered with the  *)
(* word its cell held when it was issued, and a posted write is never      *)
(* overtaken by a later request.                                           *)
THEOREM Implementation == Spec => ImplementsSharedRAM
<1>1. Spec => RAM!Spec
  BY InitSeen, NextSeen, Invariance, PTL DEF Spec, RAM!Spec
<1> QED BY <1>1 DEF ImplementsSharedRAM
=============================================================================
