--------------------------- MODULE HeapSimulator ----------------------------
(***************************************************************************)
(* The simulator as it runs when built with libstdc++: System::queue is a  *)
(* binary heap, which settles the order of simultaneous events that        *)
(* Simulator leaves open.  heap holds the events of queue.                 *)
(***************************************************************************)
EXTENDS Simulator, BinaryHeap

(* main() plugs in one. *)
ASSUME HeapAssumption == IsFiniteSet(CPUs)

VARIABLE heap   \* the vector of pointers in System::queue

hvars == <<vars, heap>>

-----------------------------------------------------------------------------

(* System::insert(), for the events of a sequence. *)
insertAll(v, events) == FoldLeft(push, v, events)

(* tick() inserts the events of a handler in the order they were sent in,  *)
(* which is the order they were allocated in: newEvents and the module's   *)
(* own list are both emptied from the back.                                *)
InOrderSent(events) ==
  CHOOSE order \in SetToSeqs(events) :
    \A j, k \in DOMAIN order : j < k => order[j].ptr < order[k].ptr

(* run() inserts the modules' first events, in the order the modules were  *)
(* added to the system in: the CPUs, then the memory.                      *)
HeapInit ==
  /\ Init
  /\ \E order \in SetToSeqs(queue) :
       /\ Last(order).dest = MEM
       /\ heap = insertAll(<<>>, order)

(* The iteration of run() ends the process, or pops the event and inserts  *)
(* the new ones.                                                           *)
HeapTick ==
  /\ heap # <<>>
  /\ notify_all(top(heap))
  /\ heap' = IF Running'
               THEN insertAll(pop(heap), InOrderSent(queue' \ queue))
               ELSE heap

HeapNext == HeapTick \/ (Exited /\ UNCHANGED heap)

(* run() is a loop of a single thread: it goes on while it can. *)
HeapSpec == HeapInit /\ [][HeapNext]_hvars /\ WF_hvars(HeapTick)

-----------------------------------------------------------------------------
(* Properties *)

(* The heap holds exactly the pending events, and its top is one of those  *)
(* that are due first, through every sequence of pushes and pops.  With    *)
(* this every step here is a step of Simulator, and what is proved of it   *)
(* holds here.                                                             *)
HeapIsTheQueue ==
  /\ ToSet(heap) = queue /\ Len(heap) = Cardinality(queue)
  /\ \A i \in 2..Len(heap) : heap[i \div 2].time <= heap[i].time

(* tick() deletes the event before it pops the queue, whose root still     *)
(* points to it.  pop() never follows that pointer: whatever the freed     *)
(* memory holds, before, at or after the time of any event, it leaves the  *)
(* same heap.                                                              *)
PopIgnoresFreedEvent ==
  \A garbage \in {0} \cup UNION {{e.time, e.time + 1} : e \in queue} :
    pop([heap EXCEPT ![1].time = garbage]) = pop(heap)

RowOfAddress(address) == RowOf(CellOf(address))

Reference == INSTANCE ReferenceTiming WITH
  FastPage <- MODE_TYPE = "FAST", CAS <- CL, RowToColumn <- RCD,
  RowPrecharge <- RP, ServiceTime <- REFRESHING_INTERVAL,
  RefreshTime <- REFRESHING_TIME, Row <- RowOfAddress

(* The time printed at the exit is one that the timing of the memory gives *)
(* request by request, though it comes out of beeps, messages, retries and *)
(* ties.  So no tie ever lets a request overtake the refresh that is due,  *)
(* or keeps a posted write on the bus for longer than its tick, except     *)
(* right after a refresh, where the heap may cost the CPU one tick.        *)
ReportsReferenceTime ==
  exit_status = "success" =>
    \A c \in CPUs :
      CPUs = {c} => currentTime \in Reference!TotalTimes(test_requests[c])

(* Every run ends in a normal exit: no program is stalled, and no request  *)
(* that is postponed by zero ticks is preferred to the timer that ends the *)
(* phase for ever.                                                         *)
Terminates == <>(exit_status = "success")
=============================================================================
